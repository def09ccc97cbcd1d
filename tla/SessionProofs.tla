---------------------------- MODULE SessionProofs ----------------------------
(***************************************************************************)
(* Proofs about sessions, for any number of descriptors, people, names and *)
(* commands.  Aligned says what comes next in a stream and nothing of what *)
(* comes after that, so it is not inductive: a client may send the rest of *)
(* one exchange and the beginning of the next before main reads any of it. *)
(* Runs makes the whole stream one path of places main goes through as it  *)
(* reads, and Dialogue says that the path begins where main is and ends    *)
(* where the client believes it to be.                                     *)
(***************************************************************************)
EXTENDS Session, SequenceTheorems, TLAPS

(* Where main is with a connection: in the middle of an event, or between  *)
(* events in a state of the session; "named" is a login whose name main    *)
(* knows.  The places of the last row are not main's: they stand for an    *)
(* answer that main owes once it has read that far.                        *)
Place == {"fresh", "entering", "named", "registering", "inside", "choice",
          "login", "relogin", "register", "action", "token", "name", "secret",
          "lastSecret", "newName", "newSalt", "newSecret", "opened"}
         \cup {"salt", "judged", "exists", "done", "transfer", "granted"}

Owed == {"salt", "judged", "exists", "done", "transfer", "granted"}

Resting(state) == CASE state = 0 -> "fresh" [] state = 1 -> "entering"
                    [] state = 2 -> "registering" [] OTHER -> "inside"

Named(fd) == node[fd].UserName \in Name

Stands(fd, m) ==
  \/ srv.fd = fd /\ m = srv.pc /\ (m \in {"secret", "lastSecret"} => Named(fd))
  \/ srv.fd = fd /\ srv.pc = "login" /\ Named(fd) /\ m = "relogin"
  \/ srv.fd # fd /\ node[fd] = None /\ m = "fresh"
  \/ srv.fd # fd /\ node[fd] # None /\ m = Resting(node[fd].state)
  \/ srv.fd # fd /\ node[fd] # None /\ node[fd].state = 1 /\ Named(fd) /\ m = "named"

(* Main at place m takes the item x and is at n.                           *)
TakesHeader(m, x, n) ==
  \/ x = <<"header", 1>> /\ \/ m = "fresh" /\ n = "choice"
                            \/ m = "entering" /\ n = "login"
                            \/ m = "named" /\ n = "relogin"
                            \/ m = "registering" /\ n = "register"
                            \/ m = "inside" /\ n = "action"
  \/ x = <<"header", 2>> /\ m = "fresh" /\ n = "token"

TakesLogin(m, x, n) ==
  \/ m \in {"login", "relogin"} /\ x = <<"step", 1>> /\ n = "name"
  \/ m = "relogin" /\ x = <<"step", 2>> /\ n = "secret"
  \/ m = "relogin" /\ x = <<"step", 3>> /\ n = "lastSecret"
  \/ m = "name" /\ x[1] = "name" /\ n = "salt"
  \/ m \in {"secret", "lastSecret"} /\ x[1] = "secret" /\ n = "judged"

TakesRegister(m, x, n) ==
  \/ m = "register" /\ x = <<"step", 1>> /\ n = "newName"
  \/ m = "register" /\ x = <<"step", 2>> /\ n = "newSalt"
  \/ m = "newName" /\ x[1] = "name" /\ n = "exists"
  \/ m = "newSalt" /\ x[1] = "salt" /\ n = "newSecret"
  \/ m = "newSecret" /\ x[1] = "secret" /\ n = "fresh"

TakesCommand(m, x, n) ==
  \/ m = "action" /\ x[1] = "command" /\ x[2] \in {"remove", "other"} /\ n = "done"
  \/ m = "action" /\ x = <<"command", "gets">> /\ n = "transfer"
  \/ m = "action" /\ x = <<"command", "unknown">> /\ n = "inside"
  \/ m = "action" /\ x = <<"command", "puts">> /\ n = "opened"
  \/ m = "opened" /\ x = <<"opened", TRUE>> /\ n = "transfer"
  \/ m = "opened" /\ x = <<"opened", FALSE>> /\ n = "inside"

Takes(m, x, n) ==
  \/ TakesHeader(m, x, n)
  \/ m = "choice" /\ x = <<"choice", "login">> /\ n = "entering"
  \/ m = "choice" /\ x = <<"choice", "register">> /\ n = "registering"
  \/ TakesLogin(m, x, n) \/ TakesRegister(m, x, n) \/ TakesCommand(m, x, n)
  \/ m = "token" /\ x[1] = "token" /\ n = "granted"

(* Main at m is at e when it has read the items of s.                      *)
Runs(m, s, e) ==
  \E q \in [1 .. Len(s) + 1 -> Place] :
    /\ q[1] = m
    /\ q[Len(s) + 1] = e
    /\ \A i \in 1 .. Len(s) : Takes(q[i], s[i], q[i + 1])

(* A stream is empty just when its length is 0.                            *)
LEMMA Void ==
  ASSUME NEW S, NEW s \in Seq(S)
  PROVE  s = << >> <=> Len(s) = 0
OBVIOUS

(* What a puts sends: the command, and whether the file could be opened.   *)
LEMMA Longer ==
  ASSUME NEW S, NEW x \in S, NEW y \in S, NEW z \in S
  PROVE  <<x, y>> \o <<z>> = <<x, y, z>>
<1> DEFINE s == <<x, y>>
           t == <<z>>
           u == <<x, y, z>>
<1>1. /\ s \in Seq(S) /\ Len(s) = 2 /\ s[1] = x /\ s[2] = y
      /\ t \in Seq(S) /\ Len(t) = 1 /\ t[1] = z
      /\ u \in Seq(S) /\ Len(u) = 3 /\ u[1] = x /\ u[2] = y /\ u[3] = z
  OBVIOUS
<1> HIDE DEF s, t, u
<1>2. /\ s \o t \in Seq(S) /\ Len(s \o t) = Len(s) + Len(t)
      /\ \A i \in 1 .. Len(s) + Len(t) :
           (s \o t)[i] = IF i <= Len(s) THEN s[i] ELSE t[i - Len(s)]
  BY <1>1, ConcatProperties
<1> DEFINE v == s \o t
<1> HIDE DEF v
<1>3. v \in Seq(S) /\ Len(v) = 3 /\ v[1] = x /\ v[2] = y /\ v[3] = z
  BY <1>1, <1>2 DEF v
<1>4. v = u
  BY <1>1, <1>3, SeqEqual
<1> QED
  BY <1>4 DEF s, t, u, v

(* A stream of one item.                                                   *)
LEMMA Single ==
  ASSUME NEW S, NEW s \in Seq(S), Len(s) = 1
  PROVE  Head(s) = s[1] /\ Tail(s) = << >>
<1>1. Head(s) = s[1] /\ s # << >>
  OBVIOUS
<1>2. Tail(s) \in Seq(S) /\ Len(Tail(s)) = 0
  BY <1>1, HeadTailProperties
<1> QED
  BY <1>1, <1>2, Void

(* Nothing to read leaves main where it is.                                *)
LEMMA RunsEmpty ==
  ASSUME NEW s \in Seq(Item), Len(s) = 0, NEW m \in Place
  PROVE  /\ Runs(m, s, m)
         /\ \A e \in Place : Runs(m, s, e) => e = m
<1>2. Runs(m, s, m)
  <2> DEFINE q == [i \in 1 .. Len(s) + 1 |-> m]
  <2>1. q \in [1 .. Len(s) + 1 -> Place] /\ q[1] = m /\ q[Len(s) + 1] = m
    OBVIOUS
  <2> HIDE DEF q
  <2> QED
    BY <2>1 DEF Runs
<1>3. ASSUME NEW e \in Place, Runs(m, s, e) PROVE e = m
  BY <1>3 DEF Runs
<1> QED
  BY <1>2, <1>3

(* Main reads the first item.                                              *)
LEMMA RunsTail ==
  ASSUME NEW s \in Seq(Item), s # << >>, NEW m \in Place, NEW e \in Place,
         Runs(m, s, e)
  PROVE  \E n \in Place : Takes(m, Head(s), n) /\ Runs(n, Tail(s), e)
<1>1. PICK q \in [1 .. Len(s) + 1 -> Place] :
        /\ q[1] = m
        /\ q[Len(s) + 1] = e
        /\ \A i \in 1 .. Len(s) : Takes(q[i], s[i], q[i + 1])
  BY DEF Runs
<1>2. /\ Len(s) \in Nat /\ Len(s) >= 1 /\ Head(s) = s[1]
      /\ Len(Tail(s)) = Len(s) - 1
      /\ \A i \in 1 .. Len(s) - 1 : Tail(s)[i] = s[i + 1]
  OBVIOUS
<1>3. Takes(m, Head(s), q[2]) /\ q[2] \in Place
  BY <1>1, <1>2
<1> DEFINE r == [i \in 1 .. Len(s) |-> q[i + 1]]
<1>4. /\ r \in [1 .. Len(Tail(s)) + 1 -> Place]
      /\ r[1] = q[2] /\ r[Len(Tail(s)) + 1] = e
  BY <1>1, <1>2
<1>5. \A i \in 1 .. Len(Tail(s)) : Takes(r[i], Tail(s)[i], r[i + 1])
  <2> SUFFICES ASSUME NEW i \in 1 .. Len(Tail(s))
               PROVE  Takes(r[i], Tail(s)[i], r[i + 1])
    OBVIOUS
  <2>1. i + 1 \in 1 .. Len(s) /\ i \in 1 .. Len(s) /\ i + 1 \in 1 .. Len(s)
    BY <1>2
  <2>2. Takes(q[i + 1], s[i + 1], q[(i + 1) + 1])
    BY <1>1, <2>1
  <2>3. r[i] = q[i + 1] /\ r[i + 1] = q[(i + 1) + 1] /\ Tail(s)[i] = s[i + 1]
    BY <1>2, <2>1
  <2> QED
    BY <2>2, <2>3
<1> HIDE DEF r
<1>6. Runs(q[2], Tail(s), e)
  BY <1>4, <1>5 DEF Runs
<1> QED
  BY <1>3, <1>6

(* What arrives of a stream that is broken off.                            *)
LEMMA RunsPrefix ==
  ASSUME NEW s \in Seq(Item), NEW m \in Place, NEW e \in Place, Runs(m, s, e),
         NEW k \in 0 .. Len(s)
  PROVE  /\ SubSeq(s, 1, k) \in Seq(Item)
         /\ \E n \in Place : Runs(m, SubSeq(s, 1, k), n)
<1>1. PICK q \in [1 .. Len(s) + 1 -> Place] :
        /\ q[1] = m
        /\ \A i \in 1 .. Len(s) : Takes(q[i], s[i], q[i + 1])
  BY DEF Runs
<1> DEFINE t == SubSeq(s, 1, k)
<1>2. Len(s) \in Nat /\ k \in Nat /\ k <= Len(s)
  BY LenProperties
<1>3. \A i \in 1 .. k : s[i] \in Item
  BY <1>2, ElementOfSeq
<1>4. t \in Seq(Item) /\ Len(t) = k /\ \A i \in 1 .. k : t[i] = s[i]
  BY <1>2, <1>3, SubSeqProperties
<1> HIDE DEF t
<1> DEFINE r == [i \in 1 .. k + 1 |-> q[i]]
<1>5. r \in [1 .. Len(t) + 1 -> Place] /\ r[1] = m /\ r[Len(t) + 1] \in Place
  BY <1>1, <1>2, <1>4, SMTT(30)
<1>6. \A i \in 1 .. Len(t) : Takes(r[i], t[i], r[i + 1])
  <2> SUFFICES ASSUME NEW i \in 1 .. k PROVE Takes(r[i], t[i], r[i + 1])
    BY <1>4
  <2>1. Takes(q[i], s[i], q[i + 1])
    BY <1>1, <1>2
  <2>2. r[i] = q[i] /\ r[i + 1] = q[i + 1] /\ t[i] = s[i]
    BY <1>2, <1>4
  <2> QED
    BY <2>1, <2>2
<1> HIDE DEF r
<1>7. Runs(m, t, r[Len(t) + 1])
  BY <1>5, <1>6 DEF Runs
<1> QED
  BY <1>4, <1>5, <1>7 DEF t

(* The client sends more.                                                  *)
LEMMA RunsConcat ==
  ASSUME NEW s \in Seq(Item), NEW t \in Seq(Item),
         NEW m \in Place, NEW n \in Place, NEW e \in Place,
         Runs(m, s, n), Runs(n, t, e)
  PROVE  s \o t \in Seq(Item) /\ Runs(m, s \o t, e)
<1>1. PICK q \in [1 .. Len(s) + 1 -> Place] :
        /\ q[1] = m
        /\ q[Len(s) + 1] = n
        /\ \A i \in 1 .. Len(s) : Takes(q[i], s[i], q[i + 1])
  BY DEF Runs
<1>2. PICK r \in [1 .. Len(t) + 1 -> Place] :
        /\ r[1] = n
        /\ r[Len(t) + 1] = e
        /\ \A i \in 1 .. Len(t) : Takes(r[i], t[i], r[i + 1])
  BY DEF Runs
<1> DEFINE a == Len(s)
           b == Len(t)
           u == s \o t
<1>3. a \in Nat /\ b \in Nat
  BY LenProperties
<1>4. /\ u \in Seq(Item) /\ Len(u) = a + b
      /\ \A i \in 1 .. a : u[i] = s[i]
      /\ \A i \in 1 .. b : u[a + i] = t[i]
  <2>1. /\ u \in Seq(Item) /\ Len(u) = a + b
        /\ \A i \in 1 .. a + b : u[i] = IF i <= a THEN s[i] ELSE t[i - a]
    BY ConcatProperties
  <2> HIDE DEF u
  <2>2. \A i \in 1 .. b : a + i \in 1 .. a + b /\ ~ (a + i <= a) /\ (a + i) - a = i
    BY <1>3
  <2>3. \A i \in 1 .. a : i \in 1 .. a + b /\ i <= a
    BY <1>3
  <2> QED
    BY <2>1, <2>2, <2>3
<1> DEFINE p == [i \in 1 .. a + b + 1 |-> IF i <= a + 1 THEN q[i] ELSE r[i - a]]
<1> HIDE DEF u
<1>5. /\ p \in [1 .. Len(u) + 1 -> Place]
      /\ p[1] = m
      /\ p[Len(u) + 1] = e
  BY <1>1, <1>2, <1>3, <1>4
<1>6. ASSUME NEW i \in 1 .. a PROVE Takes(p[i], u[i], p[i + 1])
  <2>1. Takes(q[i], s[i], q[i + 1])
    BY <1>1
  <2>2. p[i] = q[i] /\ p[i + 1] = q[i + 1] /\ u[i] = s[i]
    BY <1>3, <1>4
  <2> QED
    BY <2>1, <2>2
<1>7. ASSUME NEW i \in 1 .. b PROVE Takes(p[a + i], u[a + i], p[a + i + 1])
  <2>1. Takes(r[i], t[i], r[i + 1])
    BY <1>2
  <2>2. p[a + i] = r[i] /\ p[a + i + 1] = r[i + 1] /\ u[a + i] = t[i]
    BY <1>1, <1>2, <1>3, <1>4
  <2> QED
    BY <2>1, <2>2
<1>8. \A i \in 1 .. Len(u) : Takes(p[i], u[i], p[i + 1])
  <2> SUFFICES ASSUME NEW i \in 1 .. a + b PROVE Takes(p[i], u[i], p[i + 1])
    BY <1>4
  <2> HIDE DEF p
  <2>1. CASE i <= a
    BY <1>3, <1>6, <2>1
  <2>2. CASE i > a
    <3>1. i - a \in 1 .. b /\ a + (i - a) = i /\ a + (i - a) + 1 = i + 1
      BY <1>3, <2>2
    <3>2. Takes(p[a + (i - a)], u[a + (i - a)], p[a + (i - a) + 1])
      BY <1>7, <3>1
    <3> QED
      BY <3>1, <3>2
  <2> QED
    BY <1>3, <2>1, <2>2
<1> HIDE DEF p
<1>9. Runs(m, u, e)
  BY <1>5, <1>8 DEF Runs
<1> QED
  BY <1>4, <1>9 DEF u

Script(m, s, e) == s \in Seq(Item) /\ Runs(m, s, e)

(* One, two or three items.                                                *)
LEMMA RunsOne ==
  ASSUME NEW m \in Place, NEW x \in Item, NEW e \in Place, Takes(m, x, e)
  PROVE  Script(m, <<x>>, e)
<1> DEFINE q == [i \in 1 .. 2 |-> IF i = 1 THEN m ELSE e]
<1>1. q \in [1 .. 2 -> Place] /\ q[1] = m /\ q[2] = e
  OBVIOUS
<1> HIDE DEF q
<1>2. Len(<<x>>) = 1 /\ <<x>>[1] = x
  OBVIOUS
<1>3. Runs(m, <<x>>, e)
  BY <1>1, <1>2 DEF Runs
<1> QED
  BY <1>3 DEF Script

(* A script of two items.                                                  *)
LEMMA RunsTwo ==
  ASSUME NEW m \in Place, NEW x \in Item, NEW n \in Place, Takes(m, x, n),
         NEW y \in Item, NEW e \in Place, Takes(n, y, e)
  PROVE  Script(m, <<x, y>>, e)
<1> DEFINE q == [i \in 1 .. 3 |-> IF i = 1 THEN m ELSE IF i = 2 THEN n ELSE e]
<1>1. q \in [1 .. 3 -> Place] /\ q[1] = m /\ q[2] = n /\ q[3] = e
  OBVIOUS
<1> HIDE DEF q
<1>2. Len(<<x, y>>) = 2 /\ <<x, y>>[1] = x /\ <<x, y>>[2] = y
  OBVIOUS
<1>3. Runs(m, <<x, y>>, e)
  BY <1>1, <1>2 DEF Runs
<1> QED
  BY <1>3 DEF Script

(* A script of three items.                                                *)
LEMMA RunsThree ==
  ASSUME NEW m \in Place, NEW x \in Item, NEW n \in Place, Takes(m, x, n),
         NEW y \in Item, NEW o \in Place, Takes(n, y, o),
         NEW z \in Item, NEW e \in Place, Takes(o, z, e)
  PROVE  Script(m, <<x, y, z>>, e)
<1> DEFINE q == [i \in 1 .. 4 |-> IF i = 1 THEN m ELSE IF i = 2 THEN n
                                  ELSE IF i = 3 THEN o ELSE e]
<1>1. q \in [1 .. 4 -> Place] /\ q[1] = m /\ q[2] = n /\ q[3] = o /\ q[4] = e
  OBVIOUS
<1> HIDE DEF q
<1>2. /\ Len(<<x, y, z>>) = 3 /\ <<x, y, z>>[1] = x
      /\ <<x, y, z>>[2] = y /\ <<x, y, z>>[3] = z
  OBVIOUS
<1>3. Runs(m, <<x, y, z>>, e)
  BY <1>1, <1>2 DEF Runs
<1> QED
  BY <1>3 DEF Script

(* After an answer that is owed nothing has been sent.                     *)
LEMMA RunsOwed ==
  ASSUME NEW s \in Seq(Item), NEW m \in Owed, NEW e \in Place, Runs(m, s, e)
  PROVE  s = << >> /\ e = m
<1>1. \A x \in Item, n \in Place : ~Takes(m, x, n)
  BY DEF Owed, Takes, TakesHeader, TakesLogin, TakesRegister, TakesCommand
<1>2. m \in Place
  BY DEF Owed, Place
<1>3. CASE s # << >>
  <2>1. Head(s) \in Item
    BY <1>3, HeadTailProperties
  <2> QED
    BY <1>1, <1>2, <1>3, <2>1, RunsTail
<1>4. CASE s = << >>
  <2>1. Len(s) = 0
    BY <1>4
  <2> QED
    BY <1>2, <1>4, <2>1, RunsEmpty
<1> QED
  BY <1>3, <1>4

-----------------------------------------------------------------------------
(* Where a client believes main to be once main has read all of its        *)
(* stream, and where main is once it has answered.                         *)
End(pc) ==
  CASE pc \in {"none", "choose"} -> "fresh"
    [] pc = "name" -> "entering"
    [] pc = "passwordAgain" -> "named"
    [] pc = "password" -> "relogin"
    [] pc \in {"newName", "newPassword"} -> "registering"
    [] pc = "hashing" -> "newSecret"
    [] pc = "session" -> "inside"
    [] pc = "salt" -> "salt"
    [] pc \in {"result", "lastResult"} -> "judged"
    [] pc = "isFree" -> "exists"
    [] pc = "answer" -> "done"
    [] pc = "transferAnswer" -> "transfer"
    [] OTHER -> "granted"

After(kind) ==
  CASE kind \in {"salt", "login"} -> "named"
    [] kind = "exists" -> "registering"
    [] kind \in {"token", "done", "transfer"} -> "inside"
    [] OTHER -> "fresh"

(* The client's stream takes main from where it is to where the client     *)
(* believes it to be, or main has answered and the client has not read it. *)
Dialogue(fd) ==
  IF At(fd, "gone")
  THEN /\ reply[fd] = << >>
       /\ \E m, e \in Place : Stands(fd, m) /\ Runs(m, chan[fd], e)
  ELSE \/ /\ reply[fd] = << >>
          /\ \E m \in Place : Stands(fd, m) /\ Runs(m, chan[fd], End(client[fd].pc))
       \/ /\ Len(reply[fd]) = 1 /\ chan[fd] = << >> /\ srv.fd # fd
          /\ reply[fd][1][1] \in Awaited(fd)
          /\ Stands(fd, After(reply[fd][1][1]))

(* A descriptor no client has is unused.                                   *)
Absent(fd) == At(fd, "none") => node[fd] = None /\ srv.fd # fd /\ chan[fd] = << >>

(* A client sends its own password or a wrong one, and its own token.      *)
Meant(fd) ==
  \A i \in 1 .. Len(chan[fd]) :
    ~At(fd, "gone") =>
      /\ chan[fd][i][1] = "secret" => chan[fd][i][2] \in {client[fd].person, Wrong}
      /\ chan[fd][i][1] = "token" => At(fd, "data") /\ chan[fd][i][2] = client[fd].token

(* Who is somebody, who has a token, and what may wait for a worker.       *)
Tokens(fd) ==
  /\ client[fd].pc \notin {"none", "gone", "data"} => client[fd].person \in Person
  /\ client[fd].token # None <=>
       client[fd].pc \in {"session", "answer", "transferAnswer", "data"}
  /\ node[fd] # None => (node[fd].queued => client[fd].pc \in {"data", "gone"})
  /\ node[fd] # None => (node[fd].token => node[fd].state = 3)

(* The parts of Authenticated and OwnDirectory that are about fd.          *)
Proved(fd) ==
  node[fd] # None /\ ~At(fd, "gone") =>
    (node[fd].state = 3 => <<node[fd].UserName, client[fd].person>> \in UserInfo)

Own(fd) ==
  node[fd] # None /\ client[fd].token # None =>
    (node[fd].queued => node[fd].absPath = client[fd].token[2])

Fine(fd) == /\ Dialogue(fd) /\ Absent(fd) /\ Meant(fd) /\ Tokens(fd)
            /\ Proved(fd) /\ Own(fd)

(* The session main serves is there, and in the state of the dialogue.     *)
Serves ==
  /\ srv.fd = None <=> srv.pc = "loop"
  /\ srv.fd # None =>
       /\ node[srv.fd] # None /\ ~node[srv.fd].queued
       /\ srv.pc \in {"choice", "token"} => node[srv.fd].state = 0
       /\ srv.pc \in {"login", "name", "secret", "lastSecret"} => node[srv.fd].state = 1
       /\ srv.pc \in {"register", "newName", "newSalt", "newSecret"} =>
            node[srv.fd].state = 2
       /\ srv.pc \in {"action", "opened"} => node[srv.fd].state = 3

(* The session tok has for the token in the buffer, if it has logged in,   *)
(* is the user's the token was made for: every other entry of tok may be   *)
(* stale, this one is not.                                                 *)
Current ==
  md5 \in Token /\ tok[md5] # None /\ node[tok[md5]] # None =>
    (node[tok[md5]].token => node[tok[md5]].absPath = md5[2])

IInv == TypeOK /\ Serves /\ Current /\ \A fd \in Fd : Fine(fd)

(* What leaves a connection as it is.                                      *)
Others(fd) ==
  \A d \in Fd \ {fd} :
    /\ chan'[d] = chan[d] /\ reply'[d] = reply[d]
    /\ client'[d] = client[d] /\ node'[d] = node[d]

(* A step that touches fd alone leaves every other connection fine: the    *)
(* table of users only grows, and main turns to nobody else.               *)
LEMMA OthersFine ==
  ASSUME IInv, NEW fd \in Fd, Others(fd),
         srv' = srv \/ (srv.fd \in {fd, None} /\ srv'.fd \in {fd, None}),
         UserInfo \subseteq UserInfo'
  PROVE  \A d \in Fd \ {fd} : Fine(d)'
<1> SUFFICES ASSUME NEW d \in Fd \ {fd} PROVE Fine(d)'
  OBVIOUS
<1>1. Fine(d) /\ d # None
  BY DistinctAssumption DEF IInv
<1>2. /\ chan'[d] = chan[d] /\ reply'[d] = reply[d]
      /\ client'[d] = client[d] /\ node'[d] = node[d]
  BY DEF Others
<1>3. srv' = srv \/ (srv.fd # d /\ srv'.fd # d)
  BY <1>1
<1>4. \A m : Stands(d, m)' <=> Stands(d, m)
  BY <1>2, <1>3 DEF Stands, Named
<1>5. Dialogue(d)'
  BY <1>1, <1>2, <1>3, <1>4 DEF Fine, Dialogue, At, Awaited
<1>6. Absent(d)' /\ Meant(d)' /\ Tokens(d)' /\ Own(d)'
  BY <1>1, <1>2, <1>3 DEF Fine, Absent, Meant, Tokens, Own, At
<1>7. Proved(d)'
  BY <1>1, <1>2 DEF Fine, Proved, At
<1> QED
  BY <1>5, <1>6, <1>7 DEF Fine

(* Every bound of TypeOK on one connection's stream, answers and client.   *)
ClientState == [pc : ClientPc, person : Person \cup {None}, token : Token \cup {None}]

(* Where each place of the client leaves main.                             *)
LEMMA Ends ==
  /\ End("none") = "fresh" /\ End("choose") = "fresh"
  /\ End("name") = "entering" /\ End("newName") = "registering"
  /\ End("salt") = "salt" /\ End("password") = "relogin"
  /\ End("result") = "judged" /\ End("passwordAgain") = "named"
  /\ End("lastResult") = "judged" /\ End("isFree") = "exists"
  /\ End("newPassword") = "registering" /\ End("hashing") = "newSecret"
  /\ End("session") = "inside" /\ End("answer") = "done"
  /\ End("transferAnswer") = "transfer" /\ End("data") = "granted"
  /\ \A pc : End(pc) \in Place
BY DEF End, Place

(* Where each state of the session leaves main.                            *)
LEMMA Restings ==
  /\ Resting(0) = "fresh" /\ Resting(1) = "entering"
  /\ Resting(2) = "registering" /\ Resting(3) = "inside"
BY DEF Resting

(* When the server starts, nobody is there (main.cpp:44-72).               *)
THEOREM InitIInv == Init => IInv
<1> SUFFICES ASSUME Init PROVE IInv
  OBVIOUS
<1> USE DistinctAssumption
<1>1. TypeOK
  <2>1. << >> \in Seq(Item) /\ << >> \in Seq(Answer)
    OBVIOUS
  <2>2. NoClient \in ClientState
    BY DEF NoClient, ClientState, ClientPc
  <2>3. Idle \in [pc : {"loop"}, fd : {None}]
    BY DEF Idle
  <2>4. UserInfo \subseteq (Name \cup {None}) \X (Person \cup {None})
    BY RowsAssumption DEF Init
  <2> QED
    BY <2>1, <2>2, <2>3, <2>4 DEF Init, TypeOK, Idle, ClientState
<1>2. Serves /\ Current
  BY DEF Init, Serves, Current, Idle
<1>3. ASSUME NEW fd \in Fd PROVE Fine(fd)
  <2>1. /\ chan[fd] = << >> /\ reply[fd] = << >> /\ node[fd] = None
        /\ client[fd] = NoClient /\ srv.fd = None
    BY DEF Init, Idle
  <2>2. client[fd].pc = "none" /\ client[fd].token = None
    BY <2>1 DEF NoClient
  <2>3. PICK e \in Seq(Item) : e = << >> /\ Len(e) = 0
    BY EmptySeq
  <2>4. "fresh" \in Place /\ Stands(fd, "fresh")
    BY <2>1 DEF Place, Stands
  <2>5. Runs("fresh", chan[fd], "fresh")
    BY <2>1, <2>3, <2>4, RunsEmpty
  <2>6. Dialogue(fd)
    BY <2>1, <2>2, <2>4, <2>5, Ends DEF Dialogue, At
  <2>7. Meant(fd)
    BY <2>1, <2>3 DEF Meant
  <2>8. Absent(fd) /\ Tokens(fd) /\ Proved(fd) /\ Own(fd)
    BY <2>1, <2>2 DEF Absent, Tokens, Proved, Own
  <2> QED
    BY <2>6, <2>7, <2>8 DEF Fine
<1> QED
  BY <1>1, <1>2, <1>3 DEF IInv

-----------------------------------------------------------------------------
(* The client.  What it may say as c.                                      *)
Says(x, c) == /\ x[1] = "secret" => x[2] \in {c.person, Wrong}
              /\ x[1] = "token" => c.pc = "data" /\ x[2] = c.token

(* What is said of two streams is said of one after the other.             *)
LEMMA SaysMore ==
  ASSUME NEW s \in Seq(Item), NEW t \in Seq(Item), NEW c \in ClientState,
         \A i \in 1 .. Len(s) : Says(s[i], c),
         \A i \in 1 .. Len(t) : Says(t[i], c)
  PROVE  \A i \in 1 .. Len(s \o t) : Says((s \o t)[i], c)
<1> DEFINE u == s \o t
           a == Len(s)
           b == Len(t)
<1>1. /\ a \in Nat /\ b \in Nat /\ Len(u) = a + b
      /\ \A i \in 1 .. a + b : u[i] = IF i <= a THEN s[i] ELSE t[i - a]
  BY LenProperties, ConcatProperties
<1> HIDE DEF u
<1>2. ASSUME NEW i \in 1 .. Len(u) PROVE Says(u[i], c)
  <2>1. CASE i <= a
    <3>1. u[i] = s[i] /\ i \in 1 .. a
      BY <1>1, <2>1
    <3> QED
      BY <3>1
  <2>2. CASE ~(i <= a)
    <3>1. u[i] = t[i - a] /\ i - a \in 1 .. b
      BY <1>1, <2>2
    <3> QED
      BY <3>1
  <2> QED
    BY <2>1, <2>2
<1> QED
  BY <1>2 DEF u

(* The client has nothing left to read, sends the items and is c; its      *)
(* stream then takes main from m to where c believes it to be.             *)
Sending(fd, items, c) ==
  /\ UNCHANGED <<dataVars, srvVars, fault>> /\ threads' \subseteq Token
  /\ chan' = [chan EXCEPT ![fd] = @ \o items]
  /\ client' = [client EXCEPT ![fd] = c]
  /\ reply' \in [Fd -> Seq(Answer)] /\ reply'[fd] = << >>
  /\ \A d \in Fd \ {fd} : reply'[d] = reply[d]

Becomes(fd, c) ==
  /\ client[fd].pc \notin {"data", "gone"} /\ c.pc \notin {"none", "gone"}
  /\ c.person = client[fd].person \/ At(fd, "none")
  /\ c.pc = "data" => At(fd, "none")
  /\ c.pc # "data" => c.person \in Person
  /\ c.token # None <=> c.pc \in {"session", "answer", "transferAnswer", "data"}

(* The client sends items that take main from where its stream ended to    *)
(* where the client now believes it to be.                                 *)
LEMMA Sends ==
  ASSUME IInv, NEW fd \in Fd, NEW items \in Seq(Item), NEW c \in ClientState,
         Sending(fd, items, c), Becomes(fd, c),
         NEW m \in Place, Stands(fd, m),
         NEW n \in Place, Runs(m, chan[fd], n), Runs(n, items, End(c.pc)),
         \A i \in 1 .. Len(items) : Says(items[i], c)
  PROVE  IInv'
<1>1. TypeOK /\ Fine(fd)
  BY DEF IInv
<1>2. chan[fd] \in Seq(Item) /\ client[fd] \in ClientState
  BY <1>1 DEF TypeOK, ClientState
<1>3. chan[fd] \o items \in Seq(Item) /\ Runs(m, chan[fd] \o items, End(c.pc))
  BY <1>2, RunsConcat, Ends
<1>4. /\ chan'[fd] = chan[fd] \o items /\ client'[fd] = c
      /\ node'[fd] = node[fd] /\ srv' = srv /\ reply'[fd] = << >> /\ Others(fd)
  BY <1>1 DEF Sending, TypeOK, srvVars, Others
<1>5. TypeOK'
  <2>1. chan' \in [Fd -> Seq(Item)] /\ client' \in [Fd -> ClientState]
    BY <1>1, <1>3 DEF Sending, TypeOK, ClientState
  <2> QED
    BY <1>1, <2>1 DEF Sending, TypeOK, dataVars, srvVars, ClientState
<1>6. Serves' /\ Current'
  BY DEF Sending, IInv, Serves, Current, dataVars, srvVars
<1>7. Stands(fd, m)'
  BY <1>4 DEF Stands, Named
<1>8. Dialogue(fd)'
  BY <1>3, <1>4, <1>7 DEF Dialogue, At, Becomes
<1>9. Absent(fd)'
  BY <1>4 DEF Absent, At, Becomes
<1>10. Meant(fd)'
  <2>1. \A i \in 1 .. Len(chan[fd]) : Says(chan[fd][i], c)
    <3> SUFFICES ASSUME NEW i \in 1 .. Len(chan[fd]) PROVE Says(chan[fd][i], c)
      OBVIOUS
    <3>1. chan[fd] # << >>
      <4>1. Len(chan[fd]) # 0
        OBVIOUS
      <4> QED
        BY <1>2, <4>1, Void
    <3>2. ~At(fd, "none") /\ ~At(fd, "gone") /\ ~At(fd, "data")
      BY <1>1, <3>1 DEF Fine, Absent, At, Becomes
    <3>3. /\ chan[fd][i][1] = "secret" => chan[fd][i][2] \in {client[fd].person, Wrong}
          /\ chan[fd][i][1] # "token"
      BY <1>1, <3>2 DEF Fine, Meant
    <3>4. c.person = client[fd].person
      BY <3>2 DEF Becomes
    <3> QED
      BY <3>3, <3>4 DEF Says
  <2>2. \A i \in 1 .. Len(chan[fd] \o items) : Says((chan[fd] \o items)[i], c)
    BY <1>2, <2>1, SaysMore
  <2> QED
    BY <1>4, <2>2 DEF Meant, Says, At
<1>11. Tokens(fd)' /\ Proved(fd)' /\ Own(fd)'
  <2>1. node[fd] # None => ~At(fd, "none") /\ ~node[fd].queued
    BY <1>1 DEF Fine, Absent, Tokens, At, Becomes
  <2>2. UserInfo' = UserInfo
    BY DEF Sending, dataVars
  <2>3. Proved(fd)'
    BY <1>1, <1>4, <2>1, <2>2 DEF Fine, Proved, At, Becomes
  <2>4. Tokens(fd)' /\ Own(fd)'
    BY <1>1, <1>4, <2>1 DEF Fine, Tokens, Own, Becomes
  <2> QED
    BY <2>3, <2>4
<1>12. Fine(fd)'
  BY <1>8, <1>9, <1>10, <1>11 DEF Fine
<1>13. \A d \in Fd \ {fd} : Fine(d)'
  <2>1. UserInfo \subseteq UserInfo'
    BY DEF Sending, dataVars
  <2> QED
    BY <1>4, <2>1, OthersFine
<1> QED
  BY <1>5, <1>6, <1>12, <1>13 DEF IInv

(* It says something without waiting for an answer.                        *)
LEMMA Speaks ==
  ASSUME IInv, NEW fd \in Fd, NEW items \in Seq(Item), NEW pc \in ClientPc,
         Say(fd, items, pc), Awaited(fd) = {},
         client[fd].pc \notin {"none", "gone"}, pc \notin {"none", "gone", "data"},
         Runs(End(client[fd].pc), items, End(pc)),
         pc \in {"session", "answer", "transferAnswer"} <=> At(fd, "session"),
         \A i \in 1 .. Len(items) :
           /\ items[i][1] = "secret" => items[i][2] \in {client[fd].person, Wrong}
           /\ items[i][1] # "token"
  PROVE  IInv'
<1>1. TypeOK /\ Fine(fd) /\ client[fd] \in ClientState
  BY DEF IInv, TypeOK, ClientState
<1>2. PICK c \in ClientState : c = [client[fd] EXCEPT !.pc = pc]
  BY <1>1 DEF ClientState
<1>3. /\ c.pc = pc /\ c.person = client[fd].person /\ c.token = client[fd].token
      /\ client' = [client EXCEPT ![fd] = c]
  BY <1>1, <1>2 DEF Say, ClientState
<1>4. PICK m \in Place :
        reply[fd] = << >> /\ Stands(fd, m) /\ Runs(m, chan[fd], End(client[fd].pc))
  BY <1>1 DEF Fine, Dialogue, At
<1>5. ~At(fd, "answer") /\ ~At(fd, "transferAnswer") /\ ~At(fd, "data")
  BY DEF Awaited, At
<1>6. /\ client[fd].token # None <=> pc \in {"session", "answer", "transferAnswer"}
      /\ client[fd].person \in Person
  BY <1>1, <1>5 DEF Fine, Tokens, At
<1>7. \A i \in 1 .. Len(items) : Says(items[i], c)
  BY <1>3 DEF Says
<1>8. Sending(fd, items, c)
  BY <1>1, <1>3, <1>4 DEF Say, TypeOK, Sending
<1>9. Becomes(fd, c)
  BY <1>3, <1>5, <1>6 DEF Becomes, At
<1>10. End(client[fd].pc) \in Place
  BY Ends
<1>11. Runs(End(client[fd].pc), items, End(c.pc))
  BY <1>3
<1> QED
  BY <1>4, <1>7, <1>8, <1>9, <1>10, <1>11, Sends

(* It reads the answer it waits for and sends the items.                   *)
LEMMA Hears ==
  ASSUME IInv, NEW fd \in Fd, NEW items \in Seq(Item), NEW c \in ClientState,
         Hear(fd, items, c), threads' \subseteq Token, reply[fd] # << >>,
         client[fd].pc \notin {"none", "gone", "data"},
         c.pc \notin {"none", "gone", "data"},
         c.person = client[fd].person,
         c.token # None <=> c.pc \in {"session", "answer", "transferAnswer"},
         Runs(After(Head(reply[fd])[1]), items, End(c.pc)),
         \A i \in 1 .. Len(items) : items[i][1] \notin {"secret", "token"}
  PROVE  IInv'
<1>1. TypeOK /\ Fine(fd) /\ reply[fd] \in Seq(Answer) /\ chan[fd] \in Seq(Item)
  BY DEF IInv, TypeOK
<1>2. /\ Len(reply[fd]) = 1 /\ chan[fd] = << >>
      /\ Stands(fd, After(reply[fd][1][1]))
  BY <1>1 DEF Fine, Dialogue, At
<1>3. Head(reply[fd]) = reply[fd][1] /\ Tail(reply[fd]) = << >>
  BY <1>1, <1>2, Single
<1> DEFINE m == After(Head(reply[fd])[1])
<1>4. m \in Place /\ Stands(fd, m)
  BY <1>2, <1>3 DEF After, Place
<1>5. Runs(m, items, End(c.pc))
  OBVIOUS
<1> HIDE DEF m
<1>6. Runs(m, chan[fd], m)
  <2>1. Len(chan[fd]) = 0
    BY <1>1, <1>2, Void
  <2> QED
    BY <1>1, <1>4, <2>1, RunsEmpty
<1>7. Sending(fd, items, c)
  <2>1. << >> \in Seq(Answer)
    BY EmptySeq
  <2> QED
    BY <1>1, <1>3, <2>1 DEF Hear, Sending, TypeOK
<1>8. Becomes(fd, c)
  BY <1>1 DEF Becomes, Fine, Tokens
<1>9. \A i \in 1 .. Len(items) : Says(items[i], c)
  BY DEF Says
<1> QED
  BY <1>4, <1>5, <1>6, <1>7, <1>8, <1>9, Sends

(* What the client sends, from where to where it takes main.               *)
LEMMA Items ==
  /\ <<"header", 1>> \in Item /\ <<"header", 2>> \in Item
  /\ <<"choice", "login">> \in Item /\ <<"choice", "register">> \in Item
  /\ <<"step", 1>> \in Item /\ <<"step", 2>> \in Item /\ <<"step", 3>> \in Item
  /\ <<"salt", "salt">> \in Item
  /\ <<"opened", TRUE>> \in Item /\ <<"opened", FALSE>> \in Item
  /\ \A c \in AllCommands : <<"command", c>> \in Item
  /\ \A n \in Name : <<"name", n>> \in Item
  /\ \A s \in Person \cup {Wrong} : <<"secret", s>> \in Item
  /\ \A t \in Token : <<"token", t>> \in Item
BY DEF Item

(* The places, one by one: none of the proofs below need expand Place.     *)
LEMMA Places ==
  /\ "fresh" \in Place /\ "entering" \in Place /\ "named" \in Place
  /\ "registering" \in Place /\ "inside" \in Place /\ "choice" \in Place
  /\ "login" \in Place /\ "relogin" \in Place /\ "register" \in Place
  /\ "action" \in Place /\ "token" \in Place /\ "name" \in Place
  /\ "secret" \in Place /\ "lastSecret" \in Place /\ "newName" \in Place
  /\ "newSalt" \in Place /\ "newSecret" \in Place /\ "opened" \in Place
  /\ "salt" \in Place /\ "judged" \in Place /\ "exists" \in Place
  /\ "done" \in Place /\ "transfer" \in Place /\ "granted" \in Place
BY DEF Place

(* What a client that chooses sends (client.cpp:53-55).                    *)
LEMMA ChoiceRuns ==
  /\ Script("fresh", <<<<"header", 1>>, <<"choice", "login">>>>, "entering")
  /\ Script("fresh", <<<<"header", 1>>, <<"choice", "register">>>>, "registering")
  /\ \A t \in Token : Script("fresh", <<<<"header", 2>>, <<"token", t>>>>, "granted")
<1> DEFINE h == <<"header", 1>>
           d == <<"header", 2>>
           l == <<"choice", "login">>
           r == <<"choice", "register">>
<1>1. /\ Takes("fresh", h, "choice") /\ Takes("fresh", d, "token")
      /\ Takes("choice", l, "entering") /\ Takes("choice", r, "registering")
      /\ \A t \in Token : Takes("token", <<"token", t>>, "granted")
  BY DEF Takes, TakesHeader
<1>2. h \in Item /\ d \in Item /\ l \in Item /\ r \in Item
  BY Items
<1> HIDE DEF h, d, l, r
<1>3. Script("fresh", <<h, l>>, "entering") /\ Script("fresh", <<h, r>>, "registering")
  BY <1>1, <1>2, Places, RunsTwo
<1>4. ASSUME NEW t \in Token PROVE Script("fresh", <<d, <<"token", t>>>>, "granted")
  <2>1. PICK x \in Item : x = <<"token", t>>
    BY Items
  <2>2. Takes("token", x, "granted")
    BY <1>1, <2>1
  <2>3. Script("fresh", <<d, x>>, "granted")
    BY <1>1, <1>2, <2>2, Places, RunsTwo
  <2> QED
    BY <2>1, <2>3
<1> QED
  BY <1>3, <1>4 DEF h, d, l, r

(* What a login sends, step by step (client.cpp:62-101).                   *)
LEMMA LoginRuns ==
  /\ \A n \in Name :
       Script("entering", <<<<"header", 1>>, <<"step", 1>>, <<"name", n>>>>, "salt")
  /\ Script("named", <<<<"header", 1>>>>, "relogin")
  /\ \A s \in Person \cup {Wrong} :
       /\ Script("relogin", <<<<"step", 2>>, <<"secret", s>>>>, "judged")
       /\ Script("named", <<<<"header", 1>>, <<"step", 3>>, <<"secret", s>>>>, "judged")
<1> DEFINE h == <<"header", 1>>
           one == <<"step", 1>>
           two == <<"step", 2>>
           three == <<"step", 3>>
<1>1. /\ Takes("entering", h, "login") /\ Takes("named", h, "relogin")
      /\ Takes("login", one, "name") /\ Takes("relogin", two, "secret")
      /\ Takes("relogin", three, "lastSecret")
      /\ \A n \in Name : Takes("name", <<"name", n>>, "salt")
      /\ \A s : Takes("secret", <<"secret", s>>, "judged")
      /\ \A s : Takes("lastSecret", <<"secret", s>>, "judged")
  BY DEF Takes, TakesHeader, TakesLogin
<1>2. h \in Item /\ one \in Item /\ two \in Item /\ three \in Item
  BY Items
<1> HIDE DEF h, one, two, three
<1>3. Script("named", <<h>>, "relogin")
  BY <1>1, <1>2, Places, RunsOne
<1>4. ASSUME NEW n \in Name PROVE Script("entering", <<h, one, <<"name", n>>>>, "salt")
  <2>1. PICK x \in Item : x = <<"name", n>>
    BY Items
  <2>2. Takes("name", x, "salt")
    BY <1>1, <2>1
  <2>3. Script("entering", <<h, one, x>>, "salt")
    BY <1>1, <1>2, <2>2, Places, RunsThree
  <2> QED
    BY <2>1, <2>3
<1>5. ASSUME NEW s \in Person \cup {Wrong}
      PROVE  /\ Script("relogin", <<two, <<"secret", s>>>>, "judged")
             /\ Script("named", <<h, three, <<"secret", s>>>>, "judged")
  <2>1. PICK x \in Item : x = <<"secret", s>>
    BY Items
  <2>2. Takes("secret", x, "judged") /\ Takes("lastSecret", x, "judged")
    BY <1>1, <2>1
  <2>3. Script("relogin", <<two, x>>, "judged")
    BY <1>1, <1>2, <2>2, Places, RunsTwo
  <2>4. Script("named", <<h, three, x>>, "judged")
    BY <1>1, <1>2, <2>2, Places, RunsThree
  <2> QED
    BY <2>1, <2>3, <2>4
<1> QED
  BY <1>3, <1>4, <1>5 DEF h, one, two, three

(* What a registration sends, step by step (client.cpp:122-163).           *)
LEMMA RegisterRuns ==
  /\ \A n \in Name :
       Script("registering", <<<<"header", 1>>, <<"step", 1>>, <<"name", n>>>>, "exists")
  /\ Script("registering", <<<<"header", 1>>, <<"step", 2>>, <<"salt", "salt">>>>,
          "newSecret")
  /\ \A p \in Person : Script("newSecret", <<<<"secret", p>>>>, "fresh")
<1> DEFINE h == <<"header", 1>>
           one == <<"step", 1>>
           two == <<"step", 2>>
           salt == <<"salt", "salt">>
<1>1. /\ Takes("registering", h, "register") /\ Takes("register", one, "newName")
      /\ Takes("register", two, "newSalt") /\ Takes("newSalt", salt, "newSecret")
      /\ \A n \in Name : Takes("newName", <<"name", n>>, "exists")
      /\ \A p : Takes("newSecret", <<"secret", p>>, "fresh")
  BY DEF Takes, TakesHeader, TakesRegister
<1>2. h \in Item /\ one \in Item /\ two \in Item /\ salt \in Item
  BY Items
<1> HIDE DEF h, one, two, salt
<1>3. Script("registering", <<h, two, salt>>, "newSecret")
  BY <1>1, <1>2, Places, RunsThree
<1>4. ASSUME NEW n \in Name PROVE Script("registering", <<h, one, <<"name", n>>>>, "exists")
  <2>1. PICK x \in Item : x = <<"name", n>>
    BY Items
  <2>2. Takes("newName", x, "exists")
    BY <1>1, <2>1
  <2>3. Script("registering", <<h, one, x>>, "exists")
    BY <1>1, <1>2, <2>2, Places, RunsThree
  <2> QED
    BY <2>1, <2>3
<1>5. ASSUME NEW p \in Person PROVE Script("newSecret", <<<<"secret", p>>>>, "fresh")
  <2>1. PICK x \in Item : x = <<"secret", p>>
    BY Items
  <2>2. Takes("newSecret", x, "fresh")
    BY <1>1, <2>1
  <2>3. Script("newSecret", <<x>>, "fresh")
    BY <2>2, Places, RunsOne
  <2> QED
    BY <2>1, <2>3
<1> QED
  BY <1>3, <1>4, <1>5 DEF h, one, two, salt

(* What a command sends (client.cpp:177-242).                              *)
LEMMA CommandRuns ==
  /\ \A c \in {"remove", "other"} :
       Script("inside", <<<<"header", 1>>, <<"command", c>>>>, "done")
  /\ Script("inside", <<<<"header", 1>>, <<"command", "gets">>>>, "transfer")
  /\ Script("inside", <<<<"header", 1>>, <<"command", "unknown">>>>, "inside")
  /\ Script("inside", <<<<"header", 1>>, <<"command", "puts">>, <<"opened", TRUE>>>>,
          "transfer")
  /\ Script("inside", <<<<"header", 1>>, <<"command", "puts">>, <<"opened", FALSE>>>>,
          "inside")
<1> DEFINE h == <<"header", 1>>
           gets == <<"command", "gets">>
           unknown == <<"command", "unknown">>
           puts == <<"command", "puts">>
           yes == <<"opened", TRUE>>
           no == <<"opened", FALSE>>
<1>1. /\ Takes("inside", h, "action")
      /\ \A c \in {"remove", "other"} : Takes("action", <<"command", c>>, "done")
      /\ Takes("action", gets, "transfer") /\ Takes("action", unknown, "inside")
      /\ Takes("action", puts, "opened")
      /\ Takes("opened", yes, "transfer") /\ Takes("opened", no, "inside")
  BY DEF Takes, TakesHeader, TakesCommand
<1>2. /\ h \in Item /\ gets \in Item /\ unknown \in Item /\ puts \in Item
      /\ yes \in Item /\ no \in Item
  BY Items DEF AllCommands
<1> HIDE DEF h, gets, unknown, puts, yes, no
<1>3. ASSUME NEW c \in {"remove", "other"}
      PROVE  Script("inside", <<h, <<"command", c>>>>, "done")
  <2>1. PICK x \in Item : x = <<"command", c>>
    BY Items DEF AllCommands
  <2>2. Takes("action", x, "done")
    BY <1>1, <2>1
  <2>3. Script("inside", <<h, x>>, "done")
    BY <1>1, <1>2, <2>2, Places, RunsTwo
  <2> QED
    BY <2>1, <2>3
<1>4. /\ Script("inside", <<h, gets>>, "transfer")
      /\ Script("inside", <<h, unknown>>, "inside")
  BY <1>1, <1>2, Places, RunsTwo
<1>5. Script("inside", <<h, puts, yes>>, "transfer")
  BY <1>1, <1>2, Places, RunsThree
<1>6. Script("inside", <<h, puts, no>>, "inside")
  BY <1>1, <1>2, Places, RunsThree
<1> QED
  BY <1>3, <1>4, <1>5, <1>6 DEF h, gets, unknown, puts, yes, no

-----------------------------------------------------------------------------
(* The client's actions.                                                   *)
LEMMA ConnectIInv ==
  ASSUME IInv, NEW fd \in Fd, NEW p \in Person, Connect(fd, p)
  PROVE  IInv'
<1>1. TypeOK /\ Fine(fd) /\ chan[fd] \in Seq(Item)
  BY DEF IInv, TypeOK
<1>2. At(fd, "none") /\ chan[fd] = << >> /\ Awaited(fd) = {}
  BY <1>1 DEF Connect, Fine, Absent, At, Awaited
<1>3. PICK c \in ClientState : c = [pc |-> "choose", person |-> p, token |-> None]
  BY DEF ClientState, ClientPc
<1>4. PICK m \in Place : reply[fd] = << >> /\ Stands(fd, m) /\ Runs(m, chan[fd], "fresh")
  BY <1>1, <1>2, Ends DEF Fine, Dialogue, At
<1>5. PICK items \in Seq(Item) : items = << >> /\ Len(items) = 0
  BY EmptySeq
<1>6. Runs("fresh", items, End(c.pc))
  <2>1. End(c.pc) = "fresh"
    BY <1>3, Ends
  <2> QED
    BY <1>5, <2>1, Places, RunsEmpty, ZenonT(60)
<1>7. Sending(fd, items, c)
  <2>1. chan[fd] \o items = chan[fd]
    BY <1>1, <1>5, ConcatEmptySeq
  <2>2. chan' = [chan EXCEPT ![fd] = @ \o items]
    BY <1>1, <2>1 DEF Connect, TypeOK
  <2> QED
    BY <1>1, <1>3, <1>4, <2>2 DEF Connect, Sending, TypeOK
<1>8. Becomes(fd, c)
  BY <1>2, <1>3 DEF Becomes, At
<1>9. \A i \in 1 .. Len(items) : Says(items[i], c)
  BY <1>5
<1> QED
  BY <1>4, <1>6, <1>7, <1>8, <1>9, Places, Sends

(* Choose keeps the invariant: login or register (client.cpp:43-55).       *)
LEMMA ChooseIInv ==
  ASSUME IInv, NEW fd \in Fd, Choose(fd)
  PROVE  IInv'
<1>1. client[fd].pc = "choose" /\ Awaited(fd) = {}
  BY DEF Choose, Awaited, At
<1>2. "name" \in ClientPc /\ "newName" \in ClientPc
  BY DEF ClientPc
<1>3. CASE Say(fd, <<<<"header", 1>>, <<"choice", "login">>>>, "name")
  <2> DEFINE s == <<<<"header", 1>>, <<"choice", "login">>>>
  <2>1. /\ s \in Seq(Item) /\ Runs(End(client[fd].pc), s, End("name"))
        /\ Say(fd, s, "name")
    BY <1>1, <1>3, Ends, ChoiceRuns DEF Script
  <2>2. \A i \in 1 .. Len(s) : s[i][1] \notin {"secret", "token"}
    OBVIOUS
  <2> HIDE DEF s
  <2> QED
    BY <1>1, <1>2, <2>1, <2>2, Speaks DEF At
<1>4. CASE Say(fd, <<<<"header", 1>>, <<"choice", "register">>>>, "newName")
  <2> DEFINE s == <<<<"header", 1>>, <<"choice", "register">>>>
  <2>1. /\ s \in Seq(Item) /\ Runs(End(client[fd].pc), s, End("newName"))
        /\ Say(fd, s, "newName")
    BY <1>1, <1>4, Ends, ChoiceRuns DEF Script
  <2>2. \A i \in 1 .. Len(s) : s[i][1] \notin {"secret", "token"}
    OBVIOUS
  <2> HIDE DEF s
  <2> QED
    BY <1>1, <1>2, <2>1, <2>2, Speaks DEF At
<1> QED
  BY <1>3, <1>4 DEF Choose

(* SendName keeps it: the name, of a login or of a registration            *)
(* (client.cpp:56-68).                                                     *)
LEMMA SendNameIInv ==
  ASSUME IInv, NEW fd \in Fd, SendName(fd)
  PROVE  IInv'
<1>0. PICK n \in Name :
      LET named == <<<<"header", 1>>, <<"step", 1>>, <<"name", n>>>> IN
      \/ At(fd, "name") /\ Say(fd, named, "salt")
      \/ At(fd, "newName") /\ Say(fd, named, "isFree")
  BY DEF SendName
<1> DEFINE s == <<<<"header", 1>>, <<"step", 1>>, <<"name", n>>>>
<1>1. s \in Seq(Item) /\ Runs("entering", s, "salt") /\ Runs("registering", s, "exists")
  BY LoginRuns, RegisterRuns DEF Script
<1>2. \A i \in 1 .. Len(s) : s[i][1] \notin {"secret", "token"}
  <2>1. Len(s) = 3 /\ s[1][1] = "header" /\ s[2][1] = "step" /\ s[3][1] = "name"
    OBVIOUS
  <2> HIDE DEF s
  <2> QED
    BY <2>1
<1>3. \/ At(fd, "name") /\ Say(fd, s, "salt")
      \/ At(fd, "newName") /\ Say(fd, s, "isFree")
  BY <1>0
<1> HIDE DEF s
<1>4. "salt" \in ClientPc /\ "isFree" \in ClientPc /\ Awaited(fd) = {}
  BY <1>3 DEF ClientPc, Awaited, At
<1>5. CASE At(fd, "name") /\ Say(fd, s, "salt")
  BY <1>1, <1>2, <1>4, <1>5, Ends, Speaks DEF At
<1>6. CASE At(fd, "newName") /\ Say(fd, s, "isFree")
  BY <1>1, <1>2, <1>4, <1>6, Ends, Speaks DEF At
<1> QED
  BY <1>3, <1>5, <1>6

(* It reads an answer and goes on at pc.                                   *)
LEMMA HearsOn ==
  ASSUME IInv, NEW fd \in Fd, NEW items \in Seq(Item), NEW pc \in ClientPc,
         NEW kind, NEW v, Told(fd, kind, v), Hear(fd, items, To(fd, pc)),
         threads' \subseteq Token,
         client[fd].pc \notin {"none", "gone", "data"}, pc \notin {"none", "gone", "data"},
         pc \in {"session", "answer", "transferAnswer"} <=>
           client[fd].pc \in {"session", "answer", "transferAnswer"},
         Runs(After(kind), items, End(pc)),
         \A i \in 1 .. Len(items) : items[i][1] \notin {"secret", "token"}
  PROVE  IInv'
<1>1. TypeOK /\ Fine(fd) /\ client[fd] \in ClientState
  BY DEF IInv, TypeOK, ClientState
<1>2. PICK c \in ClientState : c = To(fd, pc)
  BY <1>1 DEF ClientState, To
<1>3. /\ c.pc = pc /\ c.person = client[fd].person /\ c.token = client[fd].token
      /\ Hear(fd, items, c)
  BY <1>1, <1>2 DEF ClientState, To
<1>4. c.token # None <=> pc \in {"session", "answer", "transferAnswer"}
  BY <1>1, <1>3 DEF Fine, Tokens
<1>5. reply[fd] # << >> /\ Head(reply[fd])[1] = kind
  <2>1. reply[fd] # << >> /\ Head(reply[fd]) = <<kind, v>>
    BY DEF Told
  <2>2. <<kind, v>>[1] = kind
    OBVIOUS
  <2> QED
    BY <2>1, <2>2
<1>6. Runs(After(Head(reply[fd])[1]), items, End(c.pc))
  BY <1>3, <1>5
<1>7. /\ c.pc \notin {"none", "gone", "data"}
      /\ c.token # None <=> c.pc \in {"session", "answer", "transferAnswer"}
  BY <1>3, <1>4
<1>8. Hear(fd, items, c) /\ c.person = client[fd].person
  BY <1>3
<1> QED
  BY <1>5, <1>6, <1>7, <1>8, Hears

(* GetSalt keeps it: the header goes out ahead (client.cpp:69-75).         *)
LEMMA GetSaltIInv ==
  ASSUME IInv, NEW fd \in Fd, GetSalt(fd)
  PROVE  IInv'
<1> DEFINE s == <<<<"header", 1>>>>
<1>1. s \in Seq(Item) /\ Runs("named", s, "relogin")
  BY LoginRuns DEF Script
<1>2. \A i \in 1 .. Len(s) : s[i][1] \notin {"secret", "token"}
  OBVIOUS
<1>3. At(fd, "salt") /\ Told(fd, "salt", "salt") /\ Hear(fd, s, To(fd, "password"))
  BY DEF GetSalt
<1> HIDE DEF s
<1>4. Runs(After("salt"), s, End("password"))
  BY <1>1, Ends DEF After
<1>5. threads' \subseteq Token /\ "password" \in ClientPc
  BY DEF GetSalt, IInv, TypeOK, ClientPc
<1> QED
  BY <1>1, <1>2, <1>3, <1>4, <1>5, HearsOn DEF At

(* SendPassword keeps it: the first try and the last (client.cpp:76-101).  *)
LEMMA SendPasswordIInv ==
  ASSUME IInv, NEW fd \in Fd, SendPassword(fd)
  PROVE  IInv'
<1>1. PICK secret \in {client[fd].person, Wrong} :
        \/ /\ At(fd, "password")
           /\ Say(fd, <<<<"step", 2>>, <<"secret", secret>>>>, "result")
        \/ /\ At(fd, "passwordAgain")
           /\ Say(fd, <<<<"header", 1>>, <<"step", 3>>, <<"secret", secret>>>>,
                  "lastResult")
  BY DEF SendPassword
<1>2. secret \in Person \cup {Wrong}
  BY <1>1 DEF IInv, Fine, Tokens, At
<1>3. "result" \in ClientPc /\ "lastResult" \in ClientPc
  BY DEF ClientPc
<1>4. CASE /\ At(fd, "password")
           /\ Say(fd, <<<<"step", 2>>, <<"secret", secret>>>>, "result")
  <2> DEFINE s == <<<<"step", 2>>, <<"secret", secret>>>>
  <2>1. s \in Seq(Item) /\ Runs("relogin", s, "judged") /\ Say(fd, s, "result")
    BY <1>2, <1>4, LoginRuns DEF Script
  <2>2. Len(s) = 2 /\ s[1][1] = "step" /\ s[2][1] = "secret" /\ s[2][2] = secret
    OBVIOUS
  <2> HIDE DEF s
  <2>3. \A i \in 1 .. Len(s) :
          /\ s[i][1] = "secret" => s[i][2] \in {client[fd].person, Wrong}
          /\ s[i][1] # "token"
    BY <2>2
  <2>4. Awaited(fd) = {} /\ ~At(fd, "session")
    BY <1>4 DEF Awaited, At
  <2> QED
    BY <1>3, <1>4, <2>1, <2>3, <2>4, Ends, Speaks DEF At
<1>5. CASE /\ At(fd, "passwordAgain")
           /\ Say(fd, <<<<"header", 1>>, <<"step", 3>>, <<"secret", secret>>>>,
                  "lastResult")
  <2> DEFINE s == <<<<"header", 1>>, <<"step", 3>>, <<"secret", secret>>>>
  <2>1. s \in Seq(Item) /\ Runs("named", s, "judged") /\ Say(fd, s, "lastResult")
    BY <1>2, <1>5, LoginRuns DEF Script
  <2>2. /\ Len(s) = 3 /\ s[1][1] = "header" /\ s[2][1] = "step"
        /\ s[3][1] = "secret" /\ s[3][2] = secret
    OBVIOUS
  <2> HIDE DEF s
  <2>3. \A i \in 1 .. Len(s) :
          /\ s[i][1] = "secret" => s[i][2] \in {client[fd].person, Wrong}
          /\ s[i][1] # "token"
    BY <2>2
  <2>4. Awaited(fd) = {} /\ ~At(fd, "session")
    BY <1>5 DEF Awaited, At
  <2> QED
    BY <1>3, <1>5, <2>1, <2>3, <2>4, Ends, Speaks DEF At
<1> QED
  BY <1>1, <1>4, <1>5

(* GetNameAnswer keeps it: the name is free or not (client.cpp:134-146).   *)
LEMMA GetNameAnswerIInv ==
  ASSUME IInv, NEW fd \in Fd, GetNameAnswer(fd)
  PROVE  IInv'
<1>1. PICK s \in Seq(Item) : s = << >> /\ Len(s) = 0
  BY EmptySeq
<1>2. Runs(After("exists"), s, End("newName")) /\ Runs(After("exists"), s, End("newPassword"))
  <2>1. /\ After("exists") = "registering"
        /\ End("newName") = "registering" /\ End("newPassword") = "registering"
    BY Ends DEF After
  <2> QED
    BY <1>1, <2>1, Places, RunsEmpty, ZenonT(60)
<1>3. /\ threads' \subseteq Token /\ "newName" \in ClientPc /\ "newPassword" \in ClientPc
      /\ client[fd].pc = "isFree"
  BY DEF GetNameAnswer, IInv, TypeOK, ClientPc, At
<1>4. \A i \in 1 .. Len(s) : s[i][1] \notin {"secret", "token"}
  BY <1>1
<1>5. CASE Told(fd, "exists", TRUE) /\ Hear(fd, << >>, To(fd, "newName"))
  BY <1>1, <1>2, <1>3, <1>4, <1>5, HearsOn
<1>6. CASE Told(fd, "exists", FALSE) /\ Hear(fd, << >>, To(fd, "newPassword"))
  BY <1>1, <1>2, <1>3, <1>4, <1>6, HearsOn
<1> QED
  BY <1>5, <1>6 DEF GetNameAnswer

(* SendNewPassword keeps it: the salt, then the hash (client.cpp:148-163). *)
LEMMA SendNewPasswordIInv ==
  ASSUME IInv, NEW fd \in Fd, SendNewPassword(fd)
  PROVE  IInv'
<1>1. CASE /\ At(fd, "newPassword")
           /\ Say(fd, <<<<"header", 1>>, <<"step", 2>>, <<"salt", "salt">>>>, "hashing")
  <2> DEFINE s == <<<<"header", 1>>, <<"step", 2>>, <<"salt", "salt">>>>
  <2>1. s \in Seq(Item) /\ Runs("registering", s, "newSecret") /\ Say(fd, s, "hashing")
    BY <1>1, RegisterRuns DEF Script
  <2>2. Len(s) = 3 /\ s[1][1] = "header" /\ s[2][1] = "step" /\ s[3][1] = "salt"
    OBVIOUS
  <2> HIDE DEF s
  <2>3. \A i \in 1 .. Len(s) : s[i][1] \notin {"secret", "token"}
    BY <2>2
  <2>4. Awaited(fd) = {} /\ ~At(fd, "session") /\ "hashing" \in ClientPc
    BY <1>1 DEF Awaited, At, ClientPc
  <2> QED
    BY <1>1, <2>1, <2>3, <2>4, Ends, Speaks DEF At
<1>2. CASE At(fd, "hashing") /\ Say(fd, <<<<"secret", client[fd].person>>>>, "choose")
  <2> DEFINE p == client[fd].person
             s == <<<<"secret", p>>>>
  <2>1. p \in Person
    BY <1>2 DEF IInv, Fine, Tokens, At
  <2>2. s \in Seq(Item) /\ Runs("newSecret", s, "fresh") /\ Say(fd, s, "choose")
    BY <1>2, <2>1, RegisterRuns DEF Script
  <2>3. Len(s) = 1 /\ s[1][1] = "secret" /\ s[1][2] = p
    OBVIOUS
  <2> HIDE DEF s
  <2>4. \A i \in 1 .. Len(s) :
          /\ s[i][1] = "secret" => s[i][2] \in {client[fd].person, Wrong}
          /\ s[i][1] # "token"
    BY <2>3
  <2>5. Awaited(fd) = {} /\ ~At(fd, "session") /\ "choose" \in ClientPc
    BY <1>2 DEF Awaited, At, ClientPc
  <2> QED
    BY <1>2, <2>2, <2>4, <2>5, Ends, Speaks DEF At
<1> QED
  BY <1>1, <1>2 DEF SendNewPassword

(* It goes, and only some of its stream may arrive.                        *)
Leaving(fd, c, s) ==
  /\ UNCHANGED <<dataVars, srvVars, threads, fault>>
  /\ client' = [client EXCEPT ![fd] = c]
  /\ chan' = [chan EXCEPT ![fd] = s]
  /\ reply' = [reply EXCEPT ![fd] = << >>]

(* A client that goes leaves a prefix of its stream, which takes main      *)
(* somewhere.                                                              *)
LEMMA Leaves ==
  ASSUME IInv, NEW fd \in Fd, NEW c \in ClientState, NEW s \in Seq(Item),
         Leaving(fd, c, s), client[fd].pc # "none", c.pc = "gone", c.token = None,
         NEW m \in Place, NEW e \in Place, Stands(fd, m), Runs(m, s, e)
  PROVE  IInv'
<1>1. TypeOK /\ Fine(fd)
  BY DEF IInv
<1>2. /\ chan'[fd] = s /\ client'[fd] = c
      /\ node'[fd] = node[fd] /\ srv' = srv /\ reply'[fd] = << >> /\ Others(fd)
  BY <1>1 DEF Leaving, TypeOK, srvVars, Others
<1>3. TypeOK'
  <2>1. << >> \in Seq(Answer)
    BY EmptySeq
  <2>2. /\ chan' \in [Fd -> Seq(Item)] /\ client' \in [Fd -> ClientState]
        /\ reply' \in [Fd -> Seq(Answer)]
    BY <1>1, <2>1 DEF Leaving, TypeOK, ClientState
  <2> QED
    BY <1>1, <2>2 DEF Leaving, TypeOK, dataVars, srvVars, ClientState
<1>4. Serves' /\ Current'
  BY DEF Leaving, IInv, Serves, Current, dataVars, srvVars
<1>5. Stands(fd, m)'
  BY <1>2 DEF Stands, Named
<1>6. Dialogue(fd)'
  BY <1>2, <1>5 DEF Dialogue, At
<1>7. Absent(fd)' /\ Meant(fd)' /\ Proved(fd)' /\ Own(fd)'
  BY <1>2 DEF Absent, Meant, Proved, Own, At
<1>8. Tokens(fd)'
  BY <1>1, <1>2 DEF Fine, Tokens
<1>9. Fine(fd)'
  BY <1>6, <1>7, <1>8 DEF Fine
<1>10. \A d \in Fd \ {fd} : Fine(d)'
  <2>1. UserInfo \subseteq UserInfo'
    BY DEF Leaving, dataVars
  <2> QED
    BY <1>2, <2>1, OthersFine
<1> QED
  BY <1>3, <1>4, <1>9, <1>10 DEF IInv

(* HangUp keeps it, at every point of every dialogue (client.cpp:376-377). *)
LEMMA HangUpIInv ==
  ASSUME IInv, NEW fd \in Fd, HangUp(fd)
  PROVE  IInv'
<1>1. TypeOK /\ Fine(fd) /\ chan[fd] \in Seq(Item) /\ client[fd].pc \notin {"none", "gone"}
  BY DEF IInv, TypeOK, HangUp
<1>2. PICK c \in ClientState : c = [NoClient EXCEPT !.pc = "gone"]
  BY DEF NoClient, ClientState, ClientPc
<1>3. PICK k \in 0 .. Len(chan[fd]) : chan' = [chan EXCEPT ![fd] = SubSeq(@, 1, k)]
  BY DEF HangUp
<1>4. PICK m \in Place : Stands(fd, m) /\ \E e \in Place : Runs(m, chan[fd], e)
  <2>1. CASE reply[fd] = << >>
    <3>1. PICK m \in Place : Stands(fd, m) /\ Runs(m, chan[fd], End(client[fd].pc))
      BY <1>1, <2>1, EmptySeq DEF Fine, Dialogue, At
    <3> QED
      BY <3>1, Ends
  <2>2. CASE reply[fd] # << >>
    <3>1. chan[fd] = << >> /\ Stands(fd, After(reply[fd][1][1]))
      BY <1>1, <2>2 DEF Fine, Dialogue, At
    <3> DEFINE n == After(reply[fd][1][1])
    <3>2. n \in Place
      BY Places DEF After
    <3>3. Stands(fd, n)
      BY <3>1
    <3> HIDE DEF n
    <3>4. Len(chan[fd]) = 0
      BY <1>1, <3>1, Void
    <3>5. Runs(n, chan[fd], n)
      BY <1>1, <3>2, <3>4, RunsEmpty
    <3> QED
      BY <3>2, <3>3, <3>5
  <2> QED
    BY <2>1, <2>2
<1>5. PICK e \in Place : Runs(m, chan[fd], e)
  BY <1>4
<1> DEFINE s == SubSeq(chan[fd], 1, k)
<1>6. s \in Seq(Item) /\ \E n \in Place : Runs(m, s, n)
  BY <1>1, <1>5, RunsPrefix
<1>7. c.pc = "gone" /\ c.token = None
  BY <1>2 DEF NoClient
<1>8. chan' = [chan EXCEPT ![fd] = s]
  BY <1>1, <1>3 DEF TypeOK
<1> HIDE DEF s
<1>9. Leaving(fd, c, s)
  BY <1>2, <1>8 DEF HangUp, Leaving
<1> QED
  BY <1>1, <1>4, <1>6, <1>7, <1>9, Leaves

(* GetResult keeps it: a token, one more try, or the end                   *)
(* (client.cpp:84-113).                                                    *)
LEMMA GetResultIInv ==
  ASSUME IInv, NEW fd \in Fd, GetResult(fd)
  PROVE  IInv'
<1>1. /\ TypeOK /\ Fine(fd) /\ client[fd] \in ClientState /\ threads' \subseteq Token
      /\ client[fd].pc \in {"result", "lastResult"}
  BY DEF IInv, TypeOK, ClientState, GetResult, At
<1>2. PICK s \in Seq(Item) : s = << >> /\ Len(s) = 0
  BY EmptySeq
<1>3. \A i \in 1 .. Len(s) : s[i][1] \notin {"secret", "token"}
  BY <1>2
<1>4. ASSUME NEW t \in Token, Told(fd, "token", t),
             Hear(fd, << >>, [To(fd, "session") EXCEPT !.token = t])
      PROVE  IInv'
  <2>1. PICK c \in ClientState : c = [To(fd, "session") EXCEPT !.token = t]
    BY <1>1 DEF ClientState, ClientPc, To
  <2>2. c.pc = "session" /\ c.person = client[fd].person
    BY <1>1, <2>1 DEF ClientState, To
  <2>3. reply[fd] # << >> /\ Head(reply[fd])[1] = "token"
    BY <1>4 DEF Told
  <2>4. Runs("inside", s, "inside")
    BY <1>2, Places, RunsEmpty
  <2>5. Runs(After(Head(reply[fd])[1]), s, End(c.pc))
    <3>1. After("token") = "inside"
      BY DEF After
    <3> QED
      BY <2>2, <2>3, <2>4, <3>1, Ends
  <2>6. Hear(fd, s, c)
    BY <1>2, <1>4, <2>1
  <2>7. client[fd].pc \notin {"none", "gone", "data"} /\ c.pc \notin {"none", "gone", "data"}
    BY <1>1, <2>2
  <2>8. c.token # None <=> c.pc \in {"session", "answer", "transferAnswer"}
    BY <1>1, <2>1, <2>2, TokenAssumption DEF ClientState, To
  <2> QED
    BY <1>1, <1>3, <2>2, <2>3, <2>5, <2>6, <2>7, <2>8, Hears
<1>5. ASSUME Told(fd, "login", FALSE), Hear(fd, << >>, To(fd, "passwordAgain")),
             At(fd, "result")
      PROVE  IInv'
  <2>1. Runs("named", s, "named")
    BY <1>2, Places, RunsEmpty
  <2>2. Runs(After("login"), s, End("passwordAgain"))
    BY <2>1, Ends DEF After
  <2>3. Hear(fd, s, To(fd, "passwordAgain")) /\ "passwordAgain" \in ClientPc
    BY <1>2, <1>5 DEF ClientPc
  <2> QED
    BY <1>1, <1>2, <1>3, <1>5, <2>2, <2>3, HearsOn DEF At
<1>6. ASSUME Told(fd, "login", FALSE), Hear(fd, << >>, To(fd, "gone")), threads' = threads
      PROVE  IInv'
  <2>1. PICK c \in ClientState : c = To(fd, "gone")
    BY <1>1 DEF ClientState, ClientPc, To
  <2>2. c.pc = "gone" /\ c.token = None
    BY <1>1, <2>1 DEF ClientState, To, Fine, Tokens
  <2>3. reply[fd] # << >>
    BY <1>6 DEF Told
  <2>4. /\ Len(reply[fd]) = 1 /\ chan[fd] = << >>
        /\ Stands(fd, After(reply[fd][1][1]))
    BY <1>1, <2>3 DEF Fine, Dialogue, At
  <2> DEFINE m == After(reply[fd][1][1])
  <2>5. m \in Place /\ Stands(fd, m)
    BY <2>4, Places DEF After
  <2> HIDE DEF m
  <2>6. Runs(m, s, m)
    BY <1>2, <2>5, RunsEmpty
  <2>7. chan[fd] \o << >> = s
    BY <1>2, <2>4, ConcatEmptySeq
  <2>8. Tail(reply[fd]) = << >>
    BY <1>1, <2>4, Single DEF TypeOK
  <2>9. Leaving(fd, c, s)
    BY <1>1, <1>6, <2>1, <2>7, <2>8 DEF Hear, Leaving, TypeOK
  <2> QED
    BY <1>1, <2>2, <2>5, <2>6, <2>9, Leaves
<1> QED
  BY <1>4, <1>5, <1>6 DEF GetResult

(* SendCommand keeps it (client.cpp:166-242).                              *)
LEMMA SendCommandIInv ==
  ASSUME IInv, NEW fd \in Fd, SendCommand(fd)
  PROVE  IInv'
<1>1. At(fd, "session") /\ Awaited(fd) = {}
  BY DEF SendCommand, Awaited, At
<1>2. PICK c \in Command :
        LET cmd == <<<<"header", 1>>, <<"command", c>>>> IN
        CASE c \in {"remove", "other"} -> Say(fd, cmd, "answer")
          [] c = "gets" -> Say(fd, cmd, "transferAnswer")
          [] c = "puts" -> \/ Say(fd, cmd \o <<<<"opened", TRUE>>>>, "transferAnswer")
                           \/ Say(fd, cmd \o <<<<"opened", FALSE>>>>, "session")
          [] c = "unknown" -> Say(fd, cmd, "session")
  BY DEF SendCommand
<1>3. "answer" \in ClientPc /\ "transferAnswer" \in ClientPc /\ "session" \in ClientPc
  BY DEF ClientPc
<1> DEFINE s == <<<<"header", 1>>, <<"command", c>>>>
<1>4. /\ c \in {"remove", "other"} => Say(fd, s, "answer")
      /\ c = "gets" => Say(fd, s, "transferAnswer")
      /\ c = "unknown" => Say(fd, s, "session")
  BY <1>2
<1>5. /\ c \in {"remove", "other"} => Script("inside", s, "done")
      /\ c = "gets" => Script("inside", s, "transfer")
      /\ c = "unknown" => Script("inside", s, "inside")
  BY CommandRuns
<1>6. \A i \in 1 .. Len(s) : s[i][1] \notin {"secret", "token"}
  <2>1. Len(s) = 2 /\ s[1][1] = "header" /\ s[2][1] = "command"
    OBVIOUS
  <2> HIDE DEF s
  <2> QED
    BY <2>1
<1> HIDE DEF s
<1>7. CASE c \in {"remove", "other"}
  <2>1. s \in Seq(Item) /\ Runs(End(client[fd].pc), s, End("answer")) /\ Say(fd, s, "answer")
    BY <1>1, <1>4, <1>5, <1>7, Ends DEF Script, At
  <2> QED
    BY <1>1, <1>3, <1>6, <2>1, Speaks DEF At
<1>8. CASE c = "gets"
  <2>1. /\ s \in Seq(Item) /\ Runs(End(client[fd].pc), s, End("transferAnswer"))
        /\ Say(fd, s, "transferAnswer")
    BY <1>1, <1>4, <1>5, <1>8, Ends DEF Script, At
  <2> QED
    BY <1>1, <1>3, <1>6, <2>1, Speaks DEF At
<1>9. CASE c = "unknown"
  <2>1. s \in Seq(Item) /\ Runs(End(client[fd].pc), s, End("session")) /\ Say(fd, s, "session")
    BY <1>1, <1>4, <1>5, <1>9, Ends DEF Script, At
  <2> QED
    BY <1>1, <1>3, <1>6, <2>1, Speaks DEF At
<1>10. CASE c = "puts"
  <2> DEFINE h == <<"header", 1>>
             p == <<"command", "puts">>
             y == <<"opened", TRUE>>
             n == <<"opened", FALSE>>
  <2>1. h \in Item /\ p \in Item /\ y \in Item /\ n \in Item
    BY Items DEF AllCommands
  <2>2. /\ h[1] = "header" /\ p[1] = "command" /\ y[1] = "opened" /\ n[1] = "opened"
    OBVIOUS
  <2>3. /\ Script("inside", <<h, p, y>>, "transfer")
        /\ Script("inside", <<h, p, n>>, "inside")
    BY CommandRuns
  <2>4. \/ Say(fd, <<h, p>> \o <<y>>, "transferAnswer")
        \/ Say(fd, <<h, p>> \o <<n>>, "session")
    BY <1>2, <1>10
  <2> HIDE DEF h, p, y, n
  <2>5. <<h, p>> \o <<y>> = <<h, p, y>> /\ <<h, p>> \o <<n>> = <<h, p, n>>
    BY <2>1, Longer
  <2>6. CASE Say(fd, <<h, p>> \o <<y>>, "transferAnswer")
    <3>1. /\ <<h, p, y>> \in Seq(Item) /\ Say(fd, <<h, p, y>>, "transferAnswer")
          /\ Runs(End(client[fd].pc), <<h, p, y>>, End("transferAnswer"))
      BY <1>1, <2>3, <2>5, <2>6, Ends DEF Script, At
    <3>2. \A i \in 1 .. Len(<<h, p, y>>) : <<h, p, y>>[i][1] \notin {"secret", "token"}
      BY <2>2
    <3> QED
      BY <1>1, <1>3, <3>1, <3>2, Speaks DEF At
  <2>7. CASE Say(fd, <<h, p>> \o <<n>>, "session")
    <3>1. /\ <<h, p, n>> \in Seq(Item) /\ Say(fd, <<h, p, n>>, "session")
          /\ Runs(End(client[fd].pc), <<h, p, n>>, End("session"))
      BY <1>1, <2>3, <2>5, <2>7, Ends DEF Script, At
    <3>2. \A i \in 1 .. Len(<<h, p, n>>) : <<h, p, n>>[i][1] \notin {"secret", "token"}
      BY <2>2
    <3> QED
      BY <1>1, <1>3, <3>1, <3>2, Speaks DEF At
  <2> QED
    BY <2>4, <2>6, <2>7
<1> QED
  BY <1>7, <1>8, <1>9, <1>10, CommandAssumption DEF AllCommands

(* GetAnswer keeps it: the answer of a command (client.cpp:240-375).       *)
LEMMA GetAnswerIInv ==
  ASSUME IInv, NEW fd \in Fd, GetAnswer(fd)
  PROVE  IInv'
<1>1. TypeOK /\ Fine(fd) /\ client[fd] \in ClientState /\ "session" \in ClientPc
  BY DEF IInv, TypeOK, ClientState, ClientPc
<1>2. PICK s \in Seq(Item) : s = << >> /\ Len(s) = 0
  BY EmptySeq
<1>3. \A i \in 1 .. Len(s) : s[i][1] \notin {"secret", "token"}
  BY <1>2
<1>4. Runs("inside", s, "inside")
  BY <1>2, Places, RunsEmpty
<1>5. Runs(After("done"), s, End("session")) /\ Runs(After("transfer"), s, End("session"))
  <2>1. After("done") = "inside" /\ After("transfer") = "inside"
    BY DEF After
  <2> QED
    BY <1>4, <2>1, Ends
<1>6. ASSUME NEW ok \in BOOLEAN, At(fd, "answer"), Told(fd, "done", ok),
             Hear(fd, << >>, To(fd, "session")), threads' = threads
      PROVE  IInv'
  <2>1. threads' \subseteq Token /\ Hear(fd, s, To(fd, "session"))
    BY <1>1, <1>2, <1>6 DEF TypeOK
  <2> QED
    BY <1>1, <1>3, <1>5, <1>6, <2>1, HearsOn DEF At
<1>7. ASSUME NEW ok \in BOOLEAN, At(fd, "transferAnswer"), Told(fd, "transfer", ok),
             Hear(fd, << >>, To(fd, "session")),
             threads' = threads \cup (IF ok THEN {client[fd].token} ELSE {})
      PROVE  IInv'
  <2>1. client[fd].token \in Token
    BY <1>1, <1>7 DEF ClientState, At, Fine, Tokens
  <2>2. threads' \subseteq Token /\ Hear(fd, s, To(fd, "session"))
    BY <1>1, <1>2, <1>7, <2>1 DEF TypeOK
  <2> QED
    BY <1>1, <1>3, <1>5, <1>7, <2>2, HearsOn DEF At
<1> QED
  BY <1>6, <1>7 DEF GetAnswer

(* DataConnect keeps it: a data thread says 2 and its token                *)
(* (client.cpp:381-432).                                                   *)
LEMMA DataConnectIInv ==
  ASSUME IInv, NEW t \in threads, DataConnect(t)
  PROVE  IInv'
<1>1. TypeOK /\ t \in Token /\ threads' \subseteq Token
  BY DEF IInv, TypeOK, DataConnect
<1>2. ASSUME NEW d \in Fd, At(d, "none"),
             chan' = [chan EXCEPT ![d] = <<<<"header", 2>>, <<"token", t>>>>],
             client' = [client EXCEPT ![d] = [pc |-> "data", person |-> None, token |-> t]]
      PROVE  IInv'
  <2>1. Fine(d) /\ chan[d] = << >> /\ client[d].pc = "none"
    BY <1>2 DEF IInv, Fine, Absent, At
  <2>2. PICK c \in ClientState : c = [pc |-> "data", person |-> None, token |-> t]
    BY <1>1 DEF ClientState, ClientPc
  <2> DEFINE s == <<<<"header", 2>>, <<"token", t>>>>
  <2>3. s \in Seq(Item) /\ Runs("fresh", s, "granted")
    BY <1>1, ChoiceRuns DEF Script
  <2>4. Len(s) = 2 /\ s[1][1] = "header" /\ s[2][1] = "token" /\ s[2][2] = t
    OBVIOUS
  <2>5. chan' = [chan EXCEPT ![d] = s]
    BY <1>2
  <2> HIDE DEF s
  <2>6. \A i \in 1 .. Len(s) : Says(s[i], c)
    BY <2>2, <2>4 DEF Says
  <2>7. PICK m \in Place : reply[d] = << >> /\ Stands(d, m) /\ Runs(m, chan[d], "fresh")
    BY <2>1, Ends DEF Fine, Dialogue, At, Awaited
  <2>8. Runs("fresh", s, End(c.pc))
    BY <2>2, <2>3, Ends
  <2>9. Sending(d, s, c)
    <3>1. chan[d] \o s = s
      BY <2>1, <2>3, ConcatEmptySeq
    <3>2. chan' = [chan EXCEPT ![d] = @ \o s]
      BY <1>1, <2>5, <3>1 DEF TypeOK
    <3> QED
      BY <1>1, <1>2, <2>2, <2>7, <3>2 DEF DataConnect, Sending, TypeOK
  <2>10. Becomes(d, c)
    BY <1>1, <1>2, <2>1, <2>2, TokenAssumption DEF Becomes
  <2> QED
    BY <2>3, <2>6, <2>7, <2>8, <2>9, <2>10, Places, Sends
<1>3. ASSUME UNCHANGED <<chan, client>>
      PROVE  IInv'
  <2>1. UNCHANGED <<UserInfo, tok, md5, node, srv, chan, reply, client, fault>>
    BY <1>3 DEF DataConnect, dataVars, srvVars
  <2>2. TypeOK' /\ Serves' /\ Current'
    BY <1>1, <2>1 DEF IInv, TypeOK, Serves, Current
  <2>3. ASSUME NEW d \in Fd PROVE Fine(d)'
    <3>1. UserInfo \subseteq UserInfo' /\ srv' = srv
      BY <2>1
    <3>2. Fine(d)
      BY DEF IInv
    <3>3. \A m : Stands(d, m)' <=> Stands(d, m)
      BY <2>1 DEF Stands, Named
    <3>4. Dialogue(d)'
      BY <2>1, <3>2, <3>3 DEF Fine, Dialogue, At, Awaited
    <3> QED
      BY <2>1, <3>2, <3>4 DEF Fine, Absent, Meant, Tokens, Proved, Own, At
  <2> QED
    BY <2>2, <2>3 DEF IInv
<1> QED
  BY <1>2, <1>3 DEF DataConnect

-----------------------------------------------------------------------------
(* Main.  What it receives is what it can take where it stands.            *)
LEMMA Received ==
  ASSUME IInv, NEW fd \in Fd, NEW kind, NEW v, Recv(fd, kind, v)
  PROVE  /\ reply[fd] = << >> /\ client[fd].pc # "none" /\ chan[fd] \in Seq(Item)
         /\ \E m \in Place : Stands(fd, m)
         /\ \/ chan[fd] = << >> /\ At(fd, "gone") /\ v = None
            \/ /\ chan[fd] # << >> /\ Head(chan[fd]) = <<kind, v>>
               /\ <<kind, v>> \in Item /\ v # None
               /\ Tail(chan[fd]) \in Seq(Item)
               /\ \E m, n, e \in Place :
                    /\ Stands(fd, m) /\ Takes(m, <<kind, v>>, n)
                    /\ Runs(n, Tail(chan[fd]), e)
                    /\ At(fd, "gone") \/ e = End(client[fd].pc)
<1>1. TypeOK /\ Fine(fd) /\ chan[fd] \in Seq(Item)
  BY DEF IInv, TypeOK
<1>2. CASE chan[fd] = << >> /\ At(fd, "gone") /\ v = None
  BY <1>1, <1>2 DEF Fine, Dialogue, At
<1>3. CASE chan[fd] # << >> /\ Head(chan[fd]) = <<kind, v>>
  <2>1. /\ <<kind, v>> \in Item /\ Tail(chan[fd]) \in Seq(Item)
    BY <1>1, <1>3, HeadTailProperties
  <2>2. v # None
    <3>1. <<kind, v>>[2] # None
      BY <2>1, ItemAssumption
    <3> QED
      BY <3>1
  <2>3. client[fd].pc # "none"
    BY <1>1, <1>3 DEF Fine, Absent, At
  <2>4. PICK m, e \in Place :
          /\ reply[fd] = << >>
          /\ Stands(fd, m) /\ Runs(m, chan[fd], e)
          /\ At(fd, "gone") \/ e = End(client[fd].pc)
    <3>1. CASE At(fd, "gone")
      BY <1>1, <3>1 DEF Fine, Dialogue
    <3>2. CASE ~At(fd, "gone")
      <4>1. PICK m \in Place : reply[fd] = << >> /\ Stands(fd, m)
                              /\ Runs(m, chan[fd], End(client[fd].pc))
        BY <1>1, <1>3, <3>2 DEF Fine, Dialogue
      <4> QED
        BY <4>1, Ends
    <3> QED
      BY <3>1, <3>2
  <2>5. PICK n \in Place : Takes(m, Head(chan[fd]), n) /\ Runs(n, Tail(chan[fd]), e)
    BY <1>1, <1>3, <2>4, RunsTail
  <2>6. Takes(m, <<kind, v>>, n)
    BY <1>3, <2>5
  <2>7. \E p, q, r \in Place :
          /\ Stands(fd, p) /\ Takes(p, <<kind, v>>, q)
          /\ Runs(q, Tail(chan[fd]), r)
          /\ At(fd, "gone") \/ r = End(client[fd].pc)
    BY <2>4, <2>5, <2>6
  <2> QED
    BY <1>1, <1>3, <2>1, <2>2, <2>3, <2>4, <2>7
<1> QED
  BY <1>2, <1>3 DEF Recv

(* The answers a client may expect when one of this place is owed.         *)
Answers(n) == CASE n = "salt" -> {"salt"}
                [] n = "judged" -> {"token", "login"}
                [] n = "exists" -> {"exists"}
                [] n = "done" -> {"done"}
                [] n = "transfer" -> {"transfer"}
                [] OTHER -> {"granted"}

(* A client that believes main owes it an answer waits for that answer.    *)
LEMMA AnswersAwaited ==
  ASSUME TypeOK, NEW fd \in Fd, ~At(fd, "gone"), End(client[fd].pc) \in Owed
  PROVE  Awaited(fd) = Answers(End(client[fd].pc))
<1> DEFINE pc == client[fd].pc
<1>1. pc \in {"salt", "result", "lastResult", "isFree", "answer", "transferAnswer",
              "data"}
  <2>1. pc \in ClientPc /\ pc # "gone"
    BY DEF TypeOK, At
  <2> HIDE DEF pc
  <2>2. End(pc) \in Owed
    BY DEF pc
  <2> QED
    BY <2>1, <2>2, Ends DEF ClientPc, Owed
<1> HIDE DEF pc
<1>2. \A s : At(fd, s) <=> pc = s
  BY DEF At, pc
<1>3. Awaited(fd) = Answers(End(pc))
  BY <1>1, <1>2, Ends DEF Awaited, Answers
<1> QED
  BY <1>3 DEF pc

(* Main has taken an item, or learnt that there is none, and served fd.    *)
Serving(fd) ==
  /\ chan' = Unread(fd) /\ client' = client /\ threads' = threads
  /\ reply' \in [Fd -> Seq(Answer)] /\ (At(fd, "gone") => reply'[fd] = reply[fd])
  /\ \A d \in Fd \ {fd} : reply'[d] = reply[d] /\ node'[d] = node[d]
  /\ srv.fd \in {fd, None} /\ srv'.fd \in {fd, None}
  /\ UserInfo \subseteq UserInfo'

(* Where the item takes main it stands, or it has given the answer owed.   *)
Goes(fd, n) ==
  \/ n \notin Owed /\ Stands(fd, n)' /\ reply'[fd] = reply[fd]
  \/ n \in Owed /\ At(fd, "gone")
  \/ /\ n \in Owed /\ Len(reply'[fd]) = 1 /\ srv'.fd # fd
     /\ reply'[fd][1][1] \in Answers(n)
     /\ Stands(fd, After(reply[fd][1][1]))'

(* The parts of TypeOK that main's steps change, but for chan and reply.   *)
ServerOK ==
  /\ UserInfo \subseteq (Name \cup {None}) \X (Person \cup {None})
  /\ tok \in [Token -> Fd \cup {None}]
  /\ md5 \in Token \cup {FileHash, None}
  /\ node \in [Fd -> {None} \cup Node]
  /\ srv \in [pc : {"loop", "choice", "login", "register", "action", "token",
                    "name", "secret", "lastSecret", "newName", "newSalt",
                    "newSecret", "opened"},
              fd : Fd \cup {None}]
  /\ fault \in BOOLEAN

(* Main serves fd: the parts of the invariant about all other connections  *)
(* follow.                                                                 *)
LEMMA Served ==
  ASSUME IInv, NEW fd \in Fd, NEW kind, NEW v, Recv(fd, kind, v), Serving(fd),
         ServerOK', Serves', Current', Proved(fd)', Own(fd)',
         node'[fd] # None,
         node'[fd].queued => client[fd].pc \in {"data", "gone"},
         node'[fd].token => node'[fd].state = 3,
         NEW p \in Place, Stands(fd, p)',
         \A m, n \in Place :
           Stands(fd, m) /\ Takes(m, <<kind, v>>, n) /\ v # None
             /\ <<kind, v>> \in Item => Goes(fd, n)
  PROVE  IInv'
<1>1. TypeOK /\ Fine(fd) /\ client[fd] \in ClientState /\ fd # None
  BY DistinctAssumption DEF IInv, TypeOK, ClientState
<1>2. /\ reply[fd] = << >> /\ client[fd].pc # "none" /\ chan[fd] \in Seq(Item)
      /\ \/ chan[fd] = << >> /\ At(fd, "gone") /\ v = None
         \/ /\ chan[fd] # << >> /\ Head(chan[fd]) = <<kind, v>>
            /\ <<kind, v>> \in Item /\ v # None
            /\ Tail(chan[fd]) \in Seq(Item)
            /\ \E m, n, e \in Place :
                 /\ Stands(fd, m) /\ Takes(m, <<kind, v>>, n)
                 /\ Runs(n, Tail(chan[fd]), e)
                 /\ At(fd, "gone") \/ e = End(client[fd].pc)
  BY Received
<1>3. /\ chan' \in [Fd -> Seq(Item)] /\ client' = client
      /\ chan'[fd] = IF chan[fd] = << >> THEN chan[fd] ELSE Tail(chan[fd])
      /\ \A d \in Fd \ {fd} : chan'[d] = chan[d]
  BY <1>1, <1>2 DEF Serving, Unread, TypeOK
<1>4. TypeOK'
  BY <1>1, <1>3 DEF Serving, ServerOK, TypeOK
<1>5. Dialogue(fd)'
  <2>1. CASE chan[fd] = << >>
    <3>1. chan'[fd] = << >> /\ Len(chan'[fd]) = 0 /\ chan'[fd] \in Seq(Item)
      BY <1>2, <1>3, <2>1, Void
    <3>2. Runs(p, chan'[fd], p)
      BY <3>1, RunsEmpty
    <3>3. At(fd, "gone")' /\ reply'[fd] = << >>
      BY <1>2, <1>3, <2>1 DEF Serving, At
    <3> QED
      BY <3>2, <3>3 DEF Dialogue
  <2>2. CASE chan[fd] # << >>
    <3>1. PICK m, n, e \in Place :
            /\ Stands(fd, m) /\ Takes(m, <<kind, v>>, n)
            /\ Runs(n, Tail(chan[fd]), e)
            /\ At(fd, "gone") \/ e = End(client[fd].pc)
      BY <1>2, <2>2
    <3>2. Goes(fd, n)
      BY <1>2, <2>2, <3>1
    <3>3. chan'[fd] = Tail(chan[fd]) /\ chan'[fd] \in Seq(Item)
      BY <1>2, <1>3, <2>2
    <3>4. At(fd, "gone") => reply'[fd] = << >>
      BY <1>2 DEF Serving
    <3>5. At(fd, "gone")' <=> At(fd, "gone")
      BY <1>3 DEF At
    <3>6. Runs(n, chan'[fd], e)
      BY <3>1, <3>3
    <3>7. CASE n \notin Owed
      <4>1. Stands(fd, n)' /\ reply'[fd] = << >>
        BY <1>2, <3>2, <3>7 DEF Goes
      <4> QED
        BY <1>3, <3>1, <3>5, <3>6, <4>1 DEF Dialogue
    <3>8. CASE n \in Owed
      <4>1. chan'[fd] = << >> /\ e = n /\ Len(chan'[fd]) = 0
        BY <3>3, <3>6, <3>8, RunsOwed, Void
      <4>2. CASE At(fd, "gone")
        <5>1. Runs(p, chan'[fd], p)
          BY <3>3, <4>1, RunsEmpty
        <5> QED
          BY <3>4, <3>5, <4>2, <5>1 DEF Dialogue
      <4>3. CASE ~At(fd, "gone")
        <5>1. End(client[fd].pc) = n
          BY <3>1, <4>1, <4>3
        <5>2. Awaited(fd) = Answers(n)
          BY <1>1, <3>8, <4>3, <5>1, AnswersAwaited
        <5>3. Awaited(fd)' = Awaited(fd)
          BY <1>3 DEF Awaited, At
        <5>4. /\ Len(reply'[fd]) = 1 /\ srv'.fd # fd
              /\ reply'[fd][1][1] \in Answers(n)
              /\ Stands(fd, After(reply[fd][1][1]))'
          BY <3>2, <3>8, <4>3 DEF Goes
        <5> QED
          BY <3>5, <4>1, <4>3, <5>2, <5>3, <5>4 DEF Dialogue
      <4> QED
        BY <4>2, <4>3
    <3> QED
      BY <3>7, <3>8
  <2> QED
    BY <2>1, <2>2
<1>6. Absent(fd)'
  BY <1>2, <1>3 DEF Absent, At
<1>7. Meant(fd)'
  <2>1. CASE chan[fd] = << >>
    <3>1. Len(chan'[fd]) = 0
      BY <1>2, <1>3, <2>1, Void
    <3> QED
      BY <3>1 DEF Meant
  <2>2. CASE chan[fd] # << >>
    <3>1. /\ Len(chan[fd]) \in Nat /\ Len(chan'[fd]) = Len(chan[fd]) - 1
          /\ \A i \in 1 .. Len(chan'[fd]) : chan'[fd][i] = chan[fd][i + 1]
      BY <1>2, <1>3, <2>2, HeadTailProperties, LenProperties
    <3>2. \A i \in 1 .. Len(chan'[fd]) : i + 1 \in 1 .. Len(chan[fd])
      BY <3>1
    <3> QED
      BY <1>1, <1>3, <3>1, <3>2 DEF Fine, Meant, At
  <2> QED
    BY <2>1, <2>2
<1>8. Tokens(fd)'
  BY <1>1, <1>3 DEF Fine, Tokens
<1>9. Fine(fd)'
  BY <1>5, <1>6, <1>7, <1>8 DEF Fine
<1>10. \A d \in Fd \ {fd} : Fine(d)'
  <2>1. Others(fd)
    BY <1>3 DEF Serving, Others
  <2> QED
    BY <2>1, OthersFine DEF Serving
<1> QED
  BY <1>4, <1>9, <1>10 DEF IInv

(* Main reads on in the same event.                                        *)
ServerPc == {"choice", "login", "register", "action", "token", "name", "secret",
             "lastSecret", "newName", "newSalt", "newSecret", "opened"}

(* ReadOn keeps the invariant, if every item takes main where it now       *)
(* stands.                                                                 *)
LEMMA ReadsOn ==
  ASSUME IInv, NEW fd \in Fd, NEW kind, NEW v, Recv(fd, kind, v),
         NEW pc \in ServerPc, ReadOn(fd, pc), srv.fd \in {fd, None},
         node[fd] # None, ~node[fd].queued, Serves',
         NEW p \in Place, Stands(fd, p)',
         \A m, n \in Place :
           Stands(fd, m) /\ Takes(m, <<kind, v>>, n) /\ v # None
             /\ <<kind, v>> \in Item => n \notin Owed /\ Stands(fd, n)'
  PROVE  IInv'
<1>1. TypeOK /\ Fine(fd)
  BY DEF IInv
<1>2. /\ UNCHANGED <<UserInfo, tok, md5, node, reply, client, threads, fault>>
      /\ srv' = [pc |-> pc, fd |-> fd] /\ srv'.fd = fd
  BY DEF ReadOn, dataVars
<1>3. Serving(fd)
  BY <1>1, <1>2 DEF Serving, ReadOn, TypeOK
<1>4. ServerOK'
  BY <1>1, <1>2 DEF TypeOK, ServerOK, ServerPc
<1>5. Current' /\ Proved(fd)' /\ Own(fd)'
  BY <1>1, <1>2 DEF IInv, Current, Fine, Proved, Own, At
<1>6. \A m, n \in Place :
        Stands(fd, m) /\ Takes(m, <<kind, v>>, n) /\ v # None
          /\ <<kind, v>> \in Item => Goes(fd, n)
  BY <1>2 DEF Goes
<1>7. /\ node'[fd] # None /\ ~node'[fd].queued
      /\ node'[fd].token => node'[fd].state = 3
  BY <1>1, <1>2 DEF Fine, Tokens
<1> QED
  BY <1>3, <1>4, <1>5, <1>6, <1>7, Served

(* Main is done with the event: it answers, and leaves u as the session.   *)
Rests(u, m) == \/ m = Resting(u.state)
               \/ u.state = 1 /\ u.UserName \in Name /\ m = "named"

Closes(u, answers, n) ==
  \/ n \notin Owed /\ answers = << >> /\ Rests(u, n)
  \/ /\ n \in Owed /\ Len(answers) = 1 /\ answers[1][1] \in Answers(n)
     /\ Rests(u, After(answers[1][1]))

Honest(fd, u) ==
  /\ u.queued => client[fd].pc \in {"data", "gone"}
  /\ u.token => u.state = 3
  /\ client[fd].token # None /\ u.queued => u.absPath = client[fd].token[2]

(* Finish keeps the invariant, if every item takes main to a place that    *)
(* the session and the answer agree with.                                  *)
LEMMA Finishes ==
  ASSUME IInv, NEW fd \in Fd, NEW kind, NEW v, Recv(fd, kind, v), srv.fd = fd,
         NEW u \in Node, NEW answers \in Seq(Answer), Finish(fd, u, answers),
         Honest(fd, u), Current', fault' = fault,
         UserInfo \subseteq UserInfo',
         UserInfo' \subseteq (Name \cup {None}) \X (Person \cup {None}),
         tok' \in [Token -> Fd \cup {None}], md5' \in Token \cup {FileHash, None},
         ~At(fd, "gone") /\ u.state = 3 => <<u.UserName, client[fd].person>> \in UserInfo',
         \A m, n \in Place :
           Stands(fd, m) /\ Takes(m, <<kind, v>>, n) /\ v # None
             /\ <<kind, v>> \in Item => Closes(u, answers, n)
  PROVE  IInv'
<1>1. TypeOK /\ Fine(fd) /\ fd # None
  BY DistinctAssumption DEF IInv
<1>2. /\ reply[fd] = << >> /\ reply[fd] \in Seq(Answer)
  BY <1>1, Received DEF TypeOK
<1>3. u # None
  BY NodeAssumption
<1>4. /\ node'[fd] = u /\ client' = client /\ srv' = Idle /\ srv'.fd = None
      /\ srv'.pc = "loop" /\ threads' = threads
  BY <1>1 DEF Finish, TypeOK, Idle
<1>5. reply'[fd] = IF At(fd, "gone") THEN reply[fd] ELSE answers
  <2>1. reply[fd] \o answers = answers
    BY <1>2, ConcatEmptySeq
  <2> QED
    BY <1>1, <2>1 DEF Finish, TypeOK
<1>6. Serving(fd)
  <2>1. /\ reply' \in [Fd -> Seq(Answer)]
        /\ \A d \in Fd \ {fd} : reply'[d] = reply[d] /\ node'[d] = node[d]
    <3>1. (IF At(fd, "gone") THEN reply[fd] ELSE reply[fd] \o answers) \in Seq(Answer)
      BY <1>2, ConcatProperties
    <3> QED
      BY <1>1, <3>1 DEF Finish, TypeOK
  <2> QED
    BY <1>4, <1>5, <2>1 DEF Serving, Finish
<1>7. ServerOK'
  <2>1. node' \in [Fd -> {None} \cup Node]
    BY <1>1 DEF Finish, TypeOK
  <2> QED
    BY <1>1, <1>4, <2>1 DEF ServerOK, TypeOK, Idle
<1>8. Serves'
  BY <1>4 DEF Serves
<1>9. Proved(fd)' /\ Own(fd)'
  BY <1>4 DEF Proved, Own, Honest, At
<1>10. \A m : Rests(u, m) => Stands(fd, m)'
  BY <1>1, <1>3, <1>4 DEF Rests, Stands, Named
<1>11. Resting(u.state) \in Place /\ Stands(fd, Resting(u.state))'
  <2>1. Resting(u.state) \in Place
    BY Places DEF Resting
  <2>2. Rests(u, Resting(u.state))
    BY DEF Rests
  <2>3. Stands(fd, Resting(node[fd].state))'
    BY <1>1, <1>3, <1>4 DEF Stands
  <2> QED
    BY <1>4, <2>1, <2>3
<1>12. ASSUME NEW m \in Place, NEW n \in Place, Closes(u, answers, n)
       PROVE  Goes(fd, n)
  <2>1. CASE n \notin Owed
    <3>1. Stands(fd, n)' /\ answers = << >>
      BY <1>10, <1>12, <2>1 DEF Closes
    <3> QED
      BY <1>2, <1>5, <2>1, <3>1 DEF Goes
  <2>2. CASE n \in Owed /\ At(fd, "gone")
    BY <2>2 DEF Goes
  <2>3. CASE n \in Owed /\ ~At(fd, "gone")
    <3>1. /\ Len(reply'[fd]) = 1 /\ reply'[fd][1][1] \in Answers(n)
          /\ Rests(u, After(reply'[fd][1][1]))
      BY <1>5, <1>12, <2>3 DEF Closes
    <3> DEFINE a == answers[1][1]
    <3>2. Stands(fd, After(a))'
      BY <1>10, <1>12, <2>3 DEF Closes
    <3>3. reply'[fd][1][1] = a
      BY <1>5, <2>3
    <3>4. Stands(fd, After(reply[fd][1][1]))'
      BY <3>2, <3>3
    <3> QED
      BY <1>1, <1>4, <2>3, <3>1, <3>4 DEF Goes
  <2> QED
    BY <2>1, <2>2, <2>3
<1>13. \A m, n \in Place :
         Stands(fd, m) /\ Takes(m, <<kind, v>>, n) /\ v # None
           /\ <<kind, v>> \in Item => Goes(fd, n)
  BY <1>12
<1>14. /\ node'[fd] # None
       /\ node'[fd].queued => client[fd].pc \in {"data", "gone"}
       /\ node'[fd].token => node'[fd].state = 3
  BY <1>3, <1>4 DEF Honest
<1> DEFINE p == Resting(u.state)
<1>15. p \in Place /\ Stands(fd, p)'
  BY <1>11
<1> HIDE DEF p
<1> QED
  BY <1>6, <1>7, <1>8, <1>9, <1>13, <1>14, <1>15, Served

(* The connection is torn down.                                            *)
LEMMA TornDown ==
  ASSUME IInv, NEW fd \in Fd, TearDown(fd),
         (srv' = srv /\ srv.fd # fd) \/ (srv' = Idle /\ srv.fd \in {fd, None}),
         UserInfo' = UserInfo, md5' = md5, fault' = fault,
         tok' \in [Token -> Fd \cup {None}],
         \A t \in Token : tok'[t] \in {tok[t], None}
  PROVE  IInv'
<1>1. TypeOK /\ Fine(fd) /\ fd # None
  BY DistinctAssumption DEF IInv
<1>2. NoClient \in ClientState /\ NoClient.pc = "none" /\ NoClient.token = None
  BY DEF NoClient, ClientState, ClientPc
<1>3. PICK e \in Seq(Item) : e = << >> /\ Len(e) = 0
  BY EmptySeq
<1>4. << >> \in Seq(Answer)
  BY EmptySeq
<1>5. /\ node'[fd] = None /\ chan'[fd] = e /\ reply'[fd] = << >>
      /\ client'[fd] = NoClient /\ Others(fd)
  BY <1>1, <1>3 DEF TearDown, TypeOK, Others
<1>6. TypeOK'
  <2>1. /\ chan' \in [Fd -> Seq(Item)] /\ client' \in [Fd -> ClientState]
        /\ reply' \in [Fd -> Seq(Answer)] /\ node' \in [Fd -> {None} \cup Node]
    BY <1>1, <1>2, <1>3, <1>4 DEF TearDown, TypeOK, ClientState
  <2>2. srv' = srv \/ (srv'.pc = "loop" /\ srv'.fd = None /\ srv' = Idle)
    BY DEF Idle
  <2> QED
    BY <1>1, <2>1, <2>2 DEF TearDown, TypeOK, ClientState, Idle
<1>7. Serves'
  <2>1. CASE srv' = Idle
    BY <2>1 DEF Serves, Idle
  <2>2. CASE srv' = srv /\ srv.fd # fd
    <3>1. srv.fd # None => node'[srv.fd] = node[srv.fd]
      BY <1>1, <1>5, <2>2 DEF Others, TypeOK
    <3> QED
      BY <2>2, <3>1 DEF IInv, Serves
  <2> QED
    BY <2>1, <2>2
<1>8. Current'
  <2> SUFFICES ASSUME md5 \in Token, tok'[md5] # None, node'[tok'[md5]] # None,
                      node'[tok'[md5]].token
               PROVE  node'[tok'[md5]].absPath = md5[2]
    BY DEF Current
  <2>1. tok'[md5] = tok[md5] /\ tok[md5] \in Fd
    BY <1>1 DEF TypeOK
  <2>2. node'[tok[md5]] = node[tok[md5]]
    BY <1>5, <2>1 DEF Others
  <2> QED
    BY <2>1, <2>2 DEF IInv, Current
<1>9. Dialogue(fd)'
  <2>1. Stands(fd, "fresh")'
    <3>1. srv'.fd # fd
      BY <1>1 DEF Idle
    <3> QED
      BY <1>5, <3>1 DEF Stands
  <2>2. Runs("fresh", chan'[fd], "fresh")
    BY <1>3, <1>5, Places, RunsEmpty
  <2> QED
    BY <1>2, <1>5, <2>1, <2>2, Ends, Places DEF Dialogue, At
<1>10. Absent(fd)' /\ Proved(fd)' /\ Own(fd)'
  <2>1. srv'.fd # fd
    BY <1>1 DEF Idle
  <2> QED
    BY <1>3, <1>5, <2>1 DEF Absent, Proved, Own
<1>11. Meant(fd)'
  BY <1>3, <1>5 DEF Meant
<1>12. Tokens(fd)'
  BY <1>2, <1>5 DEF Tokens
<1>13. Fine(fd)'
  BY <1>9, <1>10, <1>11, <1>12 DEF Fine
<1>14. \A d \in Fd \ {fd} : Fine(d)'
  <2>1. srv' = srv \/ (srv.fd \in {fd, None} /\ srv'.fd \in {fd, None})
    BY DEF Idle
  <2> QED
    BY <1>5, <2>1, OthersFine
<1> QED
  BY <1>6, <1>7, <1>8, <1>13, <1>14 DEF IInv

-----------------------------------------------------------------------------
(* Main's actions.                                                         *)
LEMMA AcceptIInv ==
  ASSUME IInv, NEW fd \in Fd, Accept(fd)
  PROVE  IInv'
<1>1. TypeOK /\ Fine(fd) /\ fd # None /\ srv.fd = None
  BY DistinctAssumption DEF IInv, Accept, Idle
<1>2. /\ Fresh \in Node /\ Fresh # None /\ Fresh.state = 0 /\ ~Fresh.token
      /\ ~Fresh.queued
  <2>1. Fresh.state = 0 /\ ~Fresh.token /\ ~Fresh.queued
    BY DEF Fresh
  <2>2. Fresh \in Node
    BY DEF Fresh, Node
  <2> QED
    BY <2>1, <2>2, NodeAssumption
<1>3. /\ UNCHANGED <<UserInfo, tok, md5, srv, chan, reply, client, threads, fault>>
      /\ node'[fd] = Fresh /\ Others(fd) /\ node' \in [Fd -> {None} \cup Node]
  BY <1>1, <1>2 DEF Accept, dataVars, TypeOK, Others
<1>4. TypeOK' /\ Serves'
  BY <1>1, <1>3 DEF TypeOK, IInv, Serves
<1>5. Current'
  <2> SUFFICES ASSUME md5 \in Token, tok[md5] # None, node'[tok[md5]] # None,
                      node'[tok[md5]].token
               PROVE  node'[tok[md5]].absPath = md5[2]
    BY <1>3 DEF Current
  <2>1. tok[md5] \in Fd /\ tok[md5] # fd
    BY <1>1, <1>2, <1>3 DEF TypeOK
  <2>2. node'[tok[md5]] = node[tok[md5]]
    BY <1>3, <2>1 DEF Others
  <2> QED
    BY <2>2 DEF IInv, Current
<1>6. \A m : Stands(fd, m) => Stands(fd, m)'
  BY <1>1, <1>2, <1>3, Restings DEF Accept, Stands
<1>7. Dialogue(fd)'
  BY <1>1, <1>3, <1>6 DEF Fine, Dialogue, At, Awaited
<1>8. Absent(fd)'
  BY <1>3 DEF Accept, Absent, At
<1>9. Meant(fd)' /\ Tokens(fd)' /\ Proved(fd)' /\ Own(fd)'
  <2>1. Meant(fd)'
    BY <1>1, <1>3 DEF Fine, Meant, At
  <2>2. Proved(fd)' /\ Own(fd)'
    BY <1>2, <1>3 DEF Proved, Own
  <2>3. Tokens(fd)'
    BY <1>1, <1>2, <1>3 DEF Fine, Tokens
  <2> QED
    BY <2>1, <2>2, <2>3
<1>10. \A d \in Fd \ {fd} : Fine(d)'
  <2>1. UserInfo \subseteq UserInfo' /\ srv' = srv
    BY <1>3
  <2> QED
    BY <1>3, <2>1, OthersFine
<1> QED
  BY <1>4, <1>5, <1>7, <1>8, <1>9, <1>10 DEF IInv, Fine

(* Event keeps it: the header, and the place main goes to by the state of  *)
(* the session (main.cpp:106-182).                                         *)
LEMMA EventIInv ==
  ASSUME IInv, NEW fd \in Fd, Event(fd)
  PROVE  IInv'
<1>1. /\ TypeOK /\ Fine(fd) /\ fd # None /\ srv.fd = None
      /\ node[fd] # None /\ ~node[fd].queued /\ node[fd].state \in 0 .. 3
  BY DistinctAssumption DEF IInv, TypeOK, Event, Idle, Node
<1>12. \/ node[fd].state = 0 \/ node[fd].state = 1
       \/ node[fd].state = 2 \/ node[fd].state = 3
  BY <1>1
<1> DEFINE by == CASE node[fd].state = 0 -> "choice"
                   [] node[fd].state = 1 -> "login"
                   [] node[fd].state = 2 -> "register"
                   [] node[fd].state = 3 -> "action"
<1>2. PICK h \in {1, 2, None} :
        Recv(fd, "header", h) /\ ReadOn(fd, IF h = 2 THEN "token" ELSE by)
  BY DEF Event
<1> DEFINE goal == IF h = 2 THEN "token" ELSE by
<1>3. \/ h = 2 /\ goal = "token"
      \/ h # 2 /\ node[fd].state = 0 /\ goal = "choice"
      \/ h # 2 /\ node[fd].state = 1 /\ goal = "login"
      \/ h # 2 /\ node[fd].state = 2 /\ goal = "register"
      \/ h # 2 /\ node[fd].state = 3 /\ goal = "action"
  <2>1. \/ node[fd].state = 0 /\ by = "choice"
        \/ node[fd].state = 1 /\ by = "login"
        \/ node[fd].state = 2 /\ by = "register"
        \/ node[fd].state = 3 /\ by = "action"
    BY <1>12
  <2> HIDE DEF by
  <2> QED
    BY <2>1
<1>9. Recv(fd, "header", h) /\ ReadOn(fd, goal)
  BY <1>2
<1> HIDE DEF by, goal
<1>10. PICK pc \in ServerPc : pc = goal
  BY <1>3 DEF ServerPc
<1>11. ReadOn(fd, pc)
  BY <1>9, <1>10
<1>4. srv' = [pc |-> pc, fd |-> fd] /\ node' = node
  BY <1>11 DEF ReadOn
<1>5. ASSUME NEW m \in Place, NEW n \in Place, Stands(fd, m), h # None,
             Takes(m, <<"header", h>>, n)
      PROVE  n \notin Owed /\ Stands(fd, n)' /\ (h = 2 => node[fd].state = 0)
  <2>1. TakesHeader(m, <<"header", h>>, n)
    BY <1>5 DEF Takes, TakesLogin, TakesRegister, TakesCommand
  <2>2. \/ m = Resting(node[fd].state)
        \/ node[fd].state = 1 /\ Named(fd) /\ m = "named"
    BY <1>1, <1>5 DEF Stands
  <2>3. \/ h = 1 /\ m = "fresh" /\ n = "choice"
        \/ h = 1 /\ m = "entering" /\ n = "login"
        \/ h = 1 /\ m = "named" /\ n = "relogin"
        \/ h = 1 /\ m = "registering" /\ n = "register"
        \/ h = 1 /\ m = "inside" /\ n = "action"
        \/ h = 2 /\ m = "fresh" /\ n = "token"
    <3>1. \A k : <<"header", h>> = <<"header", k>> => h = k
      OBVIOUS
    <3> QED
      BY <2>1, <3>1 DEF TakesHeader
  <2>4. \/ n = pc
        \/ n = "relogin" /\ Named(fd) /\ pc = "login"
    <3>1. /\ m = "fresh" => node[fd].state = 0
          /\ m = "entering" => node[fd].state = 1
          /\ m = "named" => node[fd].state = 1 /\ Named(fd)
          /\ m = "registering" => node[fd].state = 2
          /\ m = "inside" => node[fd].state = 3
      BY <1>12, <2>2, Restings
    <3>2. CASE h = 2
      BY <1>3, <1>10, <2>3, <3>2
    <3>3. CASE h = 1 /\ m = "fresh"
      BY <1>3, <1>10, <2>3, <3>1, <3>3
    <3>4. CASE h = 1 /\ m = "entering"
      BY <1>3, <1>10, <2>3, <3>1, <3>4
    <3>5. CASE h = 1 /\ m = "named"
      BY <1>3, <1>10, <2>3, <3>1, <3>5
    <3>6. CASE h = 1 /\ m = "registering"
      BY <1>3, <1>10, <2>3, <3>1, <3>6
    <3>7. CASE h = 1 /\ m = "inside"
      BY <1>3, <1>10, <2>3, <3>1, <3>7
    <3> QED
      BY <2>3, <3>2, <3>3, <3>4, <3>5, <3>6, <3>7
  <2>5. h = 2 => node[fd].state = 0
    BY <1>12, <2>2, <2>3, Restings
  <2>6. n \notin Owed
    BY <1>3, <1>10, <2>4 DEF Owed
  <2>7. Stands(fd, n)'
    BY <1>3, <1>4, <1>10, <2>4 DEF Stands, Named
  <2> QED
    BY <2>5, <2>6, <2>7
<1>6. h = 2 => node[fd].state = 0
  <2>1. CASE h = None
    <3>1. <<"header", 2>>[2] # None
      BY Items, ItemAssumption
    <3> QED
      BY <2>1, <3>1
  <2>2. CASE h # None
    BY <1>9, <1>5, <2>2, Received
  <2> QED
    BY <2>1, <2>2
<1>7. Serves'
  <2>1. /\ pc # "loop" /\ srv'.pc = pc /\ srv'.fd = fd
        /\ pc \in {"choice", "login", "register", "action", "token"}
    BY <1>3, <1>4, <1>10
  <2>2. /\ pc \in {"choice", "token"} => node[fd].state = 0
        /\ pc = "login" => node[fd].state = 1
        /\ pc = "register" => node[fd].state = 2
        /\ pc = "action" => node[fd].state = 3
    BY <1>3, <1>6, <1>10, <1>12
  <2> QED
    BY <1>1, <1>4, <2>1, <2>2 DEF Serves
<1>8. pc \in Place /\ Stands(fd, pc)'
  BY <1>3, <1>4, <1>10 DEF Place, Stands
<1> QED
  BY <1>1, <1>5, <1>7, <1>8, <1>9, <1>11, ReadsOn

(* Main in the middle of an event: where it stands, and with which session. *)
LEMMA Reading ==
  ASSUME IInv, NEW fd \in Fd, NEW pc \in ServerPc, NEW kind, NEW v,
         Reads(fd, pc, kind, v)
  PROVE  /\ srv.fd = fd /\ srv.pc = pc /\ fd # None /\ Recv(fd, kind, v)
         /\ node[fd] # None /\ node[fd] \in Node /\ ~node[fd].queued
         /\ pc \in {"choice", "token"} => node[fd].state = 0
         /\ pc \in {"login", "name", "secret", "lastSecret"} => node[fd].state = 1
         /\ pc \in {"register", "newName", "newSalt", "newSecret"} =>
              node[fd].state = 2
         /\ pc \in {"action", "opened"} => node[fd].state = 3
         /\ node[fd].token => node[fd].state = 3
         /\ \A m : Stands(fd, m) =>
              m = pc \/ (m = "relogin" /\ pc = "login" /\ Named(fd))
         /\ pc \in {"secret", "lastSecret"} => Named(fd)
<1>1. /\ srv.fd = fd /\ srv.pc = pc /\ fd # None /\ Recv(fd, kind, v)
      /\ TypeOK /\ Serves /\ Fine(fd)
  BY DistinctAssumption DEF Reads, IInv
<1>2. /\ node[fd] # None /\ ~node[fd].queued
      /\ pc \in {"choice", "token"} => node[fd].state = 0
      /\ pc \in {"login", "name", "secret", "lastSecret"} => node[fd].state = 1
      /\ pc \in {"register", "newName", "newSalt", "newSecret"} =>
           node[fd].state = 2
      /\ pc \in {"action", "opened"} => node[fd].state = 3
  BY <1>1 DEF Serves
<1>3. node[fd] \in Node /\ (node[fd].token => node[fd].state = 3)
  BY <1>1, <1>2 DEF TypeOK, Fine, Tokens
<1>4. \A m : Stands(fd, m) =>
        \/ m = pc /\ (pc \in {"secret", "lastSecret"} => Named(fd))
        \/ m = "relogin" /\ pc = "login" /\ Named(fd)
  BY <1>1 DEF Stands
<1>5. pc \in {"secret", "lastSecret"} => Named(fd)
  <2>1. PICK m \in Place : Stands(fd, m)
    BY <1>1, Received
  <2> QED
    BY <1>4, <2>1
<1> QED
  BY <1>1, <1>2, <1>3, <1>4, <1>5

(* What main takes at each place of an event.                              *)
There(m, v, n) ==
  /\ m = "choice" => \/ v = "login" /\ n = "entering"
                     \/ v = "register" /\ n = "registering"
  /\ m = "login" => v = 1 /\ n = "name"
  /\ m = "relogin" => \/ v = 1 /\ n = "name"
                      \/ v = 2 /\ n = "secret"
                      \/ v = 3 /\ n = "lastSecret"
  /\ m = "name" => n = "salt"
  /\ m \in {"secret", "lastSecret"} => n = "judged"
  /\ m = "register" => (v = 1 /\ n = "newName") \/ (v = 2 /\ n = "newSalt")
  /\ m = "newName" => n = "exists"
  /\ m = "newSalt" => n = "newSecret"
  /\ m = "newSecret" => n = "fresh"
  /\ m = "action" => \/ v \in {"remove", "other"} /\ n = "done"
                     \/ v = "gets" /\ n = "transfer"
                     \/ v = "unknown" /\ n = "inside"
                     \/ v = "puts" /\ n = "opened"
  /\ m = "opened" => \/ v = TRUE /\ n = "transfer"
                     \/ v = FALSE /\ n = "inside"
  /\ m = "token" => n = "granted"

(* What main takes in the middle of an event fixes the value and the next  *)
(* place.                                                                  *)
LEMMA TakesThere ==
  ASSUME NEW kind, NEW v, NEW n, NEW m, Takes(m, <<kind, v>>, n)
  PROVE  There(m, v, n)
<1>1. /\ <<kind, v>>[1] = kind /\ <<kind, v>>[2] = v
      /\ \A k, w : <<kind, v>> = <<k, w>> => v = w
  OBVIOUS
<1> DEFINE x == <<kind, v>>
<1>2. Takes(m, x, n) /\ x[2] = v /\ \A k, w : x = <<k, w>> => v = w
  BY <1>1
<1> HIDE DEF x
<1>3. m = "choice" => \/ v = "login" /\ n = "entering"
                      \/ v = "register" /\ n = "registering"
  BY <1>2 DEF Takes, TakesHeader, TakesLogin, TakesRegister, TakesCommand
<1>4. /\ m = "login" => v = 1 /\ n = "name"
      /\ m = "relogin" => \/ v = 1 /\ n = "name"
                          \/ v = 2 /\ n = "secret"
                          \/ v = 3 /\ n = "lastSecret"
  BY <1>2 DEF Takes, TakesHeader, TakesLogin, TakesRegister, TakesCommand
<1>5. /\ m = "name" => n = "salt"
      /\ m \in {"secret", "lastSecret"} => n = "judged"
  BY <1>2 DEF Takes, TakesHeader, TakesLogin, TakesRegister, TakesCommand
<1>6. m = "register" => (v = 1 /\ n = "newName") \/ (v = 2 /\ n = "newSalt")
  BY <1>2 DEF Takes, TakesHeader, TakesLogin, TakesRegister, TakesCommand
<1>7. /\ m = "newName" => n = "exists"
      /\ m = "newSalt" => n = "newSecret"
      /\ m = "newSecret" => n = "fresh"
  BY <1>2 DEF Takes, TakesHeader, TakesLogin, TakesRegister, TakesCommand
<1>8. m = "action" => \/ v \in {"remove", "other"} /\ n = "done"
                      \/ v = "gets" /\ n = "transfer"
                      \/ v = "unknown" /\ n = "inside"
                      \/ v = "puts" /\ n = "opened"
  BY <1>2 DEF Takes, TakesHeader, TakesLogin, TakesRegister, TakesCommand
<1>9. m = "opened" => \/ v = TRUE /\ n = "transfer"
                      \/ v = FALSE /\ n = "inside"
  BY <1>2 DEF Takes, TakesHeader, TakesLogin, TakesRegister, TakesCommand
<1>10. m = "token" => n = "granted"
  BY <1>2 DEF Takes, TakesHeader, TakesLogin, TakesRegister, TakesCommand
<1> QED
  BY <1>3, <1>4, <1>5, <1>6, <1>7, <1>8, <1>9, <1>10 DEF There

(* The hash of a file, left in the buffer of MD5, is nobody's token.       *)
LEMMA FileHashIsNoToken == FileHash \notin Token
BY DEF FileHash, Token

(* A session that gains no token leaves Current true, whatever is in the   *)
(* buffer.                                                                 *)
LEMMA CurrentKept ==
  ASSUME IInv, NEW fd \in Fd, NEW u, node' = [node EXCEPT ![fd] = u],
         node[fd] # None, u.token => node[fd].token /\ u.absPath = node[fd].absPath,
         tok' = tok, md5' \in {md5, FileHash}
  PROVE  Current'
<1> SUFFICES ASSUME md5' \in Token, tok[md5'] # None, node'[tok[md5']] # None,
                    node'[tok[md5']].token
             PROVE  node'[tok[md5']].absPath = md5'[2]
  BY DEF Current
<1>1. TypeOK /\ Current /\ md5' = md5
  BY FileHashIsNoToken DEF IInv
<1>2. tok[md5] \in Fd
  BY <1>1 DEF TypeOK
<1>3. CASE tok[md5] = fd
  BY <1>1, <1>2, <1>3 DEF Current, TypeOK
<1>4. CASE tok[md5] # fd
  BY <1>1, <1>2, <1>4 DEF Current, TypeOK
<1> QED
  BY <1>3, <1>4

(* What main takes at pc is answered as it should be, or takes main on.    *)
From(pc, m) == m = pc \/ (m = "relogin" /\ pc = "login")

Gives(pc, kind, v, u, answers) ==
  \A m, n \in Place :
    From(pc, m) /\ Takes(m, <<kind, v>>, n) /\ v # None => Closes(u, answers, n)

Leads(pc, kind, v, next) ==
  \A m, n \in Place :
    From(pc, m) /\ Takes(m, <<kind, v>>, n) /\ v # None => n = next

(* The session makes no one a user.                                        *)
Quiet(fd, u) ==
  /\ ~u.queued
  /\ u.token => node[fd].token /\ u.absPath = node[fd].absPath /\ u.state = 3
  /\ u.state = 3 => node[fd].state = 3 /\ u.UserName = node[fd].UserName

RowsKept ==
  /\ UserInfo \subseteq UserInfo'
  /\ UserInfo' \subseteq (Name \cup {None}) \X (Person \cup {None})

(* Main finishes an event, and nobody becomes a user by it.                *)
LEMMA Keeps ==
  ASSUME IInv, NEW fd \in Fd, NEW pc \in ServerPc, NEW kind, NEW v,
         Reads(fd, pc, kind, v),
         NEW u \in Node, NEW answers \in Seq(Answer), Finish(fd, u, answers),
         RowsKept, tok' = tok, md5' \in {md5, FileHash}, fault' = fault,
         Quiet(fd, u), Gives(pc, kind, v, u, answers)
  PROVE  IInv'
<1>1. /\ srv.fd = fd /\ Recv(fd, kind, v) /\ node[fd] # None /\ node[fd] \in Node
      /\ \A m : Stands(fd, m) => From(pc, m)
  BY Reading DEF From
<1>2. TypeOK /\ Proved(fd)
  BY DEF IInv, Fine
<1>3. /\ tok' \in [Token -> Fd \cup {None}] /\ md5' \in Token \cup {FileHash, None}
  BY <1>2 DEF TypeOK
<1>4. Current'
  <2>1. node' = [node EXCEPT ![fd] = u]
    BY DEF Finish
  <2> QED
    BY <1>1, <2>1, CurrentKept DEF Quiet
<1>5. Honest(fd, u)
  BY DEF Honest, Quiet
<1>6. ~At(fd, "gone") /\ u.state = 3 =>
        <<u.UserName, client[fd].person>> \in UserInfo'
  BY <1>1, <1>2 DEF Proved, Quiet, RowsKept
<1>7. \A m, n \in Place :
        Stands(fd, m) /\ Takes(m, <<kind, v>>, n) /\ v # None
          /\ <<kind, v>> \in Item => Closes(u, answers, n)
  BY <1>1 DEF Gives
<1>8. /\ UserInfo \subseteq UserInfo'
      /\ UserInfo' \subseteq (Name \cup {None}) \X (Person \cup {None})
  BY DEF RowsKept
<1> QED
  BY <1>1, <1>3, <1>4, <1>5, <1>6, <1>7, <1>8, Finishes

(* Main gives up the connection it is reading from.                        *)
LEMMA Drops ==
  ASSUME IInv, NEW fd \in Fd, srv.fd = fd, Drop(fd),
         UNCHANGED <<UserInfo, tok, md5, fault>>
  PROVE  IInv'
<1>1. TypeOK /\ TearDown(fd) /\ srv' = Idle
  BY DEF IInv, Drop
<1>2. /\ UserInfo' = UserInfo /\ md5' = md5 /\ fault' = fault
      /\ tok' \in [Token -> Fd \cup {None}]
      /\ \A t \in Token : tok'[t] \in {tok[t], None}
  BY <1>1 DEF TypeOK
<1> QED
  BY <1>1, <1>2, TornDown

(* Main reads on, to a place in the same state of the session.             *)
Beside(pc, next, state) ==
  \/ state = 1 /\ pc = "login" /\ next \in {"name", "secret", "lastSecret"}
  \/ state = 2 /\ pc = "register" /\ next \in {"newName", "newSalt"}
  \/ state = 2 /\ pc = "newSalt" /\ next = "newSecret"
  \/ state = 3 /\ pc = "action" /\ next = "opened"

(* Main reads on within the same state of the session.                     *)
LEMMA Moves ==
  ASSUME IInv, NEW fd \in Fd, NEW pc \in ServerPc, NEW kind, NEW v,
         Reads(fd, pc, kind, v), NEW next \in ServerPc, ReadOn(fd, next),
         Beside(pc, next, node[fd].state),
         next \in {"secret", "lastSecret"} => Named(fd),
         Leads(pc, kind, v, next)
  PROVE  IInv'
<1>1. /\ srv.fd = fd /\ Recv(fd, kind, v) /\ node[fd] # None /\ ~node[fd].queued
      /\ \A m : Stands(fd, m) => From(pc, m)
      /\ fd # None
  BY Reading DEF From
<1>2. srv' = [pc |-> next, fd |-> fd] /\ node' = node
  BY DEF ReadOn
<1>3. srv'.pc = next /\ srv'.fd = fd
  BY <1>2
<1>4. next # "loop" /\ next \notin Owed /\ next \in Place
  BY DEF ServerPc, Owed, Place
<1>5. Serves'
  <2>1. /\ next \notin {"choice", "token", "login", "register", "action"}
        /\ next \in {"name", "secret", "lastSecret"} => node[fd].state = 1
        /\ next \in {"newName", "newSalt", "newSecret"} => node[fd].state = 2
        /\ next = "opened" => node[fd].state = 3
    BY DEF Beside
  <2> QED
    BY <1>1, <1>2, <1>3, <1>4, <2>1 DEF Serves
<1>6. Stands(fd, next)'
  BY <1>2, <1>3 DEF Stands, Named
<1>7. \A m, n \in Place :
        Stands(fd, m) /\ Takes(m, <<kind, v>>, n) /\ v # None
          /\ <<kind, v>> \in Item => n \notin Owed /\ Stands(fd, n)'
  BY <1>1, <1>4, <1>6 DEF Leads
<1> QED
  BY <1>1, <1>4, <1>5, <1>6, <1>7, ReadsOn

(* A session, but for its state or its name.                               *)
LEMMA Restated ==
  ASSUME NEW w \in Node, NEW k \in 0 .. 3
  PROVE  \E u \in Node :
           /\ u = [w EXCEPT !.state = k]
           /\ u.state = k /\ u.UserName = w.UserName /\ u.absPath = w.absPath
           /\ u.token = w.token /\ u.queued = w.queued
<1> DEFINE u == [w EXCEPT !.state = k]
<1>1. u \in Node
  BY DEF Node
<1>2. /\ u.state = k /\ u.UserName = w.UserName /\ u.absPath = w.absPath
      /\ u.token = w.token /\ u.queued = w.queued
  BY DEF Node
<1> HIDE DEF u
<1> QED
  BY <1>1, <1>2 DEF u

(* A session, but for its name.                                            *)
LEMMA Renamed ==
  ASSUME NEW w \in Node, NEW n \in Name \cup {None}
  PROVE  \E u \in Node :
           /\ u = [w EXCEPT !.UserName = n]
           /\ u.state = w.state /\ u.UserName = n /\ u.absPath = w.absPath
           /\ u.token = w.token /\ u.queued = w.queued
<1> DEFINE u == [w EXCEPT !.UserName = n]
<1>1. u \in Node
  BY DEF Node
<1>2. /\ u.state = w.state /\ u.UserName = n /\ u.absPath = w.absPath
      /\ u.token = w.token /\ u.queued = w.queued
  BY DEF Node
<1> HIDE DEF u
<1> QED
  BY <1>1, <1>2 DEF u

(* One answer.                                                             *)
LEMMA OneAnswer ==
  ASSUME NEW kind, NEW v, <<kind, v>> \in Answer
  PROVE  \E a \in Seq(Answer) : /\ a = <<<<kind, v>>>> /\ Len(a) = 1
                                /\ a[1] = <<kind, v>> /\ a[1][1] = kind
<1>1. <<kind, v>>[1] = kind
  OBVIOUS
<1>2. PICK x \in Answer : x = <<kind, v>> /\ x[1] = kind
  BY <1>1
<1>3. <<x>> \in Seq(Answer) /\ Len(<<x>>) = 1 /\ <<x>>[1] = x
  OBVIOUS
<1> QED
  BY <1>2, <1>3

(* ReadChoice keeps it: login, register, or the end (main.cpp:129-143).    *)
LEMMA ReadChoiceIInv ==
  ASSUME IInv, NEW fd \in Fd, ReadChoice(fd)
  PROVE  IInv'
<1>1. PICK c \in {"login", "register", None} :
        /\ Reads(fd, "choice", "choice", c)
        /\ IF c = None THEN Drop(fd)
           ELSE Finish(fd, [node[fd] EXCEPT !.state = IF c = "login" THEN 1 ELSE 2],
                       << >>)
        /\ UNCHANGED <<dataVars, fault>>
  BY DEF ReadChoice
<1>7. UNCHANGED <<UserInfo, tok, md5, fault>>
  BY <1>1 DEF dataVars
<1>2. PICK pc \in ServerPc : pc = "choice"
  BY DEF ServerPc
<1>3. Reads(fd, pc, "choice", c)
  BY <1>1, <1>2
<1>4. /\ srv.fd = fd /\ node[fd] \in Node /\ ~node[fd].queued
      /\ node[fd].state = 0 /\ ~node[fd].token
  <2>1. /\ srv.fd = fd /\ node[fd] \in Node /\ ~node[fd].queued
        /\ pc \in {"choice", "token"} => node[fd].state = 0
        /\ node[fd].token => node[fd].state = 3
    BY <1>3, Reading
  <2> QED
    BY <1>2, <2>1
<1>5. CASE c = None
  BY <1>1, <1>4, <1>5, <1>7, Drops
<1>6. CASE c # None
  <2> DEFINE k == IF c = "login" THEN 1 ELSE 2
  <2>1. k \in 0 .. 3 /\ (c = "login" => k = 1) /\ (c # "login" => k = 2)
    OBVIOUS
  <2>2. Finish(fd, [node[fd] EXCEPT !.state = k], << >>)
    BY <1>1, <1>6
  <2> HIDE DEF k
  <2>3. PICK w \in Node : w = node[fd]
    BY <1>4
  <2>4. PICK u \in Node : /\ u = [w EXCEPT !.state = k] /\ u.state = k
                          /\ u.token = w.token /\ u.queued = w.queued
    BY <2>1, Restated
  <2>5. PICK a \in Seq(Answer) : a = << >>
    BY EmptySeq
  <2>6. Finish(fd, u, a)
    BY <2>2, <2>3, <2>4, <2>5
  <2>7. Quiet(fd, u)
    BY <1>4, <2>1, <2>3, <2>4 DEF Quiet
  <2>8. Gives(pc, "choice", c, u, a)
    <3> SUFFICES ASSUME NEW m \in Place, NEW n \in Place, m = "choice",
                        Takes(m, <<"choice", c>>, n)
                 PROVE  Closes(u, a, n)
      BY <1>2 DEF Gives, From
    <3>1. \/ c = "login" /\ n = "entering"
          \/ c = "register" /\ n = "registering"
      <4>1. There(m, c, n)
        BY TakesThere
      <4> QED
        BY <4>1 DEF There
    <3> QED
      BY <2>1, <2>4, <2>5, <3>1, Restings DEF Closes, Rests, Owed
  <2>9. /\ RowsKept /\ tok' = tok /\ md5' \in {md5, FileHash} /\ fault' = fault
    BY <1>7 DEF RowsKept, IInv, TypeOK
  <2> QED
    BY <1>3, <2>6, <2>7, <2>8, <2>9, Keeps
<1> QED
  BY <1>5, <1>6

(* ReadRegister keeps it: the step of a registration (main.cpp:156-167).   *)
LEMMA ReadRegisterIInv ==
  ASSUME IInv, NEW fd \in Fd, ReadRegister(fd)
  PROVE  IInv'
<1>1. PICK k \in {1, 2, None} :
        /\ Reads(fd, "register", "step", k)
        /\ IF k = None THEN Drop(fd) /\ UNCHANGED <<UserInfo, tok, md5, fault>>
           ELSE ReadOn(fd, IF k = 1 THEN "newName" ELSE "newSalt")
  BY DEF ReadRegister, dataVars
<1>2. PICK pc \in ServerPc : pc = "register"
  BY DEF ServerPc
<1>3. Reads(fd, pc, "step", k)
  BY <1>1, <1>2
<1>4. srv.fd = fd /\ node[fd].state = 2
  <2>1. /\ srv.fd = fd
        /\ pc \in {"register", "newName", "newSalt", "newSecret"} =>
             node[fd].state = 2
    BY <1>3, Reading
  <2> QED
    BY <1>2, <2>1
<1>5. CASE k = None
  BY <1>1, <1>4, <1>5, Drops
<1>6. CASE k # None
  <2>1. PICK next \in ServerPc : next = IF k = 1 THEN "newName" ELSE "newSalt"
    BY DEF ServerPc
  <2>2. ReadOn(fd, next)
    BY <1>1, <1>6, <2>1
  <2>3. /\ Beside(pc, next, node[fd].state)
        /\ next \notin {"secret", "lastSecret"}
    BY <1>2, <1>4, <2>1 DEF Beside
  <2>4. Leads(pc, "step", k, next)
    <3> SUFFICES ASSUME NEW m \in Place, NEW n \in Place, m = "register",
                        Takes(m, <<"step", k>>, n)
                 PROVE  n = next
      BY <1>2 DEF Leads, From
    <3>1. (k = 1 /\ n = "newName") \/ (k = 2 /\ n = "newSalt")
      <4>1. There(m, k, n)
        BY TakesThere
      <4> QED
        BY <4>1 DEF There
    <3> QED
      BY <2>1, <3>1
  <2> QED
    BY <1>3, <2>2, <2>3, <2>4, Moves
<1> QED
  BY <1>5, <1>6

(* RegisterName keeps it: either answer leaves the state as it is          *)
(* (main.cpp:588-599).                                                     *)
LEMMA RegisterNameIInv ==
  ASSUME IInv, NEW fd \in Fd, RegisterName(fd)
  PROVE  IInv'
<1>1. PICK n \in Name \cup {None}, exists \in BOOLEAN :
        /\ Reads(fd, "newName", "name", n)
        /\ Finish(fd, IF exists THEN node[fd] ELSE [node[fd] EXCEPT !.UserName = n],
                  <<<<"exists", exists>>>>)
        /\ UNCHANGED <<UserInfo, tok, md5, fault>>
  BY DEF RegisterName, dataVars
<1>2. PICK pc \in ServerPc : pc = "newName"
  BY DEF ServerPc
<1>3. Reads(fd, pc, "name", n)
  BY <1>1, <1>2
<1>4. /\ node[fd] \in Node /\ ~node[fd].queued
      /\ node[fd].state = 2 /\ ~node[fd].token
  <2>1. /\ node[fd] \in Node /\ ~node[fd].queued
        /\ pc \in {"register", "newName", "newSalt", "newSecret"} =>
             node[fd].state = 2
        /\ node[fd].token => node[fd].state = 3
    BY <1>3, Reading
  <2> QED
    BY <1>2, <2>1
<1>5. PICK w \in Node : w = node[fd]
  BY <1>4
<1>6. PICK u \in Node : /\ u = IF exists THEN w ELSE [w EXCEPT !.UserName = n]
                        /\ u.state = w.state
                        /\ u.token = w.token /\ u.queued = w.queued
  <2>1. PICK x \in Node : /\ x = [w EXCEPT !.UserName = n] /\ x.state = w.state
                          /\ x.token = w.token /\ x.queued = w.queued
    BY Renamed
  <2>2. CASE exists
    BY <2>2
  <2>3. CASE ~exists
    BY <2>1, <2>3
  <2> QED
    BY <2>2, <2>3
<1>7. PICK a \in Seq(Answer) :
        a = <<<<"exists", exists>>>> /\ Len(a) = 1 /\ a[1][1] = "exists"
  <2>1. <<"exists", exists>> \in Answer
    BY DEF Answer
  <2> QED
    BY <2>1, OneAnswer
<1>8. Finish(fd, u, a)
  BY <1>1, <1>5, <1>6, <1>7
<1>9. Quiet(fd, u)
  BY <1>4, <1>5, <1>6 DEF Quiet
<1>10. Gives(pc, "name", n, u, a)
  <2> SUFFICES ASSUME NEW m \in Place, NEW o \in Place, m = "newName",
                      Takes(m, <<"name", n>>, o)
               PROVE  Closes(u, a, o)
    BY <1>2 DEF Gives, From
  <2>1. o = "exists"
    <3>1. There(m, n, o)
      BY TakesThere
    <3> QED
      BY <3>1 DEF There
  <2>2. Rests(u, "registering") /\ After("exists") = "registering"
    BY <1>4, <1>5, <1>6, Restings DEF Rests, After
  <2>3. "exists" \in Owed /\ "exists" \in Answers("exists")
    BY DEF Owed, Answers
  <2> QED
    BY <1>7, <2>1, <2>2, <2>3 DEF Closes
<1>11. /\ RowsKept /\ tok' = tok /\ md5' \in {md5, FileHash} /\ fault' = fault
  BY <1>1 DEF RowsKept, IInv, TypeOK
<1> QED
  BY <1>3, <1>8, <1>9, <1>10, <1>11, Keeps

(* RegisterSalt keeps it, if recv_n fails as well (main.cpp:600-602).      *)
LEMMA RegisterSaltIInv ==
  ASSUME IInv, NEW fd \in Fd, RegisterSalt(fd)
  PROVE  IInv'
<1>1. PICK v \in {"salt", None} :
        Reads(fd, "newSalt", "salt", v) /\ ReadOn(fd, "newSecret")
  BY DEF RegisterSalt
<1>2. PICK pc \in ServerPc : pc = "newSalt"
  BY DEF ServerPc
<1>3. PICK next \in ServerPc : next = "newSecret"
  BY DEF ServerPc
<1>4. Reads(fd, pc, "salt", v) /\ ReadOn(fd, next)
  BY <1>1, <1>2, <1>3
<1>5. node[fd].state = 2
  <2>1. pc \in {"register", "newName", "newSalt", "newSecret"} => node[fd].state = 2
    BY <1>4, Reading
  <2> QED
    BY <1>2, <2>1
<1>6. Beside(pc, next, node[fd].state) /\ next \notin {"secret", "lastSecret"}
  BY <1>2, <1>3, <1>5 DEF Beside
<1>7. Leads(pc, "salt", v, next)
  <2> SUFFICES ASSUME NEW m \in Place, NEW n \in Place, m = "newSalt",
                      Takes(m, <<"salt", v>>, n)
               PROVE  n = next
    BY <1>2 DEF Leads, From
  <2>1. There(m, v, n)
    BY TakesThere
  <2> QED
    BY <1>3, <2>1 DEF There
<1> QED
  BY <1>4, <1>6, <1>7, Moves

(* RegisterSecret keeps it: the table may grow by a row, by one of empty   *)
(* strings even (main.cpp:603-618).                                        *)
LEMMA RegisterSecretIInv ==
  ASSUME IInv, NEW fd \in Fd, RegisterSecret(fd)
  PROVE  IInv'
<1>1. PICK secret \in Person \cup {None} :
        /\ Reads(fd, "newSecret", "secret", secret)
        /\ \/ UserInfo' = UserInfo \cup {<<node[fd].UserName, secret>>}
           \/ UserInfo' = UserInfo
        /\ Finish(fd, [node[fd] EXCEPT !.state = 0], << >>)
        /\ UNCHANGED <<tok, md5, fault>>
  BY DEF RegisterSecret
<1>2. PICK pc \in ServerPc : pc = "newSecret"
  BY DEF ServerPc
<1>3. Reads(fd, pc, "secret", secret)
  BY <1>1, <1>2
<1>4. /\ node[fd] \in Node /\ ~node[fd].queued
      /\ node[fd].state = 2 /\ ~node[fd].token
  <2>1. /\ node[fd] \in Node /\ ~node[fd].queued
        /\ pc \in {"register", "newName", "newSalt", "newSecret"} =>
             node[fd].state = 2
        /\ node[fd].token => node[fd].state = 3
    BY <1>3, Reading
  <2> QED
    BY <1>2, <2>1
<1>5. PICK w \in Node : w = node[fd]
  BY <1>4
<1>6. PICK u \in Node : /\ u = [w EXCEPT !.state = 0] /\ u.state = 0
                        /\ u.token = w.token /\ u.queued = w.queued
  BY Restated
<1>7. PICK a \in Seq(Answer) : a = << >>
  BY EmptySeq
<1>8. Finish(fd, u, a)
  BY <1>1, <1>5, <1>6, <1>7
<1>9. Quiet(fd, u)
  BY <1>4, <1>5, <1>6 DEF Quiet
<1>10. Gives(pc, "secret", secret, u, a)
  <2> SUFFICES ASSUME NEW m \in Place, NEW n \in Place, m = "newSecret",
                      Takes(m, <<"secret", secret>>, n)
               PROVE  Closes(u, a, n)
    BY <1>2 DEF Gives, From
  <2>1. n = "fresh"
    <3>1. There(m, secret, n)
      BY TakesThere
    <3> QED
      BY <3>1 DEF There
  <2> QED
    BY <1>6, <1>7, <2>1, Restings DEF Closes, Rests, Owed
<1>11. RowsKept
  <2>1. UserInfo \subseteq (Name \cup {None}) \X (Person \cup {None})
    BY DEF IInv, TypeOK
  <2>2. <<node[fd].UserName, secret>> \in (Name \cup {None}) \X (Person \cup {None})
    BY <1>4 DEF Node
  <2> QED
    BY <1>1, <2>1, <2>2 DEF RowsKept
<1>12. tok' = tok /\ md5' \in {md5, FileHash} /\ fault' = fault
  BY <1>1
<1> QED
  BY <1>3, <1>8, <1>9, <1>10, <1>11, <1>12, Keeps

(* ReadLogin keeps it: steps 2 and 3 come only once main knows the name    *)
(* (main.cpp:144-155).                                                     *)
LEMMA ReadLoginIInv ==
  ASSUME IInv, NEW fd \in Fd, ReadLogin(fd)
  PROVE  IInv'
<1>1. PICK k \in {1, 2, 3, None} :
        /\ Reads(fd, "login", "step", k)
        /\ IF k = None THEN Drop(fd) /\ UNCHANGED <<UserInfo, tok, md5, fault>>
           ELSE ReadOn(fd, CASE k = 1 -> "name" [] k = 2 -> "secret"
                             [] k = 3 -> "lastSecret")
  BY DEF ReadLogin, dataVars
<1>2. PICK pc \in ServerPc : pc = "login"
  BY DEF ServerPc
<1>3. Reads(fd, pc, "step", k)
  BY <1>1, <1>2
<1>4. /\ srv.fd = fd /\ node[fd].state = 1
      /\ \A m : Stands(fd, m) => m = "login" \/ (m = "relogin" /\ Named(fd))
  <2>1. /\ srv.fd = fd
        /\ pc \in {"login", "name", "secret", "lastSecret"} => node[fd].state = 1
        /\ \A m : Stands(fd, m) =>
             m = pc \/ (m = "relogin" /\ pc = "login" /\ Named(fd))
    BY <1>3, Reading
  <2> QED
    BY <1>2, <2>1
<1>5. CASE k = None
  BY <1>1, <1>4, <1>5, Drops
<1>6. CASE k # None
  <2> DEFINE goal == CASE k = 1 -> "name" [] k = 2 -> "secret"
                       [] k = 3 -> "lastSecret"
  <2>1. \/ k = 1 /\ goal = "name"
        \/ k = 2 /\ goal = "secret"
        \/ k = 3 /\ goal = "lastSecret"
    BY <1>6
  <2>2. ReadOn(fd, goal)
    BY <1>1, <1>6
  <2> HIDE DEF goal
  <2>3. PICK next \in ServerPc : next = goal
    BY <2>1 DEF ServerPc
  <2>4. ReadOn(fd, next)
    BY <2>2, <2>3
  <2>5. Beside(pc, next, node[fd].state)
    BY <1>2, <1>4, <2>1, <2>3 DEF Beside
  <2>6. next \in {"secret", "lastSecret"} => Named(fd)
    <3>1. Recv(fd, "step", k)
      BY <1>3, Reading
    <3>2. PICK m \in Place, n \in Place : Stands(fd, m) /\ Takes(m, <<"step", k>>, n)
      BY <1>6, <3>1, Received
    <3>3. m = "login" => k = 1
      <4>1. There(m, k, n)
        BY <3>2, TakesThere
      <4> QED
        BY <4>1 DEF There
    <3> QED
      BY <1>4, <2>1, <2>3, <3>2, <3>3
  <2>7. Leads(pc, "step", k, next)
    <3> SUFFICES ASSUME NEW m \in Place, NEW n \in Place,
                        m = "login" \/ m = "relogin", Takes(m, <<"step", k>>, n)
                 PROVE  n = next
      BY <1>2 DEF Leads, From
    <3>1. \/ k = 1 /\ n = "name"
          \/ k = 2 /\ n = "secret"
          \/ k = 3 /\ n = "lastSecret"
      <4>1. There(m, k, n)
        BY TakesThere
      <4> QED
        BY <4>1 DEF There
    <3> QED
      BY <2>1, <2>3, <3>1
  <2> QED
    BY <1>3, <2>4, <2>5, <2>6, <2>7, Moves
<1> QED
  BY <1>5, <1>6

(* LoginName keeps it: from here on the session is a named one             *)
(* (main.cpp:630-643).                                                     *)
LEMMA LoginNameIInv ==
  ASSUME IInv, NEW fd \in Fd, LoginName(fd)
  PROVE  IInv'
<1>1. PICK n \in Name \cup {None} :
        /\ Reads(fd, "name", "name", n)
        /\ Finish(fd, [node[fd] EXCEPT !.UserName = n], <<<<"salt", "salt">>>>)
        /\ UNCHANGED <<UserInfo, tok, md5, fault>>
  BY DEF LoginName, dataVars
<1>2. PICK pc \in ServerPc : pc = "name"
  BY DEF ServerPc
<1>3. Reads(fd, pc, "name", n)
  BY <1>1, <1>2
<1>4. /\ node[fd] \in Node /\ ~node[fd].queued
      /\ node[fd].state = 1 /\ ~node[fd].token
  <2>1. /\ node[fd] \in Node /\ ~node[fd].queued
        /\ pc \in {"login", "name", "secret", "lastSecret"} => node[fd].state = 1
        /\ node[fd].token => node[fd].state = 3
    BY <1>3, Reading
  <2> QED
    BY <1>2, <2>1
<1>5. PICK w \in Node : w = node[fd]
  BY <1>4
<1>6. PICK u \in Node : /\ u = [w EXCEPT !.UserName = n]
                        /\ u.state = w.state /\ u.UserName = n
                        /\ u.token = w.token /\ u.queued = w.queued
  BY Renamed
<1>7. PICK a \in Seq(Answer) :
        a = <<<<"salt", "salt">>>> /\ Len(a) = 1 /\ a[1][1] = "salt"
  <2>1. <<"salt", "salt">> \in Answer
    BY DEF Answer
  <2> QED
    BY <2>1, OneAnswer
<1>8. Finish(fd, u, a)
  BY <1>1, <1>5, <1>6, <1>7
<1>9. Quiet(fd, u)
  BY <1>4, <1>5, <1>6 DEF Quiet
<1>10. Gives(pc, "name", n, u, a)
  <2> SUFFICES ASSUME NEW m \in Place, NEW o \in Place, m = "name", n # None,
                      Takes(m, <<"name", n>>, o)
               PROVE  Closes(u, a, o)
    BY <1>2 DEF Gives, From
  <2>1. o = "salt"
    <3>1. There(m, n, o)
      BY TakesThere
    <3> QED
      BY <3>1 DEF There
  <2>2. Rests(u, "named") /\ After("salt") = "named"
    BY <1>4, <1>5, <1>6 DEF Rests, After
  <2>3. "salt" \in Owed /\ "salt" \in Answers("salt")
    BY DEF Owed, Answers
  <2> QED
    BY <1>7, <2>1, <2>2, <2>3 DEF Closes
<1>11. /\ RowsKept /\ tok' = tok /\ md5' \in {md5, FileHash} /\ fault' = fault
  BY <1>1 DEF RowsKept, IInv, TypeOK
<1> QED
  BY <1>3, <1>8, <1>9, <1>10, <1>11, Keeps

(* An event that leaves the session as it is.                              *)
LEMMA Stays ==
  ASSUME IInv, NEW fd \in Fd, NEW pc \in ServerPc, NEW kind, NEW v,
         Reads(fd, pc, kind, v),
         NEW answers \in Seq(Answer), Finish(fd, node[fd], answers),
         UserInfo' = UserInfo, tok' = tok, md5' \in {md5, FileHash}, fault' = fault,
         Gives(pc, kind, v, node[fd], answers)
  PROVE  IInv'
<1>1. node[fd] \in Node /\ ~node[fd].queued /\ (node[fd].token => node[fd].state = 3)
  BY Reading
<1>2. PICK u \in Node : u = node[fd]
  BY <1>1
<1>3. Quiet(fd, u)
  BY <1>1, <1>2 DEF Quiet
<1>4. Finish(fd, u, answers) /\ Gives(pc, kind, v, u, answers)
  BY <1>2
<1>5. RowsKept
  BY DEF RowsKept, IInv, TypeOK
<1> QED
  BY <1>3, <1>4, <1>5, Keeps

(* LogOut keeps it: the entry of tok that goes is anybody's                *)
(* (main.cpp:168-181).                                                     *)
LEMMA LogOutIInv ==
  ASSUME IInv, NEW fd \in Fd, LogOut(fd)
  PROVE  IInv'
<1>1. /\ Reads(fd, "action", "command", None) /\ TearDown(fd) /\ srv' = Idle
      /\ tok' = [t \in Token |-> IF t = md5 THEN None ELSE tok[t]]
      /\ UserInfo' = UserInfo /\ md5' = md5 /\ fault' = fault
  BY DEF LogOut, Drop
<1>2. PICK pc \in ServerPc : pc = "action"
  BY DEF ServerPc
<1>3. Reads(fd, pc, "command", None)
  BY <1>1, <1>2
<1>4. srv.fd = fd
  BY <1>3, Reading
<1>5. /\ tok' \in [Token -> Fd \cup {None}]
      /\ \A t \in Token : tok'[t] \in {tok[t], None}
  BY <1>1 DEF IInv, TypeOK
<1> QED
  BY <1>1, <1>4, <1>5, TornDown

(* Commands that get an answer, and the answers.                           *)
LEMMA Replies ==
  ASSUME NEW fd \in Fd, node[fd].state = 3, NEW pc, pc # "login", NEW v,
         NEW kind \in {"done", "transfer"}, NEW ok \in BOOLEAN,
         NEW by,
         \A n : There(pc, v, n) /\ v # None => n = kind
  PROVE  \E a \in Seq(Answer) : /\ a = <<<<kind, ok>>>>
                                /\ Gives(pc, by, v, node[fd], a)
<1>1. PICK a \in Seq(Answer) :
        a = <<<<kind, ok>>>> /\ Len(a) = 1 /\ a[1][1] = kind
  <2>1. <<kind, ok>> \in Answer
    BY DEF Answer
  <2> QED
    BY <2>1, OneAnswer
<1>2. Gives(pc, by, v, node[fd], a)
  <2> SUFFICES ASSUME NEW n \in Place, Takes(pc, <<by, v>>, n), v # None
               PROVE  Closes(node[fd], a, n)
    BY DEF Gives, From
  <2>1. There(pc, v, n)
    BY TakesThere
  <2>2. n = kind
    BY <2>1
  <2>3. Rests(node[fd], "inside") /\ After(kind) = "inside"
    BY Restings DEF Rests, After
  <2>4. kind \in Owed /\ kind \in Answers(kind)
    BY DEF Owed, Answers
  <2> QED
    BY <1>1, <2>2, <2>3, <2>4 DEF Closes
<1> QED
  BY <1>1, <1>2

(* Commands that get none.                                                 *)
LEMMA Silent ==
  ASSUME NEW fd \in Fd, node[fd].state = 3, NEW pc, pc # "login", NEW v, NEW by,
         \A n : There(pc, v, n) /\ v # None => n = "inside"
  PROVE  \E a \in Seq(Answer) : a = << >> /\ Gives(pc, by, v, node[fd], a)
<1>1. PICK a \in Seq(Answer) : a = << >>
  BY EmptySeq
<1>2. Gives(pc, by, v, node[fd], a)
  <2> SUFFICES ASSUME NEW n \in Place, Takes(pc, <<by, v>>, n), v # None
               PROVE  Closes(node[fd], a, n)
    BY DEF Gives, From
  <2>1. There(pc, v, n)
    BY TakesThere
  <2> QED
    BY <1>1, <2>1, Restings DEF Closes, Rests, Owed
<1> QED
  BY <1>1, <1>2

(* Action keeps it: the commands, with and without an answer               *)
(* (main.cpp:259-460).                                                     *)
LEMMA ActionIInv ==
  ASSUME IInv, NEW fd \in Fd, Action(fd)
  PROVE  IInv'
<1>1. PICK pc \in ServerPc : pc = "action"
  BY DEF ServerPc
<1>2. ASSUME NEW c, Reads(fd, pc, "command", c)
      PROVE  node[fd].state = 3
  <2>1. pc \in {"action", "opened"} => node[fd].state = 3
    BY <1>2, Reading
  <2> QED
    BY <1>1, <2>1
<1>3. ASSUME NEW c \in {"remove", "other"}, NEW ok \in BOOLEAN,
             Reads(fd, pc, "command", c), md5' \in {md5, FileHash},
             Finish(fd, node[fd], <<<<"done", ok>>>>),
             UNCHANGED <<UserInfo, tok, fault>>
      PROVE  IInv'
  <2>1. PICK kind \in {"done", "transfer"} : kind = "done"
    OBVIOUS
  <2>2. \A n : There(pc, c, n) /\ c # None => n = kind
    BY <1>1, <2>1 DEF There
  <2>3. PICK a \in Seq(Answer) : /\ a = <<<<kind, ok>>>>
                                 /\ Gives(pc, "command", c, node[fd], a)
    BY <1>1, <1>2, <1>3, <2>2, Replies
  <2>4. Finish(fd, node[fd], a)
    BY <1>3, <2>1, <2>3
  <2> QED
    BY <1>3, <2>3, <2>4, Stays
<1>4. ASSUME NEW ok \in BOOLEAN, Reads(fd, pc, "command", "gets"),
             Finish(fd, node[fd], <<<<"transfer", ok>>>>),
             UNCHANGED <<UserInfo, tok, md5, fault>>
      PROVE  IInv'
  <2>1. PICK kind \in {"done", "transfer"} : kind = "transfer"
    OBVIOUS
  <2>2. \A n : There(pc, "gets", n) => n = kind
    BY <1>1, <2>1 DEF There
  <2>3. PICK a \in Seq(Answer) : /\ a = <<<<kind, ok>>>>
                                 /\ Gives(pc, "command", "gets", node[fd], a)
    BY <1>1, <1>2, <1>4, <2>2, Replies
  <2>4. Finish(fd, node[fd], a)
    BY <1>4, <2>1, <2>3
  <2> QED
    BY <1>4, <2>3, <2>4, Stays
<1>5. ASSUME Reads(fd, pc, "command", "puts"), ReadOn(fd, "opened")
      PROVE  IInv'
  <2>1. PICK next \in ServerPc : next = "opened"
    BY DEF ServerPc
  <2>2. Beside(pc, next, node[fd].state) /\ next \notin {"secret", "lastSecret"}
    BY <1>1, <1>2, <1>5, <2>1 DEF Beside
  <2>3. Leads(pc, "command", "puts", next)
    <3> SUFFICES ASSUME NEW m \in Place, NEW n \in Place, m = pc,
                        Takes(m, <<"command", "puts">>, n)
                 PROVE  n = next
      BY <1>1 DEF Leads, From
    <3>1. There(m, "puts", n)
      BY TakesThere
    <3> QED
      BY <1>1, <2>1, <3>1 DEF There
  <2> QED
    BY <1>5, <2>1, <2>2, <2>3, Moves
<1>6. ASSUME Reads(fd, pc, "command", "unknown"), Finish(fd, node[fd], << >>),
             UNCHANGED <<UserInfo, tok, md5, fault>>
      PROVE  IInv'
  <2>1. \A n : There(pc, "unknown", n) => n = "inside"
    BY <1>1 DEF There
  <2>2. PICK a \in Seq(Answer) :
          a = << >> /\ Gives(pc, "command", "unknown", node[fd], a)
    BY <1>1, <1>2, <1>6, <2>1, Silent
  <2>3. Finish(fd, node[fd], a)
    BY <1>6, <2>2
  <2> QED
    BY <1>6, <2>2, <2>3, Stays
<1> QED
  BY <1>1, <1>3, <1>4, <1>5, <1>6 DEF Action, dataVars

(* Puts keeps it: an answer only if the client has the file                *)
(* (main.cpp:345-361).                                                     *)
LEMMA PutsIInv ==
  ASSUME IInv, NEW fd \in Fd, Puts(fd)
  PROVE  IInv'
<1>1. PICK opened \in {TRUE, FALSE, None}, ok \in BOOLEAN :
        /\ Reads(fd, "opened", "opened", opened)
        /\ Finish(fd, node[fd],
                  IF opened = FALSE THEN << >> ELSE <<<<"transfer", ok>>>>)
        /\ UNCHANGED <<UserInfo, tok, md5, fault>>
  BY DEF Puts, dataVars
<1>2. PICK pc \in ServerPc : pc = "opened"
  BY DEF ServerPc
<1>3. Reads(fd, pc, "opened", opened)
  BY <1>1, <1>2
<1>4. node[fd].state = 3
  <2>1. pc \in {"action", "opened"} => node[fd].state = 3
    BY <1>3, Reading
  <2> QED
    BY <1>2, <2>1
<1>5. CASE opened = FALSE
  <2>1. \A n : There(pc, opened, n) => n = "inside"
    BY <1>2, <1>5 DEF There
  <2>2. PICK a \in Seq(Answer) :
          a = << >> /\ Gives(pc, "opened", opened, node[fd], a)
    BY <1>2, <1>4, <2>1, Silent
  <2>3. Finish(fd, node[fd], a)
    BY <1>1, <1>5, <2>2
  <2> QED
    BY <1>1, <1>3, <2>2, <2>3, Stays
<1>6. CASE opened # FALSE
  <2>1. PICK kind \in {"done", "transfer"} : kind = "transfer"
    OBVIOUS
  <2>2. \A n : There(pc, opened, n) /\ opened # None => n = kind
    BY <1>2, <1>6, <2>1 DEF There
  <2>3. PICK a \in Seq(Answer) : /\ a = <<<<kind, ok>>>>
                                 /\ Gives(pc, "opened", opened, node[fd], a)
    BY <1>2, <1>4, <2>2, Replies
  <2>4. Finish(fd, node[fd], a)
    BY <1>1, <1>6, <2>1, <2>3
  <2> QED
    BY <1>1, <1>3, <2>3, <2>4, Stays
<1> QED
  BY <1>5, <1>6

(* The password that main reads is the client's own, or a wrong one.       *)
LEMMA OwnSecret ==
  ASSUME IInv, NEW fd \in Fd, ~At(fd, "gone"), NEW v, Recv(fd, "secret", v)
  PROVE  v \in {client[fd].person, Wrong}
<1>1. chan[fd] \in Seq(Item) /\ chan[fd] # << >> /\ Head(chan[fd]) = <<"secret", v>>
  BY DEF IInv, TypeOK, Recv
<1>2. Len(chan[fd]) >= 1 /\ Head(chan[fd]) = chan[fd][1] /\ Len(chan[fd]) \in Nat
  BY <1>1
<1>3. <<"secret", v>>[1] = "secret" /\ <<"secret", v>>[2] = v
  OBVIOUS
<1>4. chan[fd][1][1] = "secret" /\ chan[fd][1][2] = v /\ 1 \in 1 .. Len(chan[fd])
  BY <1>1, <1>2, <1>3
<1> QED
  BY <1>4 DEF IInv, Fine, Meant

(* A token that main reads is the client's own.                            *)
LEMMA OwnToken ==
  ASSUME IInv, NEW fd \in Fd, ~At(fd, "gone"), NEW v, Recv(fd, "token", v)
  PROVE  At(fd, "data") /\ v = client[fd].token
<1>1. chan[fd] \in Seq(Item) /\ chan[fd] # << >> /\ Head(chan[fd]) = <<"token", v>>
  BY DEF IInv, TypeOK, Recv
<1>2. Len(chan[fd]) >= 1 /\ Head(chan[fd]) = chan[fd][1] /\ Len(chan[fd]) \in Nat
  BY <1>1
<1>3. <<"token", v>>[1] = "token" /\ <<"token", v>>[2] = v
  OBVIOUS
<1>4. chan[fd][1][1] = "token" /\ chan[fd][1][2] = v /\ 1 \in 1 .. Len(chan[fd])
  BY <1>1, <1>2, <1>3
<1> QED
  BY <1>4 DEF IInv, Fine, Meant

(* The session of a data connection that a worker gets.                    *)
LEMMA Handed ==
  ASSUME NEW w \in Node, NEW p \in Name \cup {None}
  PROVE  \E u \in Node :
           /\ u = [w EXCEPT !.absPath = p, !.queued = TRUE]
           /\ u.state = w.state /\ u.UserName = w.UserName /\ u.absPath = p
           /\ u.token = w.token /\ u.queued
<1> DEFINE u == [w EXCEPT !.absPath = p, !.queued = TRUE]
<1>1. u \in Node
  BY DEF Node
<1>2. /\ u.state = w.state /\ u.UserName = w.UserName /\ u.absPath = p
      /\ u.token = w.token /\ u.queued
  BY DEF Node
<1> HIDE DEF u
<1> QED
  BY <1>1, <1>2 DEF u

(* The session of a user who has logged in.                                *)
LEMMA Entered ==
  ASSUME NEW fd \in Fd, node[fd] \in Node
  PROVE  \E u \in Node :
           /\ u = LoggedIn(fd)
           /\ u.state = 3 /\ u.UserName = node[fd].UserName
           /\ u.absPath = node[fd].UserName /\ u.token
           /\ u.queued = node[fd].queued
<1>1. PICK w \in Node : w = node[fd]
  OBVIOUS
<1>5. PICK p \in Name \cup {None} : p = w.UserName
  BY DEF Node
<1> DEFINE u == [w EXCEPT !.state = 3, !.token = TRUE, !.absPath = p]
<1>2. u \in Node
  <2>1. 3 \in 0 .. 3
    OBVIOUS
  <2> QED
    BY <2>1 DEF Node
<1>3. /\ u.state = 3 /\ u.UserName = w.UserName /\ u.absPath = w.UserName
      /\ u.token /\ u.queued = w.queued
  BY <1>5 DEF Node
<1>4. u = LoggedIn(fd)
  BY <1>1, <1>5 DEF LoggedIn
<1> HIDE DEF u
<1> QED
  BY <1>1, <1>2, <1>3, <1>4

(* LoginSecret keeps it: a match was sent by somebody who knows the stored *)
(* password, and the new token's entry is the one Current speaks of        *)
(* (main.cpp:644-702).                                                     *)
LEMMA LoginSecretIInv ==
  ASSUME IInv, NEW fd \in Fd, LoginSecret(fd)
  PROVE  IInv'
<1>1. PICK v \in Person \cup {Wrong, None} :
        /\ \/ Reads(fd, "secret", "secret", v)
           \/ Reads(fd, "lastSecret", "secret", v)
        /\ \/ /\ v \in Stored(node[fd].UserName)
              /\ \E time \in Second : md5' = <<time, node[fd].UserName>>
              /\ tok' = [tok EXCEPT ![md5'] = fd]
              /\ Finish(fd, LoggedIn(fd), <<<<"token", md5'>>>>)
           \/ /\ IF srv.pc = "secret"
                 THEN Finish(fd, node[fd], <<<<"login", FALSE>>>>)
                 ELSE Drop(fd)
              /\ UNCHANGED <<tok, md5>>
        /\ UNCHANGED <<UserInfo, fault>>
  BY DEF LoginSecret
<1>2. PICK pc \in ServerPc : pc \in {"secret", "lastSecret"} /\ Reads(fd, pc, "secret", v)
  BY <1>1 DEF ServerPc
<1>3. /\ srv.fd = fd /\ fd # None /\ Recv(fd, "secret", v)
      /\ node[fd] # None /\ node[fd] \in Node /\ ~node[fd].queued
      /\ node[fd].state = 1 /\ ~node[fd].token /\ Named(fd)
      /\ \A m : Stands(fd, m) => m = pc
  <2>1. /\ srv.fd = fd /\ fd # None /\ Recv(fd, "secret", v)
        /\ node[fd] # None /\ node[fd] \in Node /\ ~node[fd].queued
        /\ pc \in {"login", "name", "secret", "lastSecret"} => node[fd].state = 1
        /\ node[fd].token => node[fd].state = 3
        /\ pc \in {"secret", "lastSecret"} => Named(fd)
        /\ \A m : Stands(fd, m) =>
             m = pc \/ (m = "relogin" /\ pc = "login" /\ Named(fd))
    BY <1>2, Reading
  <2>2. pc # "login"
    BY <1>2
  <2> QED
    BY <1>2, <2>1, <2>2
<1>4. TypeOK
  BY DEF IInv
<1>5. ASSUME NEW m \in Place, NEW n \in Place, m = pc, Takes(m, <<"secret", v>>, n)
      PROVE  n = "judged"
  <2>1. There(m, v, n)
    BY <1>5, TakesThere
  <2> QED
    BY <1>2, <1>5, <2>1 DEF There
<1>6. "judged" \in Owed /\ Answers("judged") = {"token", "login"}
  BY DEF Owed, Answers
<1>7. ASSUME v \in Stored(node[fd].UserName), NEW time \in Second,
             md5' = <<time, node[fd].UserName>>,
             tok' = [tok EXCEPT ![md5'] = fd],
             Finish(fd, LoggedIn(fd), <<<<"token", md5'>>>>)
      PROVE  IInv'
  <2>1. PICK t \in Token : t = <<time, node[fd].UserName>> /\ t[2] = node[fd].UserName
    <3>1. PICK n \in Name : n = node[fd].UserName
      BY <1>3 DEF Named
    <3>2. <<time, n>> \in Token /\ <<time, n>>[2] = n
      BY DEF Token
    <3> QED
      BY <3>1, <3>2
  <2>2. md5' = t /\ tok' = [tok EXCEPT ![t] = fd]
    BY <1>7, <2>1
  <2>3. PICK u \in Node : /\ u = LoggedIn(fd)
                          /\ u.state = 3 /\ u.UserName = node[fd].UserName
                          /\ u.absPath = node[fd].UserName /\ u.token
                          /\ u.queued = node[fd].queued
    BY <1>3, Entered
  <2>4. PICK a \in Seq(Answer) :
          a = <<<<"token", t>>>> /\ Len(a) = 1 /\ a[1][1] = "token"
    <3>1. <<"token", t>> \in Answer
      BY DEF Answer
    <3> QED
      BY <3>1, OneAnswer
  <2>5. Finish(fd, u, a)
    BY <1>7, <2>2, <2>3, <2>4
  <2>6. Honest(fd, u)
    BY <1>3, <2>3 DEF Honest
  <2>7. /\ tok' \in [Token -> Fd \cup {None}] /\ tok'[t] = fd
        /\ md5' \in Token \cup {FileHash, None}
    BY <1>4, <2>2 DEF TypeOK
  <2>8. Current'
    <3>1. node'[fd] = u
      BY <1>4, <2>5 DEF Finish, TypeOK
    <3> QED
      BY <2>1, <2>2, <2>3, <2>7, <3>1 DEF Current
  <2>9. ~At(fd, "gone") => <<u.UserName, client[fd].person>> \in UserInfo
    <3> SUFFICES ASSUME ~At(fd, "gone")
                 PROVE  <<node[fd].UserName, client[fd].person>> \in UserInfo
      BY <2>3
    <3>1. v \in {client[fd].person, Wrong}
      BY <1>3, OwnSecret
    <3>2. v # None
      BY <1>3, Received DEF At
    <3>3. PICK row \in UserInfo : row[1] = node[fd].UserName /\ row[2] = v
      BY <1>7, <3>2 DEF Stored
    <3>4. row \in (Name \cup {None}) \X (Person \cup {None})
      BY <1>4 DEF TypeOK
    <3>5. row = <<row[1], row[2]>> /\ row[2] \in Person \cup {None}
      BY <3>4
    <3>6. v = client[fd].person
      BY <3>1, <3>3, <3>5, DistinctAssumption
    <3> QED
      BY <3>3, <3>5, <3>6
  <2>10. \A m, n \in Place :
           Stands(fd, m) /\ Takes(m, <<"secret", v>>, n) /\ v # None
             /\ <<"secret", v>> \in Item => Closes(u, a, n)
    <3>1. Rests(u, "inside") /\ After("token") = "inside"
      BY <2>3, Restings DEF Rests, After
    <3>2. Closes(u, a, "judged")
      BY <1>6, <2>4, <3>1 DEF Closes
    <3> QED
      BY <1>3, <1>5, <3>2
  <2>11. /\ UserInfo \subseteq UserInfo' /\ fault' = fault
         /\ UserInfo' \subseteq (Name \cup {None}) \X (Person \cup {None})
         /\ UserInfo' = UserInfo
    BY <1>1, <1>4 DEF TypeOK
  <2>12. ~At(fd, "gone") /\ u.state = 3 =>
           <<u.UserName, client[fd].person>> \in UserInfo'
    BY <2>9, <2>11
  <2> QED
    BY <1>3, <2>5, <2>6, <2>7, <2>8, <2>10, <2>11, <2>12, Finishes
<1>8. ASSUME Finish(fd, node[fd], <<<<"login", FALSE>>>>), UNCHANGED <<tok, md5>>
      PROVE  IInv'
  <2>1. PICK a \in Seq(Answer) :
          a = <<<<"login", FALSE>>>> /\ Len(a) = 1 /\ a[1][1] = "login"
    <3>1. <<"login", FALSE>> \in Answer
      BY DEF Answer
    <3> QED
      BY <3>1, OneAnswer
  <2>2. Gives(pc, "secret", v, node[fd], a)
    <3>1. Rests(node[fd], "named") /\ After("login") = "named"
      BY <1>3 DEF Rests, After, Named
    <3>2. Closes(node[fd], a, "judged")
      BY <1>6, <2>1, <3>1 DEF Closes
    <3>3. pc # "login"
      BY <1>2
    <3> QED
      BY <1>5, <3>2, <3>3 DEF Gives, From
  <2>3. Finish(fd, node[fd], a)
    BY <1>8, <2>1
  <2> QED
    BY <1>1, <1>2, <1>8, <2>2, <2>3, Stays
<1>9. ASSUME Drop(fd), UNCHANGED <<tok, md5>>
      PROVE  IInv'
  BY <1>1, <1>3, <1>9, Drops
<1> QED
  BY <1>1, <1>7, <1>8, <1>9

(* TokenGrant keeps it: the token in the buffer is the one presented, and  *)
(* its entry of tok is not stale (main.cpp:190-218).                       *)
LEMMA TokenGrantIInv ==
  ASSUME IInv, NEW fd \in Fd, NEW t \in Token \cup {None}, TokenGrant(fd, t)
  PROVE  IInv'
<1>1. /\ Reads(fd, "token", "token", t)
      /\ Holder(t) # None /\ ~NoSession(Holder(t)) /\ md5 = t
      /\ \/ Finish(fd, [node[fd] EXCEPT !.absPath = node[Holder(t)].absPath,
                                        !.queued = TRUE],
                   <<<<"granted", TRUE>>>>)
         \/ Drop(fd)
      /\ UNCHANGED <<UserInfo, tok, md5, fault>>
  BY DEF TokenGrant, dataVars
<1>2. PICK pc \in ServerPc : pc = "token"
  BY DEF ServerPc
<1>3. Reads(fd, pc, "token", t)
  BY <1>1, <1>2
<1>4. /\ srv.fd = fd /\ fd # None /\ Recv(fd, "token", t)
      /\ node[fd] # None /\ node[fd] \in Node
      /\ node[fd].state = 0 /\ ~node[fd].token
      /\ \A m : Stands(fd, m) => m = pc
  <2>1. /\ srv.fd = fd /\ fd # None /\ Recv(fd, "token", t)
        /\ node[fd] # None /\ node[fd] \in Node
        /\ pc \in {"choice", "token"} => node[fd].state = 0
        /\ node[fd].token => node[fd].state = 3
        /\ \A m : Stands(fd, m) =>
             m = pc \/ (m = "relogin" /\ pc = "login" /\ Named(fd))
    BY <1>3, Reading
  <2> QED
    BY <1>2, <2>1
<1>5. TypeOK /\ Fine(fd) /\ Current
  BY DEF IInv
<1>6. t \in Token /\ t # None /\ Holder(t) = tok[md5]
  BY <1>1, TokenAssumption DEF Holder
<1>7. PICK f \in Fd : f = Holder(t)
  BY <1>1, <1>5, <1>6 DEF TypeOK
<1>8. node[f] # None /\ node[f] \in Node /\ node[f].absPath = t[2]
  <2>1. node[f] # None /\ node[f].token
    BY <1>1, <1>7 DEF NoSession
  <2> QED
    BY <1>1, <1>5, <1>6, <1>7, <2>1 DEF Current, TypeOK
<1>9. CASE Drop(fd)
  BY <1>1, <1>4, <1>9, Drops
<1>10. CASE Finish(fd, [node[fd] EXCEPT !.absPath = node[Holder(t)].absPath,
                                        !.queued = TRUE],
                   <<<<"granted", TRUE>>>>)
  <2>1. PICK w \in Node, p \in Name \cup {None} : w = node[fd] /\ p = node[f].absPath
    BY <1>4, <1>8 DEF Node
  <2>2. PICK u \in Node : /\ u = [w EXCEPT !.absPath = p, !.queued = TRUE]
                          /\ u.state = w.state /\ u.absPath = p
                          /\ u.token = w.token /\ u.queued
    BY Handed
  <2>3. PICK a \in Seq(Answer) :
          a = <<<<"granted", TRUE>>>> /\ Len(a) = 1 /\ a[1][1] = "granted"
    <3>1. <<"granted", TRUE>> \in Answer
      BY DEF Answer
    <3> QED
      BY <3>1, OneAnswer
  <2>4. Finish(fd, u, a)
    BY <1>7, <1>10, <2>1, <2>2, <2>3
  <2>5. Honest(fd, u)
    <3>1. client[fd].pc \in {"data", "gone"}
      BY <1>4, OwnToken DEF At
    <3>2. client[fd].token # None => client[fd].token = t
      BY <1>4, <1>5, OwnToken DEF Fine, Tokens, At
    <3> QED
      BY <1>4, <1>8, <2>1, <2>2, <3>1, <3>2 DEF Honest
  <2>6. Current'
    <3>1. node' = [node EXCEPT ![fd] = u]
      BY <2>4 DEF Finish
    <3> QED
      BY <1>1, <1>4, <2>1, <2>2, <3>1, CurrentKept
  <2>7. \A m, n \in Place :
          Stands(fd, m) /\ Takes(m, <<"token", t>>, n) /\ t # None
            /\ <<"token", t>> \in Item => Closes(u, a, n)
    <3> SUFFICES ASSUME NEW m \in Place, NEW n \in Place, m = pc,
                        Takes(m, <<"token", t>>, n)
                 PROVE  Closes(u, a, n)
      BY <1>4
    <3>1. There(m, t, n)
      BY TakesThere
    <3>2. n = "granted" /\ "granted" \in Owed
      BY <1>2, <3>1 DEF There, Owed
    <3>3. Answers("granted") = {"granted"} /\ After("granted") = "fresh"
      BY DEF Answers, After
    <3>4. Rests(u, "fresh")
      BY <1>4, <2>1, <2>2, Restings DEF Rests
    <3> QED
      BY <2>3, <3>2, <3>3, <3>4 DEF Closes
  <2>8. /\ UserInfo \subseteq UserInfo' /\ fault' = fault
        /\ UserInfo' \subseteq (Name \cup {None}) \X (Person \cup {None})
        /\ tok' \in [Token -> Fd \cup {None}]
        /\ md5' \in Token \cup {FileHash, None}
    BY <1>1, <1>5 DEF TypeOK
  <2>9. u.state # 3
    BY <1>4, <2>1, <2>2
  <2> QED
    BY <1>4, <2>4, <2>5, <2>6, <2>7, <2>8, <2>9, Finishes
<1> QED
  BY <1>1, <1>9, <1>10

(* TokenRefuse keeps it (main.cpp:219-229).                                *)
LEMMA TokenRefuseIInv ==
  ASSUME IInv, NEW fd \in Fd, NEW t \in Token \cup {None}, TokenRefuse(fd, t)
  PROVE  IInv'
<1>1. Reads(fd, "token", "token", t) /\ Drop(fd) /\ UNCHANGED <<UserInfo, tok, md5, fault>>
  BY DEF TokenRefuse, dataVars
<1>2. PICK pc \in ServerPc : pc = "token"
  BY DEF ServerPc
<1>3. srv.fd = fd
  BY <1>1, <1>2, Reading
<1> QED
  BY <1>1, <1>3, Drops

(* A step that changes nothing but fault, or nothing at all.               *)
LEMMA Frozen ==
  ASSUME IInv, UNCHANGED <<UserInfo, tok, md5, node, srv, chan, reply, client, threads>>,
         fault' \in BOOLEAN
  PROVE  IInv'
<1>1. TypeOK' /\ Serves' /\ Current'
  BY DEF IInv, TypeOK, Serves, Current
<1>2. ASSUME NEW fd \in Fd PROVE Fine(fd)'
  <2>1. Fine(fd)
    BY DEF IInv
  <2>2. \A m : Stands(fd, m)' <=> Stands(fd, m)
    BY DEF Stands, Named
  <2>3. Dialogue(fd)'
    BY <2>1, <2>2 DEF Fine, Dialogue, At, Awaited
  <2>4. Absent(fd)' /\ Meant(fd)' /\ Tokens(fd)'
    BY <2>1 DEF Fine, Absent, Meant, Tokens, At
  <2>5. Proved(fd)' /\ Own(fd)'
    BY <2>1 DEF Fine, Proved, Own, At
  <2> QED
    BY <2>3, <2>4, <2>5 DEF Fine
<1> QED
  BY <1>1, <1>2 DEF IInv

(* TokenFault keeps it: the process is gone, the sessions are as they      *)
(* were.                                                                   *)
LEMMA TokenFaultIInv ==
  ASSUME IInv, NEW fd \in Fd, NEW t \in Token \cup {None}, TokenFault(fd, t)
  PROVE  IInv'
BY Frozen DEF TokenFault, dataVars, srvVars

-----------------------------------------------------------------------------
(* The workers and the supervisor.                                         *)
LEMMA WorkerDoneIInv ==
  ASSUME IInv, NEW fd \in Fd, WorkerDone(fd)
  PROVE  IInv'
<1>1. /\ node[fd] # None /\ node[fd].queued /\ TearDown(fd)
      /\ UNCHANGED <<UserInfo, tok, md5, srv, fault>>
  BY DEF WorkerDone, dataVars
<1>2. srv.fd # fd
  BY <1>1, DistinctAssumption DEF IInv, Serves
<1>3. /\ tok' \in [Token -> Fd \cup {None}]
      /\ \A t \in Token : tok'[t] \in {tok[t], None}
  BY <1>1 DEF IInv, TypeOK
<1> QED
  BY <1>1, <1>2, <1>3, TornDown

(* TimeOut keeps it: the supervisor forgets the session and not its token  *)
(* (main.cpp:705-726).                                                     *)
LEMMA TimeOutIInv ==
  ASSUME IInv, NEW fd \in Fd, TimeOut(fd)
  PROVE  IInv'
<1>1. /\ srv.fd # fd /\ TearDown(fd) /\ UNCHANGED <<UserInfo, tok, md5, srv, fault>>
  BY DEF TimeOut, dataVars
<1>2. /\ tok' \in [Token -> Fd \cup {None}]
      /\ \A t \in Token : tok'[t] \in {tok[t], None}
  BY <1>1 DEF IInv, TypeOK
<1> QED
  BY <1>1, <1>2, TornDown

-----------------------------------------------------------------------------
(* Every step keeps the invariant.                                         *)
LEMMA NextIInv == IInv /\ [Next]_vars => IInv'
<1> SUFFICES ASSUME IInv, [Next]_vars PROVE IInv'
  OBVIOUS
<1>1. CASE UNCHANGED vars
  <2>1. /\ UNCHANGED <<UserInfo, tok, md5, node, srv, chan, reply, client, threads>>
        /\ fault' = fault
    BY <1>1 DEF vars
  <2>2. fault \in BOOLEAN
    BY DEF IInv, TypeOK
  <2> QED
    BY <2>1, <2>2, Frozen
<1>2. ASSUME NEW fd \in Fd, Accept(fd) \/ Event(fd) \/ Serve(fd)
      PROVE  IInv'
  <2>1. CASE Accept(fd) \/ Event(fd)
    BY <2>1, AcceptIInv, EventIInv
  <2>2. CASE ReadChoice(fd) \/ ReadRegister(fd) \/ ReadLogin(fd)
    BY <2>2, ReadChoiceIInv, ReadRegisterIInv, ReadLoginIInv
  <2>3. CASE RegisterName(fd) \/ RegisterSalt(fd) \/ RegisterSecret(fd)
    BY <2>3, RegisterNameIInv, RegisterSaltIInv, RegisterSecretIInv
  <2>4. CASE LoginName(fd) \/ LoginSecret(fd)
    BY <2>4, LoginNameIInv, LoginSecretIInv
  <2>5. CASE LogOut(fd) \/ Action(fd) \/ Puts(fd)
    BY <2>5, LogOutIInv, ActionIInv, PutsIInv
  <2>6. CASE \E t \in Token \cup {None} :
               TokenGrant(fd, t) \/ TokenRefuse(fd, t) \/ TokenFault(fd, t)
    BY <2>6, TokenGrantIInv, TokenRefuseIInv, TokenFaultIInv
  <2> QED
    BY <1>2, <2>1, <2>2, <2>3, <2>4, <2>5, <2>6 DEF Serve
<1>3. ASSUME NEW fd \in Fd, ClientStep(fd)
      PROVE  IInv'
  <2>1. CASE \E p \in Person : Connect(fd, p)
    BY <2>1, ConnectIInv
  <2>2. CASE Choose(fd) \/ SendName(fd) \/ GetSalt(fd) \/ SendPassword(fd)
    BY <2>2, ChooseIInv, SendNameIInv, GetSaltIInv, SendPasswordIInv
  <2>3. CASE GetResult(fd) \/ GetNameAnswer(fd) \/ SendNewPassword(fd)
    BY <2>3, GetResultIInv, GetNameAnswerIInv, SendNewPasswordIInv
  <2>4. CASE SendCommand(fd) \/ GetAnswer(fd) \/ HangUp(fd)
    BY <2>4, SendCommandIInv, GetAnswerIInv, HangUpIInv
  <2> QED
    BY <1>3, <2>1, <2>2, <2>3, <2>4 DEF ClientStep
<1>4. ASSUME NEW fd \in Fd, WorkerDone(fd) \/ TimeOut(fd)
      PROVE  IInv'
  BY <1>4, WorkerDoneIInv, TimeOutIInv
<1>5. ASSUME NEW t \in threads, DataConnect(t)
      PROVE  IInv'
  BY <1>5, DataConnectIInv
<1> QED
  BY <1>1, <1>2, <1>3, <1>4, <1>5 DEF Next

(* Every reachable state satisfies the inductive invariant.                *)
THEOREM SessionInvariant == Spec => []IInv
BY InitIInv, NextIInv, PTL DEF Spec

(* The types of Session's variables: above all, what is in either stream   *)
(* is an item of the protocol.                                             *)
THEOREM SessionTypeCorrect == Spec => []TypeOK
<1>1. IInv => TypeOK
  BY DEF IInv
<1> QED
  BY <1>1, SessionInvariant, PTL

(* The kind of item that main can take at each place.                      *)
LEMMA KindTaken ==
  ASSUME NEW m, NEW x, NEW n, Takes(m, x, n)
  PROVE  /\ m \in {"fresh", "entering", "named", "registering", "inside"} =>
              x[1] = "header"
         /\ m \in {"login", "relogin", "register"} => x[1] = "step"
         /\ m \in {"name", "newName"} => x[1] = "name"
         /\ m \in {"secret", "lastSecret", "newSecret"} => x[1] = "secret"
         /\ m = "newSalt" => x[1] = "salt"
         /\ m = "action" => x[1] = "command"
         /\ m \in {"choice", "opened", "token"} => x[1] = m
<1>1. \A k, v : x = <<k, v>> => x[1] = k
  OBVIOUS
<1>2. m \in {"fresh", "entering", "named", "registering", "inside"} => x[1] = "header"
  BY <1>1 DEF Takes, TakesHeader, TakesLogin, TakesRegister, TakesCommand
<1>3. m \in {"login", "relogin", "register"} => x[1] = "step"
  BY <1>1 DEF Takes, TakesHeader, TakesLogin, TakesRegister, TakesCommand
<1>4. /\ m \in {"name", "newName"} => x[1] = "name"
      /\ m \in {"secret", "lastSecret", "newSecret"} => x[1] = "secret"
      /\ m = "newSalt" => x[1] = "salt"
  BY <1>1 DEF Takes, TakesHeader, TakesLogin, TakesRegister, TakesCommand
<1>5. m = "action" => x[1] = "command"
  BY <1>1 DEF Takes, TakesHeader, TakesLogin, TakesRegister, TakesCommand
<1>6. m \in {"choice", "opened", "token"} => x[1] = m
  BY <1>1 DEF Takes, TakesHeader, TakesLogin, TakesRegister, TakesCommand
<1> QED
  BY <1>2, <1>3, <1>4, <1>5, <1>6

(* What comes next in either stream is what its reader is about to read,   *)
(* for any number of clients, names and commands in any interleaving       *)
(* (main.cpp:117-191, 588-604, 630-675; client.cpp:53-163, 177-241).       *)
THEOREM StreamsAreAligned == Spec => []Aligned
<1>1. ASSUME IInv, NEW fd \in Fd, chan[fd] # << >>
      PROVE  Head(chan[fd])[1] \in Expected(fd)
  <2>1. TypeOK /\ Serves /\ Fine(fd) /\ chan[fd] \in Seq(Item) /\ fd # None
    BY <1>1, DistinctAssumption DEF IInv, TypeOK
  <2>2. PICK m \in Place, e \in Place : Stands(fd, m) /\ Runs(m, chan[fd], e)
    <3>1. CASE At(fd, "gone")
      BY <2>1, <3>1 DEF Fine, Dialogue
    <3>2. CASE ~At(fd, "gone")
      <4>1. PICK m \in Place : Stands(fd, m) /\ Runs(m, chan[fd], End(client[fd].pc))
        BY <1>1, <2>1, <3>2 DEF Fine, Dialogue
      <4> QED
        BY <4>1, Ends
    <3> QED
      BY <3>1, <3>2
  <2>3. PICK n \in Place : Takes(m, Head(chan[fd]), n)
    BY <1>1, <2>1, <2>2, RunsTail
  <2>4. CASE srv.fd # fd
    <3>1. m \in {"fresh", "entering", "named", "registering", "inside"}
      <4>1. \A s : Resting(s) \in {"fresh", "entering", "registering", "inside"}
        BY DEF Resting
      <4> QED
        BY <2>2, <2>4, <4>1 DEF Stands
    <3> QED
      BY <2>3, <2>4, <3>1, KindTaken DEF Expected
  <2>5. CASE srv.fd = fd
    <3>1. m = srv.pc \/ (m = "relogin" /\ srv.pc = "login")
      BY <2>2, <2>5 DEF Stands
    <3>2. srv.pc \in ServerPc
      BY <2>1, <2>5 DEF TypeOK, Serves, ServerPc
    <3> DEFINE pc == srv.pc
               x == Head(chan[fd])[1]
    <3>3. /\ m \in {"login", "relogin", "register"} => x = "step"
          /\ m \in {"name", "newName"} => x = "name"
          /\ m \in {"secret", "lastSecret", "newSecret"} => x = "secret"
          /\ m = "newSalt" => x = "salt"
          /\ m = "action" => x = "command"
          /\ m \in {"choice", "opened", "token"} => x = m
      BY <2>3, KindTaken
    <3>4. Expected(fd) =
            CASE pc \in {"login", "register"} -> {"step"}
              [] pc \in {"name", "newName"} -> {"name"}
              [] pc \in {"secret", "lastSecret", "newSecret"} -> {"secret"}
              [] pc = "newSalt" -> {"salt"}
              [] pc = "action" -> {"command"}
              [] OTHER -> {pc}
      BY <2>5 DEF Expected
    <3>5. pc \in ServerPc /\ (m = pc \/ (m = "relogin" /\ pc = "login"))
      BY <3>1, <3>2
    <3> HIDE DEF pc, x
    <3>6. x \in Expected(fd)
      BY <3>3, <3>4, <3>5 DEF ServerPc
    <3> QED
      BY <3>6 DEF x
  <2> QED
    BY <2>4, <2>5
<1>2. ASSUME IInv, NEW fd \in Fd, reply[fd] # << >>
      PROVE  Head(reply[fd])[1] \in Awaited(fd)
  <2>1. Fine(fd) /\ reply[fd] \in Seq(Answer)
    BY <1>2 DEF IInv, TypeOK
  <2>2. reply[fd][1][1] \in Awaited(fd) /\ Len(reply[fd]) = 1
    BY <1>2, <2>1 DEF Fine, Dialogue
  <2>3. Head(reply[fd]) = reply[fd][1]
    BY <2>1, <2>2, Single
  <2> QED
    BY <2>2, <2>3
<1>3. IInv => Aligned
  BY <1>1, <1>2 DEF Aligned
<1> QED
  BY <1>3, SessionInvariant, PTL

(* Who is in a session and still there has proved to be somebody whose     *)
(* password is stored under the session's name (main.cpp:645-699).         *)
THEOREM SessionsAreAuthenticated == Spec => []Authenticated
<1>1. IInv => Authenticated
  BY DEF IInv, Fine, Proved, Authenticated
<1> QED
  BY <1>1, SessionInvariant, PTL

(* A data connection that is let through works in the directory of the     *)
(* user its token was made for (main.cpp:195-200, 660).                    *)
THEOREM TransfersInOwnDirectory == Spec => []OwnDirectory
<1>1. IInv => OwnDirectory
  BY DEF IInv, Fine, Own, OwnDirectory
<1> QED
  BY <1>1, SessionInvariant, PTL

-----------------------------------------------------------------------------
(* Who waits for whom.  These say in every state what the liveness         *)
(* properties need: main may be held up, but only by somebody who is free  *)
(* to go on.                                                               *)
NobodyWaitsInVain ==
  \A fd \in Fd : Waiting(fd) /\ reply[fd] = << >> => chan[fd] # << >>

MainWaitsForPasswords == Blocked => At(srv.fd, "password") \/ At(srv.fd, "hashing")

(* Where main is with a client whose stream it has read to the end.        *)
LEMMA StandsAtEnd ==
  ASSUME IInv, NEW fd \in Fd, ~At(fd, "gone"), reply[fd] = << >>, chan[fd] = << >>
  PROVE  Stands(fd, End(client[fd].pc))
<1>1. Dialogue(fd) /\ chan[fd] \in Seq(Item)
  BY DEF IInv, Fine, TypeOK
<1>2. Len(reply[fd]) # 1 /\ Len(chan[fd]) = 0
  OBVIOUS
<1>3. PICK m \in Place : Stands(fd, m) /\ Runs(m, chan[fd], End(client[fd].pc))
  BY <1>1, <1>2 DEF Dialogue
<1>4. End(client[fd].pc) = m
  BY <1>1, <1>2, <1>3, Ends, RunsEmpty
<1> QED
  BY <1>3, <1>4

(* Main is never where an answer is owed: it answers in the step that      *)
(* takes it there.                                                         *)
LEMMA NoneOwed ==
  ASSUME IInv, NEW fd \in Fd
  PROVE  \A m \in Owed : ~Stands(fd, m)
<1>1. srv.fd = fd => srv.pc \in ServerPc
  BY DistinctAssumption DEF IInv, TypeOK, Serves, ServerPc
<1>2. \A s : Resting(s) \in {"fresh", "entering", "registering", "inside"}
  BY DEF Resting
<1> QED
  BY <1>1, <1>2 DEF Stands, Owed, ServerPc

(* A client that waits for an answer has been answered, or main has still  *)
(* something of it to read: the two never wait for each other, whatever    *)
(* dialogues the connection has been through (main.cpp:117-201, 581-699    *)
(* against client.cpp:53-163, 177-241).                                    *)
THEOREM ClientsDoNotWaitInVain == Spec => []NobodyWaitsInVain
<1>1. ASSUME IInv, NEW fd \in Fd, Waiting(fd), reply[fd] = << >>, chan[fd] = << >>
      PROVE  FALSE
  <2>1. client[fd].pc \in {"salt", "result", "lastResult", "isFree", "answer",
                           "transferAnswer", "data"}
    BY <1>1 DEF Waiting, Awaited, At
  <2>2. End(client[fd].pc) \in Owed
    BY <2>1, Ends DEF Owed
  <2>3. ~At(fd, "gone")
    BY <2>1 DEF At
  <2>4. Stands(fd, End(client[fd].pc))
    BY <1>1, <2>3, StandsAtEnd
  <2> QED
    BY <1>1, <2>2, <2>4, NoneOwed
<1>2. IInv => NobodyWaitsInVain
  BY <1>1 DEF NobodyWaitsInVain
<1> QED
  BY <1>2, SessionInvariant, PTL

(* In the middle of an event main waits only for a client that is typing   *)
(* or hashing a password: every other item has been sent with the header   *)
(* that began the event (main.cpp:604, 635-675 against client.cpp:75-107,  *)
(* 141-152).  The second fairness condition of FairSpec is therefore all   *)
(* that the other clients depend on.                                       *)
THEOREM MainWaitsForAPassword == Spec => []MainWaitsForPasswords
<1>1. ASSUME IInv, Blocked
      PROVE  At(srv.fd, "password") \/ At(srv.fd, "hashing")
  <2> DEFINE fd == srv.fd
             pc == client[fd].pc
  <2>1. fd \in Fd /\ srv.pc \in ServerPc
    BY <1>1 DEF IInv, TypeOK, Serves, ServerPc, Blocked, Idle
  <2>2. chan[fd] = << >> /\ ~At(fd, "gone") /\ Dialogue(fd) /\ pc \in ClientPc
    BY <1>1, <2>1 DEF Blocked, IInv, Fine, TypeOK
  <2>3. reply[fd] = << >>
    BY <2>2 DEF Dialogue
  <2>4. Stands(fd, End(pc))
    BY <1>1, <2>1, <2>2, <2>3, StandsAtEnd
  <2>5. End(pc) = srv.pc \/ (End(pc) = "relogin" /\ srv.pc = "login")
    BY <2>4 DEF Stands
  <2>6. pc \in ClientPc \ {"gone"} /\ srv.pc \in ServerPc
    BY <2>1, <2>2 DEF At
  <2>7. pc = "password" \/ pc = "hashing"
    <3> HIDE DEF pc
    <3> QED
      BY <2>5, <2>6, Ends DEF ClientPc, ServerPc
  <2> QED
    BY <2>7 DEF At
<1> QED
  BY <1>1, SessionInvariant, PTL DEF MainWaitsForPasswords

-----------------------------------------------------------------------------
(* A session keeps its user, its directory and its token until it ends.    *)
SessionKept(fd) ==
  node[fd] # None => (node[fd].state = 3 => node'[fd] \in {node[fd], None})

(* A step that gives one connection another session, or none.              *)
LEMMA KeptByOne ==
  ASSUME IInv, NEW fd \in Fd, NEW n, node' = [node EXCEPT ![fd] = n],
         n # None => node[fd] = None \/ node[fd].state # 3 \/ n = node[fd]
  PROVE  \A d \in Fd : SessionKept(d)
<1>1. node' \in [Fd -> UNION {{None, n}, {node[d] : d \in Fd}}]
  BY DEF IInv, TypeOK
<1> QED
  BY DEF SessionKept, IInv, TypeOK

(* Main at a place where the session is not yet one of a user.             *)
LEMMA NotInside ==
  ASSUME IInv, NEW fd \in Fd, srv.fd = fd, srv.pc \notin {"action", "opened"}
  PROVE  node[fd].state # 3
<1>1. srv.pc \in {"choice", "login", "register", "token", "name", "secret",
                  "lastSecret", "newName", "newSalt", "newSecret"}
  BY DistinctAssumption DEF IInv, TypeOK, Serves
<1> QED
  BY <1>1 DEF IInv, Serves

(* No client writes a session.                                             *)
LEMMA SpeaksAlone ==
  ASSUME NEW fd \in Fd, ClientStep(fd)
  PROVE  UNCHANGED node
<1>1. \A items, pc : Say(fd, items, pc) => UNCHANGED node
  BY DEF Say, srvVars
<1>2. \A items, c : Hear(fd, items, c) => UNCHANGED node
  BY DEF Hear, srvVars
<1>3. ASSUME NEW p \in Person, Connect(fd, p) PROVE UNCHANGED node
  BY <1>3 DEF Connect, srvVars
<1>4. Choose(fd) \/ SendName(fd) \/ SendPassword(fd) \/ SendNewPassword(fd)
      => UNCHANGED node
  BY <1>1, Zenon DEF Choose, SendName, SendPassword, SendNewPassword
<1>5. SendCommand(fd) => UNCHANGED node
  BY <1>1, CommandAssumption DEF SendCommand, AllCommands
<1>6. GetSalt(fd) \/ GetResult(fd) \/ GetNameAnswer(fd) \/ GetAnswer(fd)
      => UNCHANGED node
  BY <1>2, Zenon DEF GetSalt, GetResult, GetNameAnswer, GetAnswer
<1>7. HangUp(fd) => UNCHANGED node
  BY DEF HangUp, srvVars
<1> QED
  BY <1>3, <1>4, <1>5, <1>6, <1>7 DEF ClientStep

(* Main in the middle of an event.                                         *)
LEMMA ServeKeeps ==
  ASSUME IInv, NEW fd \in Fd, Serve(fd)
  PROVE  \A d \in Fd : SessionKept(d)
<1>0. fd # None
  BY DistinctAssumption
<1>1. (\E n : node' = [node EXCEPT ![fd] = n] /\ srv.fd = fd
              /\ srv.pc \notin {"action", "opened"})
      => \A d \in Fd : SessionKept(d)
  BY NotInside, KeptByOne
<1>2. node' = [node EXCEPT ![fd] = None] => \A d \in Fd : SessionKept(d)
  BY KeptByOne
<1>3. node' = [node EXCEPT ![fd] = node[fd]] => \A d \in Fd : SessionKept(d)
  BY KeptByOne
<1>4. UNCHANGED node => \A d \in Fd : SessionKept(d)
  BY DEF SessionKept
<1>5. CASE ReadChoice(fd) \/ ReadRegister(fd) \/ ReadLogin(fd)
  BY <1>1, <1>2, <1>4, <1>5
     DEF ReadChoice, ReadRegister, ReadLogin, Reads, Drop, TearDown, Finish, ReadOn
<1>6. ASSUME RegisterName(fd) \/ LoginName(fd)
      PROVE  \A d \in Fd : SessionKept(d)
  <2>1. srv = [pc |-> "newName", fd |-> fd] \/ srv = [pc |-> "name", fd |-> fd]
    <3>1. RegisterName(fd) => srv = [pc |-> "newName", fd |-> fd]
      BY Zenon DEF RegisterName, Reads
    <3>2. LoginName(fd) => srv = [pc |-> "name", fd |-> fd]
      BY Zenon DEF LoginName, Reads
    <3> QED
      BY <1>6, <3>1, <3>2
  <2>2. \A n, answers : Finish(fd, n, answers) => node' = [node EXCEPT ![fd] = n]
    BY DEF Finish
  <2>3. \E n, answers : Finish(fd, n, answers)
    <3>1. RegisterName(fd) => \E n, answers : Finish(fd, n, answers)
      BY Zenon DEF RegisterName
    <3>2. LoginName(fd) => \E n, answers : Finish(fd, n, answers)
      BY Zenon DEF LoginName
    <3> QED
      BY <1>6, <3>1, <3>2
  <2> QED
    BY <1>1, <2>1, <2>2, <2>3
<1>7. CASE RegisterSalt(fd)
  BY <1>4, <1>7 DEF RegisterSalt, ReadOn
<1>8. ASSUME RegisterSecret(fd)
      PROVE  \A d \in Fd : SessionKept(d)
  <2>1. srv.fd = fd /\ srv.pc \notin {"action", "opened"}
    BY <1>8 DEF RegisterSecret, Reads
  <2>2. node' = [node EXCEPT ![fd] = [node[fd] EXCEPT !.state = 0]]
    BY <1>8 DEF RegisterSecret, Finish
  <2> QED
    BY <1>1, <2>1, <2>2
<1>9. ASSUME LoginSecret(fd)
      PROVE  \A d \in Fd : SessionKept(d)
  <2>1. srv.fd = fd /\ srv.pc \notin {"action", "opened"}
    BY <1>9 DEF LoginSecret, Reads
  <2>2. \A n, answers : Finish(fd, n, answers) => node' = [node EXCEPT ![fd] = n]
    BY DEF Finish
  <2>3. Drop(fd) \/ \E n, answers : Finish(fd, n, answers)
    BY <1>9, Zenon DEF LoginSecret
  <2>4. Drop(fd) => node' = [node EXCEPT ![fd] = None]
    BY DEF Drop, TearDown
  <2> QED
    BY <1>1, <1>2, <2>1, <2>2, <2>3, <2>4
<1>10. CASE LogOut(fd)
  BY <1>2, <1>10 DEF LogOut, Drop, TearDown
<1>11. ASSUME Action(fd) \/ Puts(fd)
       PROVE  \A d \in Fd : SessionKept(d)
  <2>1. \A answers : Finish(fd, node[fd], answers) => node' = [node EXCEPT ![fd] = node[fd]]
    BY DEF Finish
  <2>2. ReadOn(fd, "opened") => UNCHANGED node
    BY DEF ReadOn
  <2>3. ReadOn(fd, "opened") \/ \E answers : Finish(fd, node[fd], answers)
    <3>1. Puts(fd) => \E answers : Finish(fd, node[fd], answers)
      BY Zenon DEF Puts
    <3>2. Action(fd) => ReadOn(fd, "opened") \/ \E answers : Finish(fd, node[fd], answers)
      BY Zenon DEF Action
    <3> QED
      BY <1>11, <3>1, <3>2
  <2> QED
    BY <1>3, <1>4, <2>1, <2>2, <2>3
<1>12. ASSUME NEW t \in Token \cup {None},
              TokenGrant(fd, t) \/ TokenRefuse(fd, t) \/ TokenFault(fd, t)
       PROVE  \A d \in Fd : SessionKept(d)
  <2>1. srv.fd = fd /\ srv.pc \notin {"action", "opened"}
    BY <1>12 DEF TokenGrant, TokenRefuse, TokenFault, Reads
  <2>2. \A n, answers : Finish(fd, n, answers) => node' = [node EXCEPT ![fd] = n]
    BY DEF Finish
  <2>3. Drop(fd) => node' = [node EXCEPT ![fd] = None]
    BY DEF Drop, TearDown
  <2>4. CASE TokenGrant(fd, t)
    <3>1. Drop(fd) \/ \E n, answers : Finish(fd, n, answers)
      BY <2>4, Zenon DEF TokenGrant
    <3> QED
      BY <1>1, <1>2, <2>1, <2>2, <2>3, <3>1
  <2>5. CASE TokenRefuse(fd, t)
    BY <1>2, <2>3, <2>5 DEF TokenRefuse
  <2>6. CASE TokenFault(fd, t)
    BY <1>4, <2>6 DEF TokenFault, srvVars
  <2> QED
    BY <1>12, <2>4, <2>5, <2>6
<1> QED
  BY <1>5, <1>6, <1>7, <1>8, <1>9, <1>10, <1>11, <1>12 DEF Serve

(* Whoever is in a session stays the user who entered it, with the same    *)
(* directory and the same token, until the session ends, although accepts, *)
(* logins, data connections, workers and the supervisor go on around it    *)
(* (main.cpp:74-96, 110-201, 684-698).                                     *)
THEOREM SessionsKeepTheirUser == Spec => [][\A fd \in Fd : SessionKept(fd)]_vars
<1>1. ASSUME IInv, Next
      PROVE  \A d \in Fd : SessionKept(d)
  <2>1. UNCHANGED node => \A d \in Fd : SessionKept(d)
    BY DEF SessionKept
  <2>2. ASSUME NEW fd \in Fd, Accept(fd)
        PROVE  \A d \in Fd : SessionKept(d)
    BY <1>1, <2>2, KeptByOne DEF Accept
  <2>3. ASSUME NEW fd \in Fd, Event(fd)
        PROVE  \A d \in Fd : SessionKept(d)
    BY <2>1, <2>3 DEF Event, ReadOn
  <2>4. ASSUME NEW fd \in Fd, Serve(fd)
        PROVE  \A d \in Fd : SessionKept(d)
    BY <1>1, <2>4, ServeKeeps
  <2>5. ASSUME NEW fd \in Fd, ClientStep(fd)
        PROVE  \A d \in Fd : SessionKept(d)
    <3>1. UNCHANGED node
      BY <2>5, SpeaksAlone
    <3> QED
      BY <2>1, <3>1
  <2>6. ASSUME NEW fd \in Fd, WorkerDone(fd) \/ TimeOut(fd)
        PROVE  \A d \in Fd : SessionKept(d)
    BY <1>1, <2>6, KeptByOne DEF WorkerDone, TimeOut, TearDown
  <2>7. ASSUME NEW t \in threads, DataConnect(t)
        PROVE  \A d \in Fd : SessionKept(d)
    BY <2>1, <2>7 DEF DataConnect, srvVars
  <2> QED
    BY <1>1, <2>2, <2>3, <2>4, <2>5, <2>6, <2>7 DEF Next
<1>2. IInv /\ [Next]_vars => [\A fd \in Fd : SessionKept(fd)]_vars
  BY <1>1
<1> QED
  BY <1>2, SessionInvariant, PTL DEF Spec
=============================================================================
