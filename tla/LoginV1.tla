------------------------------ MODULE LoginV1 ------------------------------
(***************************************************************************)
(* FileServer, the first version: what a worker's threadFunc says with a   *)
(* client before ServerClient, login and registration, and what it leaves  *)
(* in its buffers, which live as long as the worker, for the next client.  *)
(*                                                                         *)
(* One step is an exchange: the client sends, the worker receives, asks    *)
(* the database and answers (nobody sends twice without an answer, but     *)
(* for salt and password).  What crypt makes of a password and a salt is   *)
(* the pair of them.                                                       *)
(***************************************************************************)
EXTENDS Naturals

CONSTANTS Workers,
          People,       \* each with one password of its own
          Names,
          Known         \* people log in with registered names, and do not leave
                        \* between choosing and the name, or while they register

VARIABLES rows,         \* UserInfo: <<UserName, Salt, PassWord>>
          homes,        \* users with a directory
          pc, who,      \* where a worker is, and with whom
          userName, salt, buf, buf1,   \* its buffers
          typed,        \* the name and the password its client has typed last
          fault         \* "no", "null": row[0] of no row, "overflow" of UserName

vars == <<rows, homes, pc, who, userName, salt, buf, buf1, typed, fault>>
data == <<rows, homes>>
locals == <<userName, salt, buf, buf1>>

Default == "$6$sss"
Nobody == ""                    \* also the name of nothing
Garbled == "garbled"            \* a name with the tail of what was in buf
\* Contents of buf and buf1: nothing, a text, or what crypt has made.
Empty == <<>>
Text(n) == IF n = "" THEN Empty ELSE <<n>>
Crypt(password, s) == <<password, s>>

Init == /\ rows = {} /\ homes = {}
        /\ pc = [w \in Workers |-> "pop"] /\ who = [w \in Workers |-> Nobody]
        /\ userName = [w \in Workers |-> ""] /\ salt = [w \in Workers |-> ""]
        /\ buf = [w \in Workers |-> Empty] /\ buf1 = [w \in Workers |-> Empty]
        /\ typed = [w \in Workers |-> <<"", "">>]
        /\ fault = "no"

Goto(w, l) == pc' = [pc EXCEPT ![w] = l]
RowsOf(n) == {r \in rows : r[1] = n}

(***************************************************************************)
(* The database.  A statement may fail.                                    *)
(***************************************************************************)

\* The buffer after sqlSingleSelect of a field; without a row its strcpy reads
\* row[0] of a NULL row.
SingleSelect(n, field, old) == {r[field] : r \in RowsOf(n)} \union {old}
ReadsNull(n) == RowsOf(n) = {}

\* sqlFindData: 1, 0, and -1, which the caller takes for 1.
FindData(n) == IF RowsOf(n) = {} THEN {FALSE, TRUE} ELSE {TRUE}

(***************************************************************************)
(* The dialogue.                                                           *)
(***************************************************************************)
Pop(w) ==
    \E p \in People :
      /\ pc[w] = "pop" /\ \A v \in Workers : who[v] # p     \* one connection each
      /\ who' = [who EXCEPT ![w] = p]
      /\ typed' = [typed EXCEPT ![w] = <<"", "">>]
      /\ Goto(w, "choose")
      /\ UNCHANGED <<data, locals, fault>>

Choose(w) ==
    /\ pc[w] = "choose" /\ who[w] # Nobody
    /\ \/ /\ Known => \E r \in rows : r[1] \in Names
          /\ Goto(w, "name")
          /\ userName' = [userName EXCEPT ![w] = ""]
          /\ salt' = [salt EXCEPT ![w] = ""]
       \/ Goto(w, "newName") /\ UNCHANGED <<userName, salt>>
    /\ UNCHANGED <<data, who, buf, buf1, typed, fault>>

\* What a receive may bring: "" when the client has left, or leaves now.
Input(w, S) == IF who[w] = Nobody THEN {""} ELSE IF Known THEN S ELSE S \union {""}
Stays(w, x) == who' = [who EXCEPT ![w] = IF x = "" THEN Nobody ELSE @]

LoginNameAs(w, n) ==
    /\ pc[w] = "name"
    /\ Stays(w, n)
    /\ userName' = [userName EXCEPT ![w] = n]
    /\ typed' = [typed EXCEPT ![w] = <<n, @[2]>>]
    /\ IF ReadsNull(n)
       THEN fault' = "null" /\ UNCHANGED <<salt, pc>>
       ELSE /\ \E s \in SingleSelect(n, 2, "") :
                 salt' = [salt EXCEPT ![w] = IF s = "" THEN Default ELSE s]
            /\ Goto(w, "password")
            /\ UNCHANGED fault
    /\ UNCHANGED <<data, buf, buf1>>

LoginName(w) ==
    \E n \in Input(w, IF Known THEN {r[1] : r \in rows} \intersect Names ELSE Names) : LoginNameAs(w, n)

LoggedIn(w) == Goto(w, "served")

\* The client's crypt; nothing, if it has left.  People know their own passwords.
Wrong == "wrong"
Secret(w, password) == IF password = "" THEN Empty ELSE Crypt(password, salt[w])
Passwords(w) == IF who[w] = Nobody THEN {""} ELSE {who[w], Wrong, ""}

\* The first password is compared with what the statement has put into buf1, or
\* with what an earlier client's has.
LoginPassword(w) ==
    \E password \in Passwords(w), stored \in SingleSelect(userName[w], 3, buf1[w]) :
      /\ pc[w] = "password"
      /\ Stays(w, password)
      /\ buf' = [buf EXCEPT ![w] = Secret(w, password)]
      /\ buf1' = [buf1 EXCEPT ![w] = stored]
      /\ typed' = [typed EXCEPT ![w] = <<@[1], password>>]
      /\ IF buf'[w] = stored THEN LoggedIn(w) ELSE Goto(w, "again")
      /\ UNCHANGED <<data, userName, salt, fault>>

\* Mutant: buf is compared with itself.
AgainAnyway(w) ==
    \E password \in Passwords(w) \ {""} :
      /\ pc[w] = "again"
      /\ buf' = [buf EXCEPT ![w] = Secret(w, password)]
      /\ typed' = [typed EXCEPT ![w] = <<@[1], password>>]
      /\ LoggedIn(w)
      /\ UNCHANGED <<data, who, userName, salt, buf1, fault>>

\* The second is the last.
Again(w) ==
    \E password \in Passwords(w) :
      /\ pc[w] = "again"
      /\ buf' = [buf EXCEPT ![w] = Secret(w, password)]
      /\ typed' = [typed EXCEPT ![w] = <<@[1], password>>]
      /\ IF buf'[w] = buf1[w] THEN LoggedIn(w) /\ Stays(w, password)
         ELSE Goto(w, "pop") /\ who' = [who EXCEPT ![w] = Nobody]
      /\ UNCHANGED <<data, userName, salt, buf1, fault>>

\* The first name is received over what buf holds; the others into a cleared buf.
Received(w, n) == IF pc[w] = "newName" /\ buf[w] # Empty THEN Garbled ELSE n

NewName(w) ==
    \E n \in Input(w, Names) :
      LET name == Received(w, n)
      IN /\ pc[w] \in {"newName", "otherName"}
         /\ Stays(w, n)
         /\ buf' = [buf EXCEPT ![w] = Text(name)]
         /\ typed' = [typed EXCEPT ![w] = <<n, @[2]>>]
         /\ \/ /\ TRUE \in FindData(name)
               /\ Goto(w, "otherName")
               /\ UNCHANGED <<userName, fault>>
            \/ /\ FALSE \in FindData(name)
               /\ userName' = [userName EXCEPT ![w] = name]
               /\ Goto(w, "newPassword")
               /\ fault' \in {fault, IF name = Garbled THEN "overflow" ELSE fault}
         /\ UNCHANGED <<data, salt, buf1>>

\* The row, if the statement succeeds.  The client has made a salt: here, who it is.
NewPassword(w) ==
    LET s == IF who[w] = Nobody THEN salt[w] ELSE who[w]
    IN /\ pc[w] = "newPassword"
       /\ salt' = [salt EXCEPT ![w] = s]
       /\ rows' \in {rows, rows \union {<<userName[w], s, IF who[w] = Nobody THEN Empty ELSE Crypt(who[w], s)>>}}
       /\ Goto(w, "home")
       /\ UNCHANGED <<homes, who, userName, buf, buf1, typed, fault>>

\* Its directory, whose path stays in buf, and back to the choice.
MakeHome(w) ==
    /\ pc[w] = "home"
    /\ homes' = homes \union {userName[w]}
    /\ buf' = [buf EXCEPT ![w] = Text("path")]
    /\ Goto(w, "choose")
    /\ UNCHANGED <<rows, who, userName, salt, buf1, typed, fault>>

\* The client leaves when it has been served, or before it chooses: ServerClient
\* then fails at its first recv_n.  One that has left comes here as well.
Leave(w) ==
    /\ pc[w] \in {"choose", "served"}
    /\ Goto(w, "pop")
    /\ who' = [who EXCEPT ![w] = Nobody]
    /\ typed' = [typed EXCEPT ![w] = <<"", "">>]
    /\ UNCHANGED <<data, locals, fault>>

Next == /\ fault = "no"
        /\ \E w \in Workers :
             \/ Pop(w) \/ Choose(w) \/ Leave(w)
             \/ LoginName(w) \/ LoginPassword(w) \/ Again(w)
             \/ NewName(w) \/ NewPassword(w) \/ MakeHome(w)

Spec == Init /\ [][Next]_vars

(***************************************************************************)
(* Properties                                                              *)
(***************************************************************************)

\* The fields keep their kinds.
TypeOK ==
    /\ \A r \in rows : r[1] \in Names \union {Garbled} /\ r[2] \in People /\ r[3] = Crypt(r[2], r[2])
    /\ homes \subseteq Names \union {Garbled}
    /\ who \in [Workers -> People \union {Nobody}]
    /\ fault \in {"no", "null", "overflow"}

\* Whoever is served as a user has typed that user's name and the password of a
\* row of that name, although statements fail and the worker's buffers still hold
\* what earlier clients of other names have left.
Authenticated ==
    \A w \in Workers : pc[w] = "served" /\ who[w] # Nobody =>
      /\ typed[w][1] = userName[w]
      /\ \E r \in RowsOf(userName[w]) : r[3] = Crypt(typed[w][2], r[2])

\* Whoever is served has a directory, as long as nobody uses two connections at
\* a time: the row is there before the directory is.
HomeExists ==
    \A w \in Workers : pc[w] = "served" /\ who[w] # Nobody => userName[w] \in homes

\* The client prints "register success": a row bears the name it has typed.
RegisteredAsTyped == \A r \in rows : r[1] \in Names
=============================================================================
