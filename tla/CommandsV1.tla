----------------------------- MODULE CommandsV1 -----------------------------
(***************************************************************************)
(* FileServer, the first version, after the login: the command loops of    *)
(* client.cpp and ServerClient at the two ends of a connection, for        *)
(* several sessions of one user, over the user's directory.                *)
(*                                                                         *)
(* An item of a stream is what one send_n, or a length and its bytes, puts *)
(* there; a transferred file is one item (TransFile has its bytes).  A     *)
(* file of more than 100 MB (Large) whose open fails is not taken from the *)
(* stream: recvFile gives up at the first bytes it cannot copy.  The code  *)
(* checks with fileExist and acts later: the steps are separate here.      *)
(***************************************************************************)
EXTENDS Integers, Sequences, SequencesExt

CONSTANTS Sessions,
          Names,        \* file names, as strings: one may be the word of a command
          Depth,        \* bound: components of a path
          Garbage,      \* types that the stat buffer may hold when stat fails ("other": neither)
          Window,       \* bound: unread items with which a user types the next command
          Builders,     \* bound: sessions that only go about, make and remove
          Large,        \* sizes above 100 MB occur
          Orderly       \* see Allowed

Ops == {"cd", "ls", "pwd", "mkdir", "puts", "gets", "remove"}
Paths == UNION {[1..k -> Names] : k \in 0..Depth}     \* <<>> is the user's directory

VARIABLES tree,         \* tree[p]: "none", "file", "dir"
          known,        \* FileInfo has the row of the (one) content
          cur,          \* curPath
          cpc,          \* what a client waits for: "prompt", a command, ..., "gone"
          wpc, wcmd,    \* where its worker is, with which command
          entries,      \* what readdir has still to give it
          up, down,     \* the streams to and from the server
          fault         \* "no", "misread", "crash": readdir(NULL)

vars == <<tree, known, cur, cpc, wpc, wcmd, entries, up, down, fault>>
files == <<tree, known>>
locals == <<cur, entries>>

Init == /\ tree = [p \in Paths |-> IF p = <<>> THEN "dir" ELSE "none"] /\ known = FALSE
        /\ cur = [s \in Sessions |-> <<>>]
        /\ cpc = [s \in Sessions |-> "prompt"]
        /\ wpc = [s \in Sessions |-> "recv"] /\ wcmd = [s \in Sessions |-> <<>>]
        /\ entries = [s \in Sessions |-> {}]
        /\ up = [s \in Sessions |-> <<>>] /\ down = [s \in Sessions |-> <<>>]
        /\ fault = "no"

Str(x) == <<"str", x>>
Number(i) == <<"int", i>>
Byte(b) == <<"byte", b>>
Long == <<"long">>
File == <<"file">>

IsDir(p) == tree[p] = "dir"
Path(s) == Append(cur[s], wcmd[s][2])
At(s) == tree[Path(s)]
Inside(p) == {q \in Paths : Len(q) = Len(p) + 1 /\ tree[q] # "none" /\ SubSeq(q, 1, Len(p)) = p}

(***************************************************************************)
(* The client.  Its sends never block: a command and what follows it       *)
(* without waiting for an answer are one step.                             *)
(***************************************************************************)

\* The commands of t that its worker has not finished, and their paths.
Pending(t) == {wcmd[t]} \union {up[t][i][2] : i \in {j \in DOMAIN up[t] : up[t][j][1] = "str"}}
Aims(t, ops) == {Append(cur[t], x[2]) : x \in {y \in Pending(t) : Len(y) = 2 /\ y[1] \in ops}}
Uses(t) == {cur[t]} \union Aims(t, {"cd", "gets"})

\* What users do.  Orderly ones keep their sessions apart: in one they remove
\* nothing that another is in, goes to or gets, nor a directory above that, and
\* they go to nothing, and get nothing, that another has yet to remove (remove is
\* answered before it is done).  They do not type cd /x: that is appended to the
\* path without a check.
Allowed(s, op, n) ==
    Orderly => \A t \in Sessions \ {s} : LET p == Append(cur[s], n) IN
        /\ op = "remove" /\ wpc[t] # "gone" => \A q \in Uses(t) : ~IsPrefix(p, q)
        /\ op \in {"cd", "gets"} => p \notin Aims(t, {"remove"})

OpsOf(s) == IF s \in Builders THEN {"cd", "mkdir", "puts", "remove"} ELSE Ops

Operands(s, op) ==
    IF op = "cd" THEN {"..", "."} \union {n \in Names : Len(cur[s]) + 2 <= Depth}
    ELSE Names

CdWord(n) == IF Orderly \/ n \notin Names THEN {<<"cd", n>>} ELSE {<<"cd", n>>, <<"cd", n, "/">>}

Ask(s) ==
    \E op \in OpsOf(s) : \E n \in Operands(s, op), exists \in BOOLEAN :
    \E word \in IF op = "cd" THEN CdWord(n) ELSE {<<op, n>>} :
      /\ cpc[s] = "prompt" /\ Allowed(s, op, n) /\ Len(up[s]) <= Window
      /\ exists => op = "puts"
      /\ up' = [up EXCEPT ![s] = @ \o <<Str(word)>> \o
                  (CASE op = "mkdir" -> <<Str(<<n>>)>>
                     [] op = "puts" /\ exists -> <<Number(1), Str(<<n>>), Str(<<"hash">>)>>
                     [] op = "puts" /\ ~exists -> <<Number(-1)>>
                     [] OTHER -> <<>>)]
      /\ cpc' = [cpc EXCEPT ![s] = IF op = "puts" /\ ~exists THEN "prompt" ELSE op]
      /\ UNCHANGED <<files, locals, wpc, wcmd, down, fault>>

\* How recvFile can leave what is sent: taken, or, when it has to map a file that
\* it could not open, with the rest of it in the stream.
Rests(opened) == IF Large /\ ~opened THEN BOOLEAN ELSE {FALSE}

\* The next item, its kind checked.  (The client may not be able to make a file.)
Hears(s, kind, next, items) ==
    /\ down[s] # <<>>
    /\ \E rest \in Rests(kind # "file") :
          down' = IF rest THEN down ELSE [down EXCEPT ![s] = Tail(@)]
    /\ IF Head(down[s])[1] = kind
       THEN /\ cpc' = [cpc EXCEPT ![s] = next]
            /\ up' = [up EXCEPT ![s] = @ \o items]
            /\ UNCHANGED fault
       ELSE fault' = "misread" /\ UNCHANGED <<cpc, up>>
    /\ UNCHANGED <<files, locals, wpc, wcmd>>

Hear(s) ==
    LET v == Head(down[s])[2]
    IN \/ cpc[s] \in {"cd", "remove", "mkdir"} /\ Hears(s, "int", "prompt", <<>>)
       \/ cpc[s] = "pwd" /\ Hears(s, "str", "prompt", <<>>)
       \/ cpc[s] = "ls" /\ Hears(s, "byte", IF v = 0 THEN "prompt" ELSE "lsName", <<>>)
       \/ cpc[s] = "lsName" /\ Hears(s, "str", "lsSize", <<>>)
       \/ cpc[s] = "lsSize" /\ Hears(s, "long", "ls", <<>>)
       \/ cpc[s] = "puts" /\ Hears(s, "int", IF v = 1 THEN "putsSize" ELSE "prompt",
                                   IF v = 0 THEN <<File>> ELSE <<>>)
       \/ cpc[s] = "putsSize" /\ Hears(s, "long", "prompt", <<File>>)
       \/ \E here \in BOOLEAN :
            cpc[s] = "gets" /\ Hears(s, "int", IF v = 1 THEN "getsFile" ELSE "prompt",
                                     IF v # 1 THEN <<>> ELSE IF here THEN <<Number(1), Long>>
                                     ELSE <<Number(0)>>)
       \/ cpc[s] = "getsFile" /\ Hears(s, "file", "prompt", <<>>)

\* The user leaves, perhaps between two sends.
HangUp(s) ==
    /\ cpc[s] # "gone"
    /\ cpc' = [cpc EXCEPT ![s] = "gone"]
    /\ \E k \in 0..Len(up[s]) : up' = [up EXCEPT ![s] = SubSeq(@, 1, k)]
    /\ down' = [down EXCEPT ![s] = <<>>]
    /\ UNCHANGED <<files, locals, wpc, wcmd, fault>>

(***************************************************************************)
(* The worker.                                                             *)
(***************************************************************************)

\* At the head of the loop the buffers are cleared.
Goto(s, l) ==
    /\ wpc' = [wpc EXCEPT ![s] = l]
    /\ wcmd' = [wcmd EXCEPT ![s] = IF l \in {"recv", "gone"} THEN <<>> ELSE @]
Eof(s) == up[s] = <<>> /\ cpc[s] = "gone"
Sends(s, items) ==
    down' = IF cpc[s] = "gone" THEN down ELSE [down EXCEPT ![s] = @ \o items]

\* At label l: receive an item of a kind and go on.  A recv_n that fails leaves
\* its variables as they were; all paths then come to the first recv_n of the
\* loop without an effect.
Receives(s, l, kind, next) ==
    /\ wpc[s] = l
    /\ IF up[s] # <<>>
       THEN /\ up' = [up EXCEPT ![s] = Tail(@)]
            /\ IF Head(up[s])[1] = kind THEN Goto(s, next) /\ UNCHANGED fault
               ELSE fault' = "misread" /\ UNCHANGED <<wpc, wcmd>>
       ELSE Eof(s) /\ Goto(s, "recv") /\ UNCHANGED <<up, fault>>
    /\ UNCHANGED <<files, locals, cpc, down>>

\* splitChar: the first word is the operation.  Any other word is passed over,
\* as is the operand that the client of mkdir sends once more.
RecvCommand(s) ==
    /\ wpc[s] = "recv" /\ up[s] # <<>>
    /\ up' = [up EXCEPT ![s] = Tail(@)]
    /\ IF Head(up[s])[1] # "str"
       THEN fault' = "misread" /\ UNCHANGED <<wpc, wcmd>>
       ELSE LET x == Head(up[s])[2]
            IN /\ IF x[1] \in Ops
                  THEN /\ wcmd' = [wcmd EXCEPT ![s] = IF Len(x) = 1 THEN Append(x, "") ELSE x]
                       /\ wpc' = [wpc EXCEPT ![s] = x[1]]
                  ELSE UNCHANGED <<wpc, wcmd>>
               /\ UNCHANGED fault
    /\ UNCHANGED <<files, locals, cpc, down>>

Return(s) == /\ wpc[s] = "recv" /\ Eof(s)
             /\ Goto(s, "gone")
             /\ UNCHANGED <<files, locals, cpc, up, down, fault>>

\* opendir of a directory that is not there, and readdir of NULL.
ReadsNull(s) == /\ wpc[s] \in {"cd", "ls", "mkdir", "putsCheck", "gets", "remove"}
                /\ ~IsDir(cur[s])
                /\ wpc[s] = "cd" => wcmd[s][2] \in Names /\ Len(wcmd[s]) = 2
                /\ wpc[s] = "putsCheck" => ~known
Crash(s) == fault' = "crash" /\ UNCHANGED <<files, locals, wpc, wcmd, cpc, up, down>>

\* Mutant: cd does not look whether the directory is there.
CdUnchecked(s) ==
    /\ wpc[s] = "cd" /\ wcmd[s][2] \in Names
    /\ cur' = [cur EXCEPT ![s] = Path(s)]
    /\ Sends(s, <<Number(1)>>)
    /\ Goto(s, "recv")
    /\ UNCHANGED <<files, entries, cpc, up, fault>>

Cd(s) ==
    LET n == wcmd[s][2]
        absolute == Len(wcmd[s]) = 3
        ok == n \in {".", ".."} \/ absolute \/ At(s) = "dir"
    IN /\ wpc[s] = "cd"
       /\ cur' = [cur EXCEPT ![s] = IF n = ".." /\ @ # <<>> THEN Front(@)
                                    ELSE IF ok /\ n \in Names THEN Path(s) ELSE @]
       /\ Sends(s, <<Number(IF ok THEN 1 ELSE 0)>>)
       /\ Goto(s, "recv")
       /\ UNCHANGED <<files, entries, cpc, up, fault>>

Ls(s) ==
    /\ wpc[s] = "ls"
    /\ entries' = [entries EXCEPT ![s] = {Last(p) : p \in Inside(cur[s])}]
    /\ Goto(s, "lsEntry")
    /\ UNCHANGED <<files, cur, cpc, up, down, fault>>

\* One entry.  When it has gone stat fails and the buffer keeps what it had; for
\* something that is neither file nor directory no type is sent.
LsEntry(s) ==
    /\ wpc[s] = "lsEntry"
    /\ \E n \in entries[s] :
         LET now == tree[Append(cur[s], n)]
         IN \E type \in IF now = "none" THEN Garbage ELSE {now} :
            /\ entries' = [entries EXCEPT ![s] = @ \ {n}]
            /\ Sends(s, (IF type = "other" THEN <<>> ELSE <<Byte(1)>>) \o <<Str(<<n>>), Long>>)
    /\ UNCHANGED <<files, cur, wpc, wcmd, cpc, up, fault>>

LsEnd(s) ==
    /\ wpc[s] = "lsEntry" /\ entries[s] = {}
    /\ Sends(s, <<Byte(0)>>)
    /\ Goto(s, "recv")
    /\ UNCHANGED <<files, locals, cpc, up, fault>>

\* Mutant: the -1 of a client without the file is overlooked.
PutsGoesOn(s) == Receives(s, "puts", "int", "putsName")

\* puts: the client's open has failed (-1), or the name and the hash follow.
Puts(s) == Receives(s, "puts", "int",
                    IF up[s] # <<>> /\ Head(up[s])[2] = -1 THEN "recv" ELSE "putsName")
PutsName(s) == Receives(s, "putsName", "str", "putsHash")
PutsHash(s) == Receives(s, "putsHash", "str", "putsCheck")

PutsCheck(s) ==
    /\ wpc[s] = "putsCheck"
    /\ \/ known /\ Sends(s, <<Number(2)>>) /\ Goto(s, "link")
       \/ ~known /\ At(s) = "dir" /\ Sends(s, <<Number(-1)>>) /\ Goto(s, "recv")
       \/ ~known /\ At(s) = "file" /\ Sends(s, <<Number(1), Long>>) /\ Goto(s, "recvFile")
       \/ ~known /\ At(s) = "none" /\ Sends(s, <<Number(0)>>) /\ Goto(s, "recvFile")
    /\ UNCHANGED <<files, cur, entries, cpc, up, fault>>

\* A new name in cur, when nothing has that name.
Creates(s, type) ==
    tree' = IF At(s) = "none" /\ IsDir(cur[s]) THEN [tree EXCEPT ![Path(s)] = type] ELSE tree

\* The instant transfer.
Link(s) ==
    /\ wpc[s] = "link"
    /\ Creates(s, "file")
    /\ Goto(s, "recv")
    /\ UNCHANGED <<known, locals, cpc, up, down, fault>>

\* recvFile, and the row; whether open, link and the statement succeed is not
\* looked at.  A client that leaves may leave the file behind, and a row as well
\* (a torn length, TransFile).
RecvFile(s) ==
    /\ wpc[s] = "recvFile"
    /\ IF up[s] # <<>>
       THEN /\ \E rest \in Rests(At(s) = "file" \/ (At(s) = "none" /\ IsDir(cur[s]))) :
                 /\ up' = IF rest THEN up ELSE [up EXCEPT ![s] = Tail(@)]
                 /\ known' \in IF rest \/ Head(up[s]) # File THEN {known} ELSE {known, TRUE}
            /\ IF Head(up[s]) = File
               THEN Creates(s, "file") /\ UNCHANGED fault
               ELSE fault' = "misread" /\ UNCHANGED tree
       ELSE /\ Eof(s)
            /\ Creates(s, "file") \/ UNCHANGED tree
            /\ known' \in {known, TRUE}
            /\ UNCHANGED <<up, fault>>
    /\ Goto(s, "recv")
    /\ UNCHANGED <<locals, cpc, down>>

Gets(s) ==
    /\ wpc[s] = "gets"
    /\ Sends(s, <<Number(IF At(s) = "file" THEN 1 ELSE -1)>>)
    /\ Goto(s, IF At(s) = "file" THEN "getsHere" ELSE "recv")
    /\ UNCHANGED <<files, locals, cpc, up, fault>>
GetsHere(s) == Receives(s, "getsHere", "int",
                        IF up[s] # <<>> /\ Head(up[s])[2] = 1 THEN "getsSize" ELSE "transFile")
GetsSize(s) == Receives(s, "getsSize", "long", "transFile")

\* transFile.  When the file has gone read gives -1 for ever, and the lengths of
\* -1 that are sent keep the client busy as well; or (fstat has failed, too) the
\* size is taken to be Large, and the client waits for what a length announces.
TransFile(s) ==
    /\ wpc[s] = "transFile" /\ (At(s) = "file" \/ cpc[s] = "gone")
    /\ Sends(s, <<File>>)
    /\ Goto(s, "recv")
    /\ UNCHANGED <<files, locals, cpc, up, fault>>

\* Mutant: a remove of nothing is not answered.
RemoveSilent(s) ==
    /\ wpc[s] = "remove"
    /\ Sends(s, IF At(s) = "none" THEN <<>> ELSE <<Number(1)>>)
    /\ Goto(s, IF At(s) = "dir" THEN "rmdir" ELSE IF At(s) = "file" THEN "rmfile" ELSE "recv")
    /\ UNCHANGED <<files, locals, cpc, up, fault>>

RemoveCheck(s) ==
    /\ wpc[s] = "remove"
    /\ Sends(s, <<Number(IF At(s) = "none" THEN -1 ELSE 1)>>)
    /\ Goto(s, IF At(s) = "dir" THEN "rmdir" ELSE IF At(s) = "file" THEN "rmfile" ELSE "recv")
    /\ UNCHANGED <<files, locals, cpc, up, fault>>

\* remove(3); a directory goes when it is empty.
Removes(s) ==
    tree' = IF Inside(Path(s)) = {} THEN [tree EXCEPT ![Path(s)] = "none"] ELSE tree
RemoveDir(s) ==
    /\ wpc[s] = "rmdir"
    /\ Removes(s)
    /\ Goto(s, "recv")
    /\ UNCHANGED <<known, locals, cpc, up, down, fault>>

\* Other users may have the file (more than two links), or else the row goes first.
RemoveRow(s) ==
    /\ wpc[s] = "rmfile"
    /\ known' \in {known, FALSE}
    /\ Goto(s, "rmlink")
    /\ UNCHANGED <<tree, cur, entries, cpc, up, down, fault>>
RemoveFile(s) ==
    /\ wpc[s] = "rmlink"
    /\ Removes(s)
    /\ Goto(s, "recv")
    /\ UNCHANGED <<known, locals, cpc, up, down, fault>>

Pwd(s) ==
    /\ wpc[s] = "pwd"
    /\ Sends(s, <<Str(cur[s])>>)
    /\ Goto(s, "recv")
    /\ UNCHANGED <<files, locals, cpc, up, fault>>

Mkdir(s) ==
    /\ wpc[s] = "mkdir"
    /\ Sends(s, <<Number(IF At(s) = "none" THEN 0 ELSE -1)>>)
    /\ Goto(s, IF At(s) = "none" THEN "makeDir" ELSE "recv")
    /\ UNCHANGED <<files, locals, cpc, up, fault>>
MakeDir(s) ==
    /\ wpc[s] = "makeDir"
    /\ Creates(s, "dir")
    /\ Goto(s, "recv")
    /\ UNCHANGED <<known, locals, cpc, up, down, fault>>

Step(s) ==
    \/ RecvCommand(s) \/ Return(s)
    \/ Cd(s) \/ Ls(s) \/ LsEntry(s) \/ LsEnd(s) \/ Pwd(s) \/ Mkdir(s) \/ MakeDir(s)
    \/ Puts(s) \/ PutsName(s) \/ PutsHash(s) \/ PutsCheck(s) \/ Link(s) \/ RecvFile(s)
    \/ Gets(s) \/ GetsHere(s) \/ GetsSize(s) \/ TransFile(s)
    \/ RemoveCheck(s) \/ RemoveDir(s) \/ RemoveRow(s) \/ RemoveFile(s)

ServerClient(s) == IF ReadsNull(s) THEN Crash(s) ELSE Step(s)

Next == /\ fault = "no"
        /\ \E s \in Sessions : Ask(s) \/ Hear(s) \/ HangUp(s) \/ ServerClient(s)

Spec == Init /\ [][Next]_vars

\* The two programs run.
Fair == \A s \in Sessions : /\ WF_vars(fault = "no" /\ ServerClient(s))
                            /\ WF_vars(fault = "no" /\ Hear(s))
FairSpec == Spec /\ Fair

(***************************************************************************)
(* Properties                                                              *)
(***************************************************************************)

\* The fields keep their kinds.
TypeOK ==
    /\ tree \in [Paths -> {"none", "file", "dir"}] /\ known \in BOOLEAN
    /\ \A p \in Paths : Len(p) > 1 /\ tree[p] # "none" => tree[Front(p)] = "dir"
    /\ \A s \in Sessions : cur[s] \in Paths
    /\ entries \in [Sessions -> SUBSET Names]
    /\ fault \in {"no", "misread", "crash"}

\* The two ends read what the other end means, through every command, refusal
\* and hang-up, although the stream has no frames: nothing is left over for a
\* client at its prompt, and what a worker finds when it comes for a command is a
\* command or the operand of a mkdir.  Files are of up to 100 MB (~Large): of a
\* larger one whose open fails, because the name has become a directory since
\* fileExist looked, or since the client may not make it, the rest is left over
\* (transFile.cpp:158-175, client/transFile.cpp:180-196).
Aligned ==
    /\ fault # "misread"
    /\ \A s \in Sessions :
         /\ cpc[s] = "prompt" => down[s] = <<>>
         /\ wpc[s] = "recv" => \A i \in DOMAIN up[s] :
              up[s][i][1] # "str" =>
                \E j \in 1..(i - 1) : up[s][j][1] = "str" /\ up[s][j][2][1] = "puts"

\* Sessions stay in directories that exist, while others of the user make and
\* remove names around them, so that no opendir fails: cd looks at the directory
\* when it is carried out, and a directory that is not empty is not removed.  The
\* user keeps the sessions apart (Orderly): a directory in which another session
\* is can be removed (main.cpp:463), and that session's next command is the end of
\* the server.
PathsExist == fault # "crash" /\ \A s \in Sessions : wpc[s] # "gone" => IsDir(cur[s])

\* Every command comes to its end at the client, unless the server dies.
Answered == \A s \in Sessions :
    cpc[s] \notin {"prompt", "gone"} ~> cpc[s] \in {"prompt", "gone"} \/ fault = "crash"
=============================================================================
