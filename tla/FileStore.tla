----------------------------- MODULE FileStore -----------------------------
(***************************************************************************)
(* How FileServerAdvance (src/main.cpp) keeps files.  A file the server    *)
(* holds has one inode, linked from the virtual directory under its MD5    *)
(* and from the directory of every user who has put it, and a row in the   *)
(* table FileInfo.  A worker serves a puts: if the row is there it links   *)
(* the virtual file into the user's directory (the instant transfer), else *)
(* it receives the bytes the user's file lacks and then links and inserts. *)
(* Main serves a remove.  No lock covers any of it: each system call, each *)
(* SQL statement and each chunk received is a step, and a connection or    *)
(* the whole server may stop after any of them.                            *)
(*                                                                         *)
(* A content is a sequence of chunks and is its own hash.  Files are those *)
(* of the chunk-by-chunk path of recvFile (at most 100 MB).                *)
(***************************************************************************)
EXTENDS Integers, Sequences, FiniteSets

CONSTANTS
    Path,     \* files in the users' directories: a user and a name each
    File,     \* contents the clients hold: non-empty sequences of chunks
    Inode,
    Worker,
    Orderly,  \* clients do one thing with a path at a time, and put one
              \* content there until they remove it
    DbFails,  \* a statement sent to the database may fail
    Torn,     \* a connection may break inside the four bytes of a length
    None

Chunk == UNION {{f[j] : j \in 1..Len(f)} : f \in File}

ASSUME FileAssumption == File \subseteq Seq(Chunk) \ {<< >>}
ASSUME FiniteAssumption == IsFiniteSet(Path) /\ IsFiniteSet(File)
ASSUME SwitchAssumption == {Orderly, DbFails, Torn} \subseteq BOOLEAN
ASSUME NoneAssumption == None \notin Inode \cup File \cup Path

VARIABLES
    data,      \* data[i]: the bytes of inode i
    user,      \* user[p]: the inode linked at path p, or None
    virtual,   \* virtual[f]: the inode linked under the hash of f, or None
    FileInfo,  \* the hashes in the table
    up,        \* up[w]: the puts worker w serves
    rm,        \* the remove main serves
    intent     \* auxiliary: what clients have put at a path and not removed

vars == <<data, user, virtual, FileInfo, up, rm, intent>>

Idle == [pc |-> "idle", path |-> None, file |-> None, fd |-> None, offset |-> 0,
         first |-> TRUE]
NoRemove == [pc |-> "idle", path |-> None, hash |-> None]

Init ==
    /\ data = [i \in Inode |-> << >>]
    /\ user = [p \in Path |-> None]
    /\ virtual = [f \in File |-> None]
    /\ FileInfo = {}
    /\ up = [w \in Worker |-> Idle]
    /\ rm = NoRemove
    /\ intent = [p \in Path |-> None]

-----------------------------------------------------------------------------
(* The file system. *)
st_nlink(i) == Cardinality({p \in Path : user[p] = i})
             + Cardinality({f \in File : virtual[f] = i})

Unused(i) == st_nlink(i) = 0 /\ \A w \in Worker : up[w].fd # i

(* link(from, to) in a directory: fails if there is no from or already a to. *)
Link(from, dir, to) ==
    IF from # None /\ dir[to] = None THEN [dir EXCEPT ![to] = from] ELSE dir

-----------------------------------------------------------------------------
(* sqlTableChange: its result is not looked at. *)
SqlTableChange(rows) ==
    FileInfo' \in {rows} \cup (IF DbFails THEN {FileInfo} ELSE {})

(* A worker serves a puts of file f at path p. *)
Busy(p) == rm.path = p \/ \E w \in Worker : up[w].path = p

Goto(w, pc) == up' = [up EXCEPT ![w].pc = pc]
Done(w) == up' = [up EXCEPT ![w] = Idle]

StartPut(w, p, f) ==
    /\ up[w].pc = "idle"
    /\ Orderly => ~Busy(p) /\ intent[p] \in {None, f}
    /\ up' = [up EXCEPT ![w] = [Idle EXCEPT !.pc = "select", !.path = p, !.file = f]]
    /\ intent' = [intent EXCEPT ![p] = f]
    /\ UNCHANGED <<data, user, virtual, FileInfo, rm>>

(* sqlFindData: 1 if the row is there; 0 if not and -1 if the query fails  *)
(* are treated alike.                                                      *)
Select(w) ==
    /\ up[w].pc = "select"
    /\ \/ up[w].file \in FileInfo /\ Goto(w, "instant")
       \/ (up[w].file \notin FileInfo \/ DbFails) /\ Goto(w, "exist")
    /\ UNCHANGED <<data, user, virtual, FileInfo, rm, intent>>

(* The client has been told the file is there; link's result is not read.  *)
Instant(w) ==
    /\ up[w].pc = "instant"
    /\ user' = Link(virtual[up[w].file], user, up[w].path)
    /\ Done(w)
    /\ UNCHANGED <<data, virtual, FileInfo, rm, intent>>

FileExist(w) ==
    /\ up[w].pc = "exist"
    /\ Goto(w, IF user[up[w].path] = None THEN "open" ELSE "stat")
    /\ UNCHANGED <<data, user, virtual, FileInfo, rm, intent>>

(* Mutants: the size found is not kept; the end of the stream, or a failed *)
(* transfer, counts as the end of the file; the descriptor is not closed.  *)
StatForgotten(w) ==
    /\ up[w].pc = "stat"
    /\ Goto(w, "open")
    /\ UNCHANGED <<data, user, virtual, FileInfo, rm, intent>>

RecvEndEarly(w) ==
    /\ up[w].pc = "recv"
    /\ up' = [up EXCEPT ![w].pc = "link", ![w].fd = None]
    /\ UNCHANGED <<data, user, virtual, FileInfo, rm, intent>>

RecvFailIgnored(w) == RecvEndEarly(w)

(* If the file has gone since, stat fails and sta holds some older size.   *)
Stat(w) ==
    /\ up[w].pc = "stat"
    /\ \E size \in IF user[up[w].path] # None
                   THEN {Len(data[user[up[w].path]])}
                   ELSE {Len(f) : f \in File} \cup {0} :
          up' = [up EXCEPT ![w].pc = "open", ![w].offset = size]
    /\ UNCHANGED <<data, user, virtual, FileInfo, rm, intent>>

Open(w) ==
    /\ up[w].pc = "open"
    /\ \/ /\ user[up[w].path] # None
          /\ up' = [up EXCEPT ![w].pc = "recv", ![w].fd = user[up[w].path]]
          /\ UNCHANGED <<data, user>>
       \/ /\ user[up[w].path] = None
          /\ \E i \in Inode :
                /\ Unused(i)
                /\ data' = [data EXCEPT ![i] = << >>]
                /\ user' = [user EXCEPT ![up[w].path] = i]
                /\ up' = [up EXCEPT ![w].pc = "recv", ![w].fd = i]
    /\ UNCHANGED <<virtual, FileInfo, rm, intent>>

(* The client sends its file from offset on; O_APPEND writes at the end of *)
(* the server's.                                                           *)
RecvChunk(w) ==
    /\ up[w].pc = "recv"
    /\ up[w].offset < Len(up[w].file)
    /\ data' = [data EXCEPT ![up[w].fd] = Append(@, up[w].file[up[w].offset + 1])]
    /\ up' = [up EXCEPT ![w].offset = @ + 1, ![w].first = FALSE]
    /\ UNCHANGED <<user, virtual, FileInfo, rm, intent>>

(* What ends the loop is dataLen = 0, which the client sends at the end of *)
(* the file.  The length of the first chunk is received over the 8 that the   *)
(* length of the file size left in dataLen: if the connection breaks after *)
(* its lowest byte, and that is 0 (a full chunk has 1024 bytes), dataLen   *)
(* is 0 too, and that is looked at before recv_n's result.                 *)
LengthIsZero(w) ==
    \/ up[w].offset >= Len(up[w].file)
    \/ Torn /\ up[w].first

RecvEnd(w) ==
    /\ up[w].pc = "recv"
    /\ LengthIsZero(w)
    /\ up' = [up EXCEPT ![w].pc = "link", ![w].fd = None]
    /\ UNCHANGED <<data, user, virtual, FileInfo, rm, intent>>

(* The client or the network goes away in the middle of the transfer.      *)
RecvFail(w) ==
    /\ up[w].pc = "recv"
    /\ Done(w)
    /\ UNCHANGED <<data, user, virtual, FileInfo, rm, intent>>

LinkVirtual(w) ==
    /\ up[w].pc = "link"
    /\ virtual' = Link(user[up[w].path], virtual, up[w].file)
    /\ Goto(w, "insert")
    /\ UNCHANGED <<data, user, FileInfo, rm, intent>>

InsertRow(w) ==
    /\ up[w].pc = "insert"
    /\ SqlTableChange(FileInfo \cup {up[w].file})
    /\ Done(w)
    /\ UNCHANGED <<data, user, virtual, rm, intent>>

-----------------------------------------------------------------------------
(* Main serves a remove of path p. *)
StartRemove(p) ==
    /\ rm.pc = "idle"
    /\ user[p] # None
    /\ Orderly => ~Busy(p)
    /\ rm' = [NoRemove EXCEPT !.pc = "stat", !.path = p]
    /\ UNCHANGED <<data, user, virtual, FileInfo, up, intent>>

RemoveStat ==
    /\ rm.pc = "stat"
    /\ rm' = IF st_nlink(user[rm.path]) > 2
             THEN [rm EXCEPT !.pc = "unlink"]
             ELSE [rm EXCEPT !.pc = "md5"]
    /\ UNCHANGED <<data, user, virtual, FileInfo, up, intent>>

RemoveHash ==
    /\ rm.pc = "md5"
    /\ rm' = [rm EXCEPT !.pc = "delete", !.hash = data[user[rm.path]]]
    /\ UNCHANGED <<data, user, virtual, FileInfo, up, intent>>

DeleteRow ==
    /\ rm.pc = "delete"
    /\ SqlTableChange(FileInfo \ {rm.hash})
    /\ rm' = [rm EXCEPT !.pc = "unlink"]
    /\ UNCHANGED <<data, user, virtual, up, intent>>

UnlinkUser ==
    /\ rm.pc = "unlink"
    /\ user' = [user EXCEPT ![rm.path] = None]
    /\ intent' = [intent EXCEPT ![rm.path] = None]
    /\ rm' = IF rm.hash = None THEN NoRemove
             ELSE [rm EXCEPT !.pc = "unlink virtual", !.path = None]
    /\ UNCHANGED <<data, virtual, FileInfo, up>>

UnlinkVirtual ==
    /\ rm.pc = "unlink virtual"
    /\ virtual' = [f \in File |-> IF f = rm.hash THEN None ELSE virtual[f]]
    /\ rm' = NoRemove
    /\ UNCHANGED <<data, user, FileInfo, up, intent>>

(* The server stops and is started again: only the disk survives.          *)
Restart ==
    /\ up' = [w \in Worker |-> Idle]
    /\ rm' = NoRemove
    /\ UNCHANGED <<data, user, virtual, FileInfo, intent>>

WorkerStep(w) ==
    \/ Select(w) \/ Instant(w) \/ FileExist(w) \/ Stat(w) \/ Open(w)
    \/ RecvChunk(w) \/ RecvEnd(w) \/ RecvFail(w)
    \/ LinkVirtual(w) \/ InsertRow(w)

RemoveStep == RemoveStat \/ RemoveHash \/ DeleteRow \/ UnlinkUser \/ UnlinkVirtual

Next ==
    \/ \E w \in Worker, p \in Path, f \in File : StartPut(w, p, f)
    \/ \E w \in Worker : WorkerStep(w)
    \/ \E p \in Path : StartRemove(p)
    \/ RemoveStep
    \/ Restart

Spec == Init /\ [][Next]_vars

-----------------------------------------------------------------------------
PrefixOf(s, f) == Len(s) <= Len(f) /\ s = SubSeq(f, 1, Len(s))

(* What a worker may be doing: it holds a descriptor of the file only      *)
(* while it receives.                                                      *)
Upload ==
    {u \in [pc : {"idle", "select", "instant", "exist", "stat", "open", "recv",
                  "link", "insert"},
            path : Path \cup {None}, file : File \cup {None},
            fd : Inode \cup {None}, offset : Nat, first : BOOLEAN] :
        /\ u.pc # "idle" => u.path \in Path /\ u.file \in File
        /\ u.fd # None <=> u.pc = "recv"}

(* Type invariant of the disk, the table and the operations under way.     *)
TypeOK ==
    /\ data \in [Inode -> Seq(Chunk)]
    /\ user \in [Path -> Inode \cup {None}]
    /\ virtual \in [File -> Inode \cup {None}]
    /\ FileInfo \in SUBSET File
    /\ up \in [Worker -> Upload]
    /\ rm \in [pc : {"idle", "stat", "md5", "delete", "unlink", "unlink virtual"},
               path : Path \cup {None}, hash : Seq(Chunk) \cup {None}]
    /\ intent \in [Path -> File \cup {None}]

(* What the virtual directory keeps under a hash has that hash, whichever  *)
(* uploads are interrupted, resumed or raced by other users and wherever   *)
(* the server stops: main.cpp:504 hands that file out unread.              *)
VirtualIntact ==
    \A f \in File : virtual[f] # None => data[virtual[f]] = f

(* An upload that is broken off and resumed (main.cpp:522-537) never       *)
(* leaves a gap or a repeated chunk: a user's file is always a beginning   *)
(* of what the user put there.                                             *)
UploadsArePrefixes ==
    \A p \in Path : user[p] # None =>
        intent[p] # None /\ PrefixOf(data[user[p]], intent[p])

(* When recvFile reports success (main.cpp:538) the user's path holds the  *)
(* whole file, so what is then linked under the hash and entered in the    *)
(* table is that file.                                                     *)
CompleteWhenLinked ==
    \A w \in Worker : up[w].pc \in {"link", "insert"} =>
        user[up[w].path] # None /\ data[user[up[w].path]] = up[w].file

(* "the virtual directory has this file: instant transfer" (main.cpp:504): *)
(* what the table names is in the virtual directory.                       *)
RowHasFile ==
    rm.pc = "idle" => \A f \in FileInfo : virtual[f] # None

(* The client that is told 2 ("instant transfer", main.cpp:504) has its    *)
(* file on the server when the link is done.                               *)
InstantDelivers ==
    [][\A w \in Worker : Instant(w) =>
          /\ user'[up[w].path] # None
          /\ data[user'[up[w].path]] = up[w].file]_vars

(* "link count = 2: delete the user's file and the virtual one"            *)
(* (main.cpp:404): the virtual file that goes is the user's own inode,     *)
(* which has no other name.                                                *)
RemovesOwnVirtual ==
    [][\A f \in File : virtual[f] # None /\ virtual'[f] = None =>
          st_nlink(virtual[f]) = 1]_vars
=============================================================================
