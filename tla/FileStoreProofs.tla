--------------------------- MODULE FileStoreProofs ---------------------------
(***************************************************************************)
(* Proofs about the file store, for any number of paths, contents, inodes  *)
(* and workers.  The fields keep their kinds whatever the clients do.  The *)
(* three invariants about contents hold while clients do one thing with a  *)
(* path at a time (Orderly) and no connection breaks inside a length       *)
(* (~Torn); they are not inductive: that a byte received is the next one   *)
(* of the file, and that the inode written to is no finished file, follows *)
(* from how far a worker is with its path (Stages) and from what two names *)
(* of one inode have in common (Shared, Named).                            *)
(***************************************************************************)
EXTENDS FileStore, SequenceTheorems, FiniteSetTheorems, TLAPS

(* The file main is removing is there until main unlinks it.               *)
Removal ==
  rm.pc \in {"stat", "md5", "delete", "unlink"} => rm.path \in Path /\ user[rm.path] # None

TInv == TypeOK /\ Removal

(* Whatever is under way with a path is one thing.                         *)
Exclusive ==
  \A w \in Worker : up[w].path \in Path =>
    /\ up[w].path # rm.path
    /\ \A v \in Worker \ {w} : up[v].path # up[w].path

(* How far a worker is with its file, against what the path holds.         *)
At(u) ==
  LET p == u.path
  IN  /\ u.pc # "idle" => intent[p] = u.file
      /\ u.pc \in {"select", "instant", "exist"} => u.offset = 0
      /\ u.pc \in {"stat", "recv", "link", "insert"} => user[p] # None
      /\ u.pc = "open" =>
           u.offset = IF user[p] = None THEN 0 ELSE Len(data[user[p]])
      /\ u.pc = "recv" => u.fd = user[p] /\ u.offset = Len(data[user[p]])
      /\ u.pc \in {"link", "insert"} => data[user[p]] = u.file

Stages == \A w \in Worker : At(up[w])

(* Two paths of one inode are of one content, and it is all there.         *)
Shared ==
  \A p, q \in Path : user[p] # None /\ user[p] = user[q] =>
    /\ intent[p] = intent[q]
    /\ p # q => data[user[p]] = intent[p]

(* A path and a hash of one inode are of one content.                      *)
Named ==
  \A p \in Path, f \in File : user[p] # None /\ user[p] = virtual[f] => intent[p] = f

IInv == /\ TInv
        /\ Exclusive /\ Stages /\ Shared /\ Named
        /\ VirtualIntact /\ UploadsArePrefixes

-----------------------------------------------------------------------------
(* A beginning of a file, place by place.                                  *)
LEMMA PrefixFacts ==
  ASSUME NEW s \in Seq(Chunk), NEW f \in Seq(Chunk)
  PROVE  PrefixOf(s, f) <=> Len(s) <= Len(f) /\ \A i \in 1 .. Len(s) : s[i] = f[i]
<1> DEFINE b == SubSeq(f, 1, Len(s))
<1>1. SUFFICES ASSUME Len(s) <= Len(f)
               PROVE  s = b <=> \A i \in 1 .. Len(s) : s[i] = f[i]
  BY DEF PrefixOf
<1>2. Len(s) \in Nat /\ Len(f) \in Nat
  BY LenProperties
<1>3. \A i \in 1 .. Len(s) : f[i] \in Chunk
  BY <1>1, <1>2, ElementOfSeq
<1>4. /\ b \in Seq(Chunk)
      /\ Len(b) = Len(s)
      /\ \A i \in 1 .. Len(s) : b[i] = f[i]
  BY <1>2, <1>3, SubSeqProperties
<1> HIDE DEF b
<1>5. (\A i \in 1 .. Len(s) : s[i] = b[i]) => s = b
  BY <1>4, SeqEqual
<1> QED
  BY <1>4, <1>5

(* Nothing is a beginning.                                                 *)
LEMMA PrefixEmpty ==
  ASSUME NEW s \in Seq(Chunk), Len(s) = 0, NEW f \in Seq(Chunk)
  PROVE  PrefixOf(s, f)
<1>1. Len(s) <= Len(f)
  BY LenProperties
<1>2. \A i \in 1 .. Len(s) : s[i] = f[i]
  OBVIOUS
<1> QED
  BY <1>1, <1>2, PrefixFacts

(* The chunk that follows makes a longer one.                              *)
LEMMA PrefixAppend ==
  ASSUME NEW s \in Seq(Chunk), NEW f \in Seq(Chunk),
         PrefixOf(s, f), Len(s) < Len(f)
  PROVE  LET t == Append(s, f[Len(s) + 1])
         IN  t \in Seq(Chunk) /\ Len(t) = Len(s) + 1 /\ PrefixOf(t, f)
<1> DEFINE t == Append(s, f[Len(s) + 1])
<1>1. Len(s) \in Nat /\ Len(f) \in Nat /\ Len(s) + 1 \in 1 .. Len(f)
  BY LenProperties
<1>2. f[Len(s) + 1] \in Chunk
  BY <1>1, ElementOfSeq
<1>3. /\ t \in Seq(Chunk) /\ Len(t) = Len(s) + 1
      /\ \A i \in 1 .. Len(s) : t[i] = s[i]
      /\ t[Len(s) + 1] = f[Len(s) + 1]
  BY <1>2, AppendProperties
<1>4. \A i \in 1 .. Len(s) : s[i] = f[i]
  BY PrefixFacts
<1> HIDE DEF t
<1>5. \A i \in 1 .. Len(t) : t[i] = f[i]
  BY <1>1, <1>3, <1>4
<1>6. PrefixOf(t, f)
  BY <1>1, <1>3, <1>5, PrefixFacts
<1> QED
  BY <1>3, <1>6 DEF t

(* A beginning as long as the file is the file, and a shorter one is not.  *)
LEMMA PrefixWhole ==
  ASSUME NEW s \in Seq(Chunk), NEW f \in Seq(Chunk), PrefixOf(s, f)
  PROVE  /\ Len(s) \in Nat /\ Len(f) \in Nat
         /\ Len(s) >= Len(f) <=> s = f
<1>1. Len(s) \in Nat /\ Len(f) \in Nat
  BY LenProperties
<1>2. Len(s) <= Len(f) /\ s = SubSeq(f, 1, Len(s))
  BY DEF PrefixOf
<1>3. SubSeq(f, 1, Len(f)) = f
  BY SubSeqFull
<1> QED
  BY <1>1, <1>2, <1>3

(* A whole file is a beginning of itself.                                  *)
LEMMA PrefixSelf ==
  ASSUME NEW f \in Seq(Chunk)
  PROVE  PrefixOf(f, f)
<1>1. Len(f) \in Nat
  BY LenProperties
<1> QED
  BY <1>1, PrefixFacts

(* An inode that open may take has no name and no descriptor.              *)
LEMMA UnusedFacts ==
  ASSUME TypeOK, NEW i \in Inode, Unused(i)
  PROVE  /\ \A p \in Path : user[p] # i
         /\ \A f \in File : virtual[f] # i
         /\ \A w \in Worker : up[w].fd # i
<1> DEFINE P == {p \in Path : user[p] = i}
           F == {f \in File : virtual[f] = i}
<1>1. IsFiniteSet(P) /\ IsFiniteSet(F)
  BY FiniteAssumption, FS_Subset
<1>2. Cardinality(P) \in Nat /\ Cardinality(F) \in Nat
  BY <1>1, FS_CardinalityType
<1>3. Cardinality(P) + Cardinality(F) = 0
  BY DEF Unused, st_nlink
<1>4. Cardinality(P) = 0 /\ Cardinality(F) = 0
  BY <1>2, <1>3
<1>5. P = {} /\ F = {}
  BY <1>1, <1>4, FS_EmptySet
<1> QED
  BY <1>5 DEF Unused

-----------------------------------------------------------------------------
(* The fields keep their kinds.                                            *)

(* A worker at another place of the puts, or at its end.                   *)
LEMMA MoveFacts ==
  ASSUME NEW u \in Upload, u.pc # "idle",
         NEW pc \in {"instant", "exist", "stat", "open", "link", "insert"}
  PROVE  /\ u.pc # "recv" => [u EXCEPT !.pc = pc] \in Upload
         /\ [u EXCEPT !.pc = pc, !.fd = None] \in Upload
         /\ \A n \in Nat :
              u.pc # "recv" => [u EXCEPT !.pc = pc, !.offset = n] \in Upload
         /\ \A i \in Inode : [u EXCEPT !.pc = "recv", !.fd = i] \in Upload
         /\ \A n \in Nat : [u EXCEPT !.offset = n, !.first = FALSE] \in Upload
  BY NoneAssumption DEF Upload

(* A worker without a puts.                                                *)
LEMMA IdleFacts == Idle \in Upload
  BY NoneAssumption DEF Upload, Idle

(* The empty disk.                                                         *)
LEMMA InitTInv == Init => TInv
  BY EmptySeq, IdleFacts DEF Init, NoRemove, TInv, TypeOK, Removal

(* Steps of a worker, in the order of a puts.                              *)
LEMMA WorkerTInv ==
  ASSUME TInv, NEW w \in Worker, WorkerStep(w)
  PROVE  TInv'
<1> DEFINE u == up[w]
<1>1. u \in Upload /\ up \in [Worker -> Upload]
  BY DEF TInv, TypeOK
<1>2. u.pc # "idle" => u.path \in Path /\ u.file \in File
  BY <1>1 DEF Upload
<1>3. \E v \in Upload : up' = [up EXCEPT ![w] = v]
  <2>1. CASE Select(w)
    BY <2>1, <1>1, MoveFacts DEF Select, Goto
  <2>2. CASE Instant(w) \/ RecvFail(w) \/ InsertRow(w)
    BY <2>2, IdleFacts DEF Instant, RecvFail, InsertRow, Done
  <2>3. CASE FileExist(w)
    BY <2>3, <1>1, MoveFacts DEF FileExist, Goto
  <2>4. CASE Stat(w)
    <3>1. PICK size \in IF user[u.path] # None
                        THEN {Len(data[user[u.path]])}
                        ELSE {Len(f) : f \in File} \cup {0} :
            up' = [up EXCEPT ![w].pc = "open", ![w].offset = size]
      BY <2>4 DEF Stat
    <3>2. \A f \in File : Len(f) \in Nat
      BY FileAssumption, LenProperties
    <3>3. \A i \in Inode : Len(data[i]) \in Nat
      BY LenProperties DEF TInv, TypeOK
    <3>4. user[u.path] # None => user[u.path] \in Inode
      BY <2>4, <1>2 DEF Stat, TInv, TypeOK
    <3>5. size \in Nat
      BY <3>1, <3>2, <3>3, <3>4
    <3>6. [u EXCEPT !.pc = "open", !.offset = size] \in Upload
      BY <2>4, <1>1, <3>5, MoveFacts DEF Stat
    <3> QED
      BY <3>1, <3>6
  <2>5. CASE Open(w)
    <3>1. PICK i \in Inode : up' = [up EXCEPT ![w].pc = "recv", ![w].fd = i]
      BY <2>5, <1>2 DEF Open, TInv, TypeOK
    <3>2. [u EXCEPT !.pc = "recv", !.fd = i] \in Upload
      BY <2>5, <1>1, MoveFacts DEF Open
    <3> QED
      BY <3>1, <3>2
  <2>6. CASE RecvChunk(w)
    <3>1. u.offset + 1 \in Nat
      BY <1>1 DEF Upload
    <3>2. [u EXCEPT !.offset = u.offset + 1, !.first = FALSE] \in Upload
      BY <2>6, <1>1, <3>1, MoveFacts DEF RecvChunk
    <3> QED
      BY <2>6, <3>2 DEF RecvChunk
  <2>7. CASE RecvEnd(w)
    <3>1. [u EXCEPT !.pc = "link", !.fd = None] \in Upload
      BY <2>7, <1>1, MoveFacts DEF RecvEnd
    <3> QED
      BY <2>7, <3>1 DEF RecvEnd
  <2>8. CASE LinkVirtual(w)
    BY <2>8, <1>1, MoveFacts DEF LinkVirtual, Goto
  <2> QED
    BY <2>1, <2>2, <2>3, <2>4, <2>5, <2>6, <2>7, <2>8 DEF WorkerStep
<1>4. up' \in [Worker -> Upload]
  BY <1>1, <1>3
<1>5. data' \in [Inode -> Seq(Chunk)]
  <2>1. CASE Open(w)
    <3>1. \A e \in Seq(Chunk) : \A i \in Inode :
            [data EXCEPT ![i] = e] \in [Inode -> Seq(Chunk)]
      BY DEF TInv, TypeOK
    <3>2. << >> \in Seq(Chunk)
      BY EmptySeq
    <3>3. data' = data \/ \E i \in Inode : data' = [data EXCEPT ![i] = << >>]
      BY <2>1 DEF Open
    <3>4. \A i \in Inode : [data EXCEPT ![i] = << >>] \in [Inode -> Seq(Chunk)]
      BY <3>1, <3>2
    <3> QED
      BY <3>3, <3>4 DEF TInv, TypeOK
  <2>2. CASE RecvChunk(w)
    <3>1. /\ u.pc = "recv" /\ u.file \in File /\ u.fd \in Inode
          /\ u.offset \in Nat /\ u.offset < Len(u.file)
      BY <2>2, <1>1 DEF RecvChunk, Upload
    <3>2. u.file \in Seq(Chunk) /\ Len(u.file) \in Nat
      BY <3>1, FileAssumption, LenProperties
    <3>3. u.offset + 1 \in 1 .. Len(u.file)
      BY <3>1, <3>2
    <3>4. u.file[u.offset + 1] \in Chunk
      BY <3>2, <3>3, ElementOfSeq
    <3>5. Append(data[u.fd], u.file[u.offset + 1]) \in Seq(Chunk)
      BY <3>1, <3>4, AppendProperties DEF TInv, TypeOK
    <3> QED
      BY <2>2, <3>1, <3>5 DEF RecvChunk, TInv, TypeOK
  <2>3. CASE ~Open(w) /\ ~RecvChunk(w)
    BY <2>3 DEF WorkerStep, Select, Instant, FileExist, Stat, RecvEnd, RecvFail,
                LinkVirtual, InsertRow, TInv, TypeOK
  <2> QED
    BY <2>1, <2>2, <2>3
<1>6. /\ user' \in [Path -> Inode \cup {None}]
      /\ \A p \in Path : user[p] # None => user'[p] # None
  <2>1. CASE Instant(w)
    BY <2>1, <1>2, NoneAssumption DEF Instant, Link, TInv, TypeOK
  <2>2. CASE Open(w)
    BY <2>2, NoneAssumption DEF Open, TInv, TypeOK
  <2>3. CASE ~Instant(w) /\ ~Open(w)
    BY <2>3 DEF WorkerStep, Select, FileExist, Stat, RecvChunk, RecvEnd, RecvFail,
                LinkVirtual, InsertRow, TInv, TypeOK
  <2> QED
    BY <2>1, <2>2, <2>3
<1>7. virtual' \in [File -> Inode \cup {None}]
  <2>1. CASE LinkVirtual(w)
    BY <2>1, <1>2 DEF LinkVirtual, Link, TInv, TypeOK
  <2>2. CASE ~LinkVirtual(w)
    BY <2>2 DEF WorkerStep, Select, Instant, FileExist, Stat, Open, RecvChunk, RecvEnd,
                RecvFail, InsertRow, TInv, TypeOK
  <2> QED
    BY <2>1, <2>2
<1>8. FileInfo' \in SUBSET File
  <2>1. CASE InsertRow(w)
    BY <2>1, <1>2 DEF InsertRow, SqlTableChange, TInv, TypeOK
  <2>2. CASE ~InsertRow(w)
    BY <2>2 DEF WorkerStep, Select, Instant, FileExist, Stat, Open, RecvChunk, RecvEnd,
                RecvFail, LinkVirtual, TInv, TypeOK
  <2> QED
    BY <2>1, <2>2
<1>9. UNCHANGED <<rm, intent>>
  BY DEF WorkerStep, Select, Instant, FileExist, Stat, Open, RecvChunk, RecvEnd,
         RecvFail, LinkVirtual, InsertRow
<1> QED
  BY <1>4, <1>5, <1>6, <1>7, <1>8, <1>9 DEF TInv, TypeOK, Removal

(* Every other step.                                                       *)
LEMMA NextTInv == TInv /\ [Next]_vars => TInv'
<1> SUFFICES ASSUME TInv, [Next]_vars PROVE TInv'
  OBVIOUS
<1> USE NoneAssumption DEF TInv, TypeOK, Removal
<1>1. ASSUME NEW w \in Worker, NEW p \in Path, NEW f \in File, StartPut(w, p, f)
      PROVE  TInv'
  <2>1. [Idle EXCEPT !.pc = "select", !.path = p, !.file = f] \in Upload
    BY NoneAssumption DEF Idle, Upload
  <2> QED
    BY <1>1, <2>1 DEF StartPut
<1>2. ASSUME NEW w \in Worker, WorkerStep(w) PROVE TInv'
  BY <1>2, WorkerTInv
<1>3. ASSUME NEW p \in Path, StartRemove(p) PROVE TInv'
  BY <1>3 DEF StartRemove, NoRemove
<1>4. CASE RemoveStat
  BY <1>4 DEF RemoveStat
<1>5. CASE RemoveHash
  BY <1>5 DEF RemoveHash
<1>6. CASE DeleteRow
  BY <1>6 DEF DeleteRow, SqlTableChange
<1>7. CASE UnlinkUser
  BY <1>7 DEF UnlinkUser, NoRemove
<1>8. CASE UnlinkVirtual
  BY <1>8 DEF UnlinkVirtual, NoRemove
<1>9. CASE Restart
  BY <1>9, IdleFacts DEF Restart, NoRemove
<1>10. CASE UNCHANGED vars
  BY <1>10 DEF vars
<1> QED
  BY <1>1, <1>2, <1>3, <1>4, <1>5, <1>6, <1>7, <1>8, <1>9, <1>10 DEF Next, RemoveStep

(* The disk, the table and the operations under way keep their kinds,      *)
(* whatever the clients do and wherever connections break.                 *)
THEOREM StoreTypeCorrect == Spec => []TypeOK
<1>1. TInv => TypeOK
  BY DEF TInv
<1> QED
  BY <1>1, InitTInv, NextTInv, PTL DEF Spec

-----------------------------------------------------------------------------
(* The contents.                                                           *)

LEMMA InitIInv == Init => IInv
<1> SUFFICES ASSUME Init PROVE IInv
  OBVIOUS
<1>1. TInv
  BY InitTInv
<1>2. Exclusive /\ Stages
  BY NoneAssumption DEF Init, Idle, Exclusive, Stages, At
<1>3. Shared /\ Named /\ VirtualIntact /\ UploadsArePrefixes
  BY DEF Init, Shared, Named, VirtualIntact, UploadsArePrefixes
<1> QED
  BY <1>1, <1>2, <1>3 DEF IInv

(* A worker that is in a puts has its path to itself.                      *)
LEMMA OwnPath ==
  ASSUME IInv, NEW w \in Worker, up[w].pc # "idle"
  PROVE  LET p == up[w].path
             f == up[w].file
         IN  /\ p \in Path /\ f \in File /\ f \in Seq(Chunk)
             /\ intent[p] = f
             /\ p # rm.path
             /\ \A v \in Worker \ {w} : up[v].path # p
             /\ user[p] \in Inode \cup {None}
             /\ user[p] # None => data[user[p]] \in Seq(Chunk) /\ PrefixOf(data[user[p]], f)
<1>1. up[w].path \in Path /\ up[w].file \in File
  BY DEF IInv, TInv, TypeOK, Upload
<1> QED
  BY <1>1, FileAssumption
  DEF IInv, TInv, TypeOK, Stages, At, Exclusive, UploadsArePrefixes

(* Steps that only take a worker to another place of its puts.             *)
Moves(w) ==
  \E v \in Upload : /\ up' = [up EXCEPT ![w] = v]
                    /\ v.path \in {up[w].path, None}
                    /\ At(v)

LEMMA MoveStep ==
  ASSUME IInv, TInv', NEW w \in Worker, Moves(w),
         UNCHANGED <<data, user, virtual, rm, intent>>
  PROVE  IInv'
<1>0. PICK v \in Upload : /\ up' = [up EXCEPT ![w] = v]
                          /\ v.path \in {up[w].path, None}
                          /\ At(v)
  BY DEF Moves
<1>1. up \in [Worker -> Upload]
  BY DEF IInv, TInv, TypeOK
<1>2. Exclusive'
  BY <1>0, <1>1, NoneAssumption DEF IInv, Exclusive
<1>3. Stages'
  BY <1>0, <1>1 DEF IInv, Stages, At
<1>4. (Shared /\ Named /\ VirtualIntact /\ UploadsArePrefixes)'
  BY DEF IInv, Shared, Named, VirtualIntact, UploadsArePrefixes
<1> QED
  BY <1>2, <1>3, <1>4 DEF IInv

LEMMA IdleStep ==
  ASSUME IInv, TInv', NEW w \in Worker, Done(w),
         UNCHANGED <<data, user, virtual, rm, intent>>
  PROVE  IInv'
<1>1. At(Idle) /\ Idle.path = None
  BY DEF At, Idle
<1>2. Moves(w)
  BY <1>1, IdleFacts DEF Moves, Done
<1> QED
  BY <1>2, MoveStep

LEMMA SelectStep ==
  ASSUME IInv, TInv', NEW w \in Worker, Select(w)
  PROVE  IInv'
<1> DEFINE u == up[w]
<1>1. u \in Upload /\ u.pc = "select" /\ At(u)
  BY DEF Select, IInv, TInv, TypeOK, Stages
<1>2. PICK pc \in {"instant", "exist"} : up' = [up EXCEPT ![w] = [u EXCEPT !.pc = pc]]
  BY DEF Select, Goto
<1> DEFINE v == [u EXCEPT !.pc = pc]
<1>3. v \in Upload /\ v.path = u.path /\ At(v)
  <2>1. v \in Upload
    BY <1>1, MoveFacts
  <2>2. /\ v.pc = pc /\ v.path = u.path /\ v.file = u.file
        /\ v.offset = u.offset /\ v.fd = u.fd
    BY <1>1 DEF Upload
  <2> HIDE DEF v
  <2>3. At(v)
    BY <1>1, <2>2 DEF At
  <2> QED
    BY <2>1, <2>2, <2>3
<1>4. Moves(w)
  BY <1>2, <1>3 DEF Moves
<1> QED
  BY <1>4, MoveStep DEF Select

LEMMA FileExistStep ==
  ASSUME IInv, TInv', NEW w \in Worker, FileExist(w)
  PROVE  IInv'
<1> DEFINE u == up[w]
           v == [u EXCEPT !.pc = IF user[u.path] = None THEN "open" ELSE "stat"]
<1>1. u \in Upload /\ u.pc = "exist" /\ At(u)
  BY DEF FileExist, IInv, TInv, TypeOK, Stages
<1>2. up' = [up EXCEPT ![w] = v]
  BY DEF FileExist, Goto
<1>3. v \in Upload /\ v.path = u.path /\ At(v)
  <2>1. v \in Upload
    BY <1>1, MoveFacts
  <2>2. /\ v.pc = (IF user[u.path] = None THEN "open" ELSE "stat")
        /\ v.path = u.path /\ v.file = u.file
        /\ v.offset = u.offset /\ v.fd = u.fd
    BY <1>1 DEF Upload
  <2> HIDE DEF v
  <2>3. At(v)
    BY <1>1, <2>2 DEF At
  <2> QED
    BY <2>1, <2>2, <2>3
<1>4. Moves(w)
  BY <1>2, <1>3 DEF Moves
<1> QED
  BY <1>4, MoveStep DEF FileExist

LEMMA StatStep ==
  ASSUME IInv, TInv', NEW w \in Worker, Stat(w)
  PROVE  IInv'
<1> DEFINE u == up[w]
           v == [u EXCEPT !.pc = "open", !.offset = Len(data[user[u.path]])]
<1>1. u \in Upload /\ u.pc = "stat" /\ At(u)
  BY DEF Stat, IInv, TInv, TypeOK, Stages
<1>2. user[u.path] # None /\ u.path \in Path
  BY <1>1 DEF At, Upload
<1>3. up' = [up EXCEPT ![w] = v]
  BY <1>2 DEF Stat
<1>4. Len(data[user[u.path]]) \in Nat
  BY <1>2, LenProperties DEF IInv, TInv, TypeOK
<1>5. v \in Upload /\ v.path = u.path /\ At(v)
  <2>1. v \in Upload
    BY <1>1, <1>2, <1>4, MoveFacts
  <2>2. /\ v.pc = "open" /\ v.path = u.path /\ v.file = u.file
        /\ v.offset = Len(data[user[u.path]]) /\ v.fd = u.fd
    BY <1>1 DEF Upload
  <2> HIDE DEF v
  <2>3. At(v)
    BY <1>1, <1>2, <1>4, <2>2 DEF At
  <2> QED
    BY <2>1, <2>2, <2>3
<1>6. Moves(w)
  BY <1>3, <1>5 DEF Moves
<1> QED
  BY <1>6, MoveStep DEF Stat

(* The transfer ends where the file does: the beginning is the whole.      *)
LEMMA RecvEndStep ==
  ASSUME ~Torn, IInv, TInv', NEW w \in Worker, RecvEnd(w)
  PROVE  IInv'
<1> DEFINE u == up[w]
           p == u.path
           v == [u EXCEPT !.pc = "link", !.fd = None]
<1>1. u \in Upload /\ u.pc = "recv" /\ At(u)
  BY DEF RecvEnd, IInv, TInv, TypeOK, Stages
<1>2. user[p] # None /\ u.offset = Len(data[user[p]]) /\ intent[p] = u.file
  BY <1>1 DEF At
<1>3. u.file \in Seq(Chunk) /\ data[user[p]] \in Seq(Chunk) /\ PrefixOf(data[user[p]], u.file)
  BY <1>1, <1>2, OwnPath
<1>4. Len(data[user[p]]) >= Len(u.file)
  BY <1>2 DEF RecvEnd, LengthIsZero
<1>5. data[user[p]] = u.file
  BY <1>3, <1>4, PrefixWhole
<1>6. up' = [up EXCEPT ![w] = v]
  BY DEF RecvEnd
<1>7. v \in Upload /\ v.path = p /\ At(v)
  <2>1. v \in Upload
    BY <1>1, <1>2, <1>5, MoveFacts
  <2>2. /\ v.pc = "link" /\ v.path = p /\ v.file = u.file
        /\ v.offset = u.offset /\ v.fd = None
    BY <1>1 DEF Upload
  <2> HIDE DEF v
  <2>3. At(v)
    BY <1>1, <1>2, <1>5, <2>2 DEF At
  <2> QED
    BY <2>1, <2>2, <2>3
<1>8. Moves(w)
  BY <1>6, <1>7 DEF Moves
<1> QED
  BY <1>8, MoveStep DEF RecvEnd

(* A client starts a puts at a path nothing else is under way with.        *)
LEMMA StartPutStep ==
  ASSUME Orderly, IInv, TInv', NEW w \in Worker, NEW p \in Path, NEW f \in File,
         StartPut(w, p, f)
  PROVE  IInv'
<1> DEFINE v == [Idle EXCEPT !.pc = "select", !.path = p, !.file = f]
<1>1. /\ up' = [up EXCEPT ![w] = v]
      /\ intent' = [intent EXCEPT ![p] = f]
      /\ intent[p] \in {None, f}
      /\ rm.path # p /\ \A x \in Worker : up[x].path # p
      /\ UNCHANGED <<data, user, virtual, FileInfo, rm>>
  BY DEF StartPut, Busy
<1>2. v.pc = "select" /\ v.path = p /\ v.file = f /\ v.offset = 0
  BY DEF Idle
<1> HIDE DEF v
<1>3. up \in [Worker -> Upload] /\ intent \in [Path -> File \cup {None}]
  BY DEF IInv, TInv, TypeOK
<1>4. \A q \in Path : user[q] # None => intent'[q] = intent[q]
  BY <1>1, <1>3 DEF IInv, UploadsArePrefixes
<1>5. Exclusive'
  BY <1>1, <1>2, <1>3 DEF IInv, Exclusive
<1>6. Stages'
  <2>1. At(v)'
    BY <1>1, <1>2, <1>3 DEF At
  <2>2. ASSUME NEW x \in Worker \ {w} PROVE At(up[x])'
    <3>1. up'[x] = up[x] /\ At(up[x]) /\ up[x] \in Upload
      BY <1>1, <1>3 DEF IInv, Stages
    <3>2. up[x].pc # "idle" => intent'[up[x].path] = intent[up[x].path]
      BY <1>1, <1>3, <3>1 DEF Upload
    <3> QED
      BY <1>1, <3>1, <3>2 DEF At
  <2>3. up'[w] = v
    BY <1>1, <1>3
  <2>4. At(up[w])'
    BY <2>1, <2>3 DEF At
  <2> QED
    BY <2>2, <2>4 DEF Stages
<1>7. Shared' /\ Named' /\ VirtualIntact'
  BY <1>1, <1>4 DEF IInv, Shared, Named, VirtualIntact
<1>8. UploadsArePrefixes'
  BY <1>1, <1>4 DEF IInv, UploadsArePrefixes
<1> QED
  BY <1>5, <1>6, <1>7, <1>8 DEF IInv

(* The instant transfer links the whole file under another path.           *)
LEMMA InstantStep ==
  ASSUME IInv, TInv', NEW w \in Worker, Instant(w)
  PROVE  IInv'
<1> DEFINE p == up[w].path
           f == up[w].file
           i == virtual[f]
<1>1. /\ p \in Path /\ f \in File /\ f \in Seq(Chunk) /\ intent[p] = f
      /\ \A x \in Worker \ {w} : up[x].path # p
  BY OwnPath DEF Instant
<1>2. /\ up' = [up EXCEPT ![w] = Idle]
      /\ UNCHANGED <<data, virtual, FileInfo, rm, intent>>
      /\ user' = IF i # None /\ user[p] = None THEN [user EXCEPT ![p] = i] ELSE user
  BY DEF Instant, Link, Done
<1>3. CASE i # None /\ user[p] = None
  <2>1. i \in Inode /\ data[i] = f /\ PrefixOf(f, f)
    BY <1>1, <1>3, PrefixSelf DEF IInv, TInv, TypeOK, VirtualIntact
  <2>2. user' = [user EXCEPT ![p] = i] /\ user \in [Path -> Inode \cup {None}]
    BY <1>2, <1>3 DEF IInv, TInv, TypeOK
  <2>3. \A q \in Path : user[q] = i => intent[q] = f
    BY <1>1, <1>3 DEF IInv, Named
  <2>4. up \in [Worker -> Upload]
    BY DEF IInv, TInv, TypeOK
  <2>5. Exclusive'
    BY <1>2, <2>4, NoneAssumption DEF IInv, Exclusive, Idle
  <2>6. Stages'
    <3>1. At(Idle)' /\ up'[w] = Idle
      BY <1>2, <2>4 DEF At, Idle
    <3>2. ASSUME NEW x \in Worker \ {w} PROVE At(up[x])'
      <4>1. up'[x] = up[x] /\ At(up[x]) /\ up[x] \in Upload
        BY <1>2, <2>4 DEF IInv, Stages
      <4>2. up[x].pc # "idle" => user'[up[x].path] = user[up[x].path]
        BY <1>1, <2>2, <4>1 DEF Upload
      <4> QED
        BY <1>2, <4>1, <4>2 DEF At
    <3>3. At(up[w])'
      BY <3>1 DEF At
    <3> QED
      BY <3>2, <3>3 DEF Stages
  <2>7. Shared'
    BY <1>1, <1>2, <2>1, <2>2, <2>3 DEF IInv, Shared
  <2>8. Named'
    <3>1. \A g \in File : virtual[g] = i => g = f
      BY <1>3, <2>1 DEF IInv, VirtualIntact
    <3> QED
      BY <1>1, <1>2, <2>2, <3>1 DEF IInv, Named
  <2>9. VirtualIntact'
    BY <1>2 DEF IInv, VirtualIntact
  <2>10. UploadsArePrefixes'
    BY <1>1, <1>2, <2>1, <2>2, NoneAssumption DEF IInv, UploadsArePrefixes
  <2> QED
    BY <2>5, <2>6, <2>7, <2>8, <2>9, <2>10 DEF IInv
<1>4. CASE ~(i # None /\ user[p] = None)
  BY <1>2, <1>4, IdleStep DEF Done
<1> QED
  BY <1>3, <1>4

(* open with O_CREAT: the file as it is, or a new inode with no other name *)
(* and nothing in it.                                                      *)
LEMMA OpenStep ==
  ASSUME IInv, TInv', NEW w \in Worker, Open(w)
  PROVE  IInv'
<1> DEFINE u == up[w]
           p == u.path
           f == u.file
<1>1. u \in Upload /\ u.pc = "open" /\ At(u)
  BY DEF Open, IInv, TInv, TypeOK, Stages
<1>2. /\ p \in Path /\ f \in File /\ f \in Seq(Chunk) /\ intent[p] = f
      /\ \A x \in Worker \ {w} : up[x].path # p
  BY <1>1, OwnPath
<1>3. user[p] \in Inode \cup {None}
  BY <1>2 DEF IInv, TInv, TypeOK
<1>4. CASE user[p] # None
  <2> DEFINE v == [u EXCEPT !.pc = "recv", !.fd = user[p]]
  <2>1. up' = [up EXCEPT ![w] = v] /\ UNCHANGED <<data, user, virtual, rm, intent>>
    BY <1>4 DEF Open
  <2>2. v \in Upload
    BY <1>1, <1>3, <1>4, MoveFacts
  <2>3. v.pc = "recv" /\ v.path = p /\ v.file = f /\ v.offset = u.offset /\ v.fd = user[p]
    BY <1>1 DEF Upload
  <2> HIDE DEF v
  <2>4. At(v)
    BY <1>1, <1>4, <2>3 DEF At
  <2>5. Moves(w)
    BY <2>1, <2>2, <2>3, <2>4 DEF Moves
  <2> QED
    BY <2>1, <2>5, MoveStep
<1>5. CASE user[p] = None
  <2>1. PICK i \in Inode : /\ Unused(i)
                           /\ data' = [data EXCEPT ![i] = << >>]
                           /\ user' = [user EXCEPT ![p] = i]
                           /\ up' = [up EXCEPT ![w].pc = "recv", ![w].fd = i]
                           /\ UNCHANGED <<virtual, FileInfo, rm, intent>>
    BY <1>5 DEF Open
  <2>2. /\ \A q \in Path : user[q] # i
        /\ \A g \in File : virtual[g] # i
        /\ \A x \in Worker : up[x].fd # i
    BY <2>1, UnusedFacts DEF IInv, TInv
  <2>3. PICK e \in Seq(Chunk) : e = << >> /\ Len(e) = 0
    BY EmptySeq
  <2>v. PICK v \in Upload : v = [u EXCEPT !.pc = "recv", !.fd = i]
    BY <1>1, MoveFacts
  <2>4. /\ up' = [up EXCEPT ![w] = v] /\ up \in [Worker -> Upload]
        /\ data' = [data EXCEPT ![i] = e] /\ data \in [Inode -> Seq(Chunk)]
        /\ user' = [user EXCEPT ![p] = i] /\ user \in [Path -> Inode \cup {None}]
        /\ virtual \in [File -> Inode \cup {None}]
        /\ UNCHANGED <<virtual, FileInfo, rm, intent>>
    BY <2>1, <2>3, <2>v DEF IInv, TInv, TypeOK
  <2>5. /\ v.pc = "recv" /\ v.path = p /\ v.file = f /\ v.fd = i /\ v.offset = 0
    BY <1>1, <1>5, <2>v DEF Upload, At
  <2>6. Exclusive'
    BY <1>2, <2>4, <2>5 DEF IInv, Exclusive
  <2>7. Stages'
    <3>1. At(v)' /\ up'[w] = v
      BY <1>2, <2>3, <2>4, <2>5, NoneAssumption DEF At
    <3>2. ASSUME NEW x \in Worker \ {w} PROVE At(up[x])'
      <4>1. up'[x] = up[x] /\ At(up[x]) /\ up[x] \in Upload
        BY <2>4 DEF IInv, Stages
      <4>2. up[x].pc # "idle" =>
              /\ user'[up[x].path] = user[up[x].path]
              /\ user[up[x].path] # None => data'[user[up[x].path]] = data[user[up[x].path]]
        BY <1>2, <2>2, <2>4, <4>1 DEF Upload
      <4> QED
        BY <2>4, <4>1, <4>2 DEF At
    <3>3. At(up[w])'
      BY <3>1 DEF At
    <3> QED
      BY <3>2, <3>3 DEF Stages
  <2>8. Shared'
    BY <2>2, <2>4 DEF IInv, Shared
  <2>9. Named' /\ VirtualIntact'
    BY <2>2, <2>4 DEF IInv, Named, VirtualIntact
  <2>10. UploadsArePrefixes'
    <3>1. PrefixOf(e, f)
      BY <1>2, <2>3, PrefixEmpty
    <3>2. data'[i] = e /\ f # None
      BY <1>2, <2>4, NoneAssumption
    <3> QED
      BY <1>2, <2>2, <2>4, <3>1, <3>2 DEF IInv, UploadsArePrefixes
  <2> QED
    BY <2>6, <2>7, <2>8, <2>9, <2>10 DEF IInv
<1> QED
  BY <1>4, <1>5

(* A chunk is appended where no finished file is, to no one else's file.   *)
LEMMA RecvChunkStep ==
  ASSUME IInv, TInv', NEW w \in Worker, RecvChunk(w)
  PROVE  IInv'
<1> DEFINE u == up[w]
           p == u.path
           f == u.file
           i == user[p]
<1>1. u \in Upload /\ u.pc = "recv" /\ At(u)
  BY DEF RecvChunk, IInv, TInv, TypeOK, Stages
<1>2. /\ p \in Path /\ f \in File /\ f \in Seq(Chunk) /\ intent[p] = f
      /\ \A x \in Worker \ {w} : up[x].path # p
      /\ i \in Inode /\ data[i] \in Seq(Chunk) /\ PrefixOf(data[i], f)
      /\ i = u.fd /\ u.offset = Len(data[i]) /\ u.offset < Len(f)
  BY <1>1, OwnPath DEF At, RecvChunk
<1>3. PICK d \in Seq(Chunk) : /\ d = Append(data[i], f[Len(data[i]) + 1])
                              /\ Len(d) = Len(data[i]) + 1
                              /\ PrefixOf(d, f)
  BY <1>2, PrefixAppend
<1>4. data[i] # f
  BY <1>2, PrefixWhole
<1>5. \A q \in Path : user[q] = i => q = p
  BY <1>2, <1>4, NoneAssumption DEF IInv, Shared
<1>6. \A g \in File : virtual[g] # i
  BY <1>2, <1>4, NoneAssumption DEF IInv, Named, VirtualIntact
<1>7. PICK v \in Upload : v = [u EXCEPT !.offset = u.offset + 1, !.first = FALSE]
  <2>1. u.offset + 1 \in Nat
    BY <1>1 DEF Upload
  <2>2. [u EXCEPT !.offset = u.offset + 1, !.first = FALSE] \in Upload
    BY <1>1, <2>1, MoveFacts
  <2> QED
    BY <2>2
<1>8. /\ up' = [up EXCEPT ![w] = v] /\ up \in [Worker -> Upload]
      /\ data' = [data EXCEPT ![i] = d] /\ data \in [Inode -> Seq(Chunk)]
      /\ UNCHANGED <<user, virtual, FileInfo, rm, intent>>
  BY <1>2, <1>3, <1>7 DEF RecvChunk, IInv, TInv, TypeOK
<1>9. /\ v.pc = "recv" /\ v.path = p /\ v.file = f /\ v.fd = i
      /\ v.offset = Len(data[i]) + 1
  BY <1>1, <1>2, <1>7 DEF Upload
<1>10. Exclusive'
  BY <1>2, <1>8, <1>9 DEF IInv, Exclusive
<1>11. Stages'
  <2>1. At(v)' /\ up'[w] = v
    BY <1>2, <1>3, <1>8, <1>9, NoneAssumption DEF At
  <2>2. ASSUME NEW x \in Worker \ {w} PROVE At(up[x])'
    <3>1. up'[x] = up[x] /\ At(up[x]) /\ up[x] \in Upload
      BY <1>8 DEF IInv, Stages
    <3>2. up[x].pc # "idle" => up[x].path \in Path /\ user[up[x].path] # i
      BY <1>2, <1>5, <3>1 DEF Upload
    <3>3. up[x].pc # "idle" => data'[user[up[x].path]] = data[user[up[x].path]]
      BY <1>8, <3>2
    <3> QED
      BY <1>8, <3>1, <3>3 DEF At
  <2>3. At(up[w])'
    BY <2>1 DEF At
  <2> QED
    BY <2>2, <2>3 DEF Stages
<1>12. Shared'
  BY <1>2, <1>5, <1>8 DEF IInv, Shared
<1>13. Named' /\ VirtualIntact'
  BY <1>6, <1>8 DEF IInv, Named, VirtualIntact
<1>14. UploadsArePrefixes'
  BY <1>2, <1>3, <1>5, <1>8, NoneAssumption DEF IInv, UploadsArePrefixes
<1> QED
  BY <1>10, <1>11, <1>12, <1>13, <1>14 DEF IInv

(* The whole file gets its name in the virtual directory.                  *)
LEMMA LinkVirtualStep ==
  ASSUME IInv, TInv', NEW w \in Worker, LinkVirtual(w)
  PROVE  IInv'
<1> DEFINE u == up[w]
           p == u.path
           f == u.file
           i == user[p]
<1>1. u \in Upload /\ u.pc = "link" /\ At(u)
  BY DEF LinkVirtual, IInv, TInv, TypeOK, Stages
<1>2. /\ p \in Path /\ f \in File /\ intent[p] = f
      /\ \A x \in Worker \ {w} : up[x].path # p
      /\ i \in Inode /\ data[i] = f
  BY <1>1, OwnPath DEF At
<1>3. PICK v \in Upload : v = [u EXCEPT !.pc = "insert"]
  BY <1>1, MoveFacts
<1>4. /\ up' = [up EXCEPT ![w] = v] /\ up \in [Worker -> Upload]
      /\ virtual' = IF virtual[f] = None THEN [virtual EXCEPT ![f] = i] ELSE virtual
      /\ virtual \in [File -> Inode \cup {None}]
      /\ UNCHANGED <<data, user, FileInfo, rm, intent>>
  BY <1>2, <1>3, NoneAssumption DEF LinkVirtual, Link, Goto, IInv, TInv, TypeOK
<1>5. v.pc = "insert" /\ v.path = p /\ v.file = f /\ v.fd = u.fd
  BY <1>1, <1>3 DEF Upload
<1>6. Exclusive'
  BY <1>2, <1>4, <1>5 DEF IInv, Exclusive
<1>7. Stages'
  <2>1. At(v) /\ up'[w] = v
    BY <1>1, <1>2, <1>4, <1>5 DEF At
  <2>2. \A x \in Worker : At(up'[x])
    BY <1>4, <2>1 DEF IInv, Stages
  <2> QED
    BY <1>4, <2>2 DEF Stages, At
<1>8. Shared' /\ UploadsArePrefixes'
  BY <1>4 DEF IInv, Shared, UploadsArePrefixes
<1>9. Named'
  <2>1. \A q \in Path : user[q] = i => intent[q] = f
    BY <1>2, NoneAssumption DEF IInv, Shared
  <2> QED
    BY <1>2, <1>4, <2>1 DEF IInv, Named
<1>10. VirtualIntact'
  BY <1>2, <1>4 DEF IInv, VirtualIntact
<1> QED
  BY <1>6, <1>7, <1>8, <1>9, <1>10 DEF IInv

(* Steps of a remove: what it unlinks no worker is at.                     *)
LEMMA RemovePathStep ==
  ASSUME IInv, TInv', UNCHANGED <<data, user, virtual, up, intent>>,
         \/ rm'.path \in {rm.path, None}
         \/ \A w \in Worker : up[w].path # rm'.path
  PROVE  IInv'
<1>1. Exclusive'
  BY NoneAssumption DEF IInv, Exclusive
<1>2. Stages' /\ Shared' /\ Named' /\ VirtualIntact' /\ UploadsArePrefixes'
  BY DEF IInv, Stages, At, Shared, Named, VirtualIntact, UploadsArePrefixes
<1> QED
  BY <1>1, <1>2 DEF IInv

LEMMA UnlinkUserStep ==
  ASSUME IInv, TInv', UnlinkUser
  PROVE  IInv'
<1> DEFINE p == rm.path
<1>1. /\ p \in Path
      /\ user' = [user EXCEPT ![p] = None] /\ user \in [Path -> Inode \cup {None}]
      /\ intent' = [intent EXCEPT ![p] = None] /\ intent \in [Path -> File \cup {None}]
      /\ UNCHANGED <<data, virtual, FileInfo, up>>
      /\ up \in [Worker -> Upload]
  BY DEF UnlinkUser, IInv, TInv, TypeOK, Removal
<1>2. rm'.path = None
  BY DEF UnlinkUser, NoRemove, IInv, TInv, TypeOK
<1>3. Exclusive'
  BY <1>1, <1>2, NoneAssumption DEF IInv, Exclusive
<1>4. Stages'
  <2> SUFFICES ASSUME NEW w \in Worker PROVE At(up[w])'
    BY DEF Stages
  <2>1. up'[w] = up[w] /\ At(up[w]) /\ up[w] \in Upload
    BY <1>1 DEF IInv, Stages
  <2>2. up[w].pc # "idle" => up[w].path \in Path /\ up[w].path # p
    BY <2>1 DEF IInv, Exclusive, Upload
  <2>3. up[w].pc # "idle" => user'[up[w].path] = user[up[w].path]
                             /\ intent'[up[w].path] = intent[up[w].path]
    BY <1>1, <2>2
  <2> QED
    BY <1>1, <2>1, <2>3 DEF At
<1>5. Shared' /\ Named' /\ VirtualIntact' /\ UploadsArePrefixes'
  BY <1>1 DEF IInv, Shared, Named, VirtualIntact, UploadsArePrefixes
<1> QED
  BY <1>3, <1>4, <1>5 DEF IInv

LEMMA UnlinkVirtualStep ==
  ASSUME IInv, TInv', UnlinkVirtual
  PROVE  IInv'
<1>1. /\ UNCHANGED <<data, user, FileInfo, up, intent>>
      /\ \A f \in File : virtual'[f] \in {virtual[f], None}
      /\ rm'.path = None
  BY DEF UnlinkVirtual, NoRemove
<1>2. Exclusive'
  BY <1>1, NoneAssumption DEF IInv, Exclusive
<1>3. Stages' /\ Shared' /\ UploadsArePrefixes'
  BY <1>1 DEF IInv, Stages, At, Shared, UploadsArePrefixes
<1>4. Named' /\ VirtualIntact'
  BY <1>1 DEF IInv, Named, VirtualIntact
<1> QED
  BY <1>2, <1>3, <1>4 DEF IInv

(* The server stops anywhere and is started again.                         *)
LEMMA RestartStep ==
  ASSUME IInv, TInv', Restart
  PROVE  IInv'
<1>1. Exclusive' /\ Stages'
  BY NoneAssumption DEF Restart, Idle, NoRemove, Exclusive, Stages, At
<1>2. Shared' /\ Named' /\ VirtualIntact' /\ UploadsArePrefixes'
  BY DEF Restart, IInv, Shared, Named, VirtualIntact, UploadsArePrefixes
<1> QED
  BY <1>1, <1>2 DEF IInv

(* Every step of clients that do one thing with a path at a time, over     *)
(* connections that do not break inside a length.                          *)
LEMMA NextIInv ==
  ASSUME Orderly, ~Torn
  PROVE  IInv /\ [Next]_vars => IInv'
<1> SUFFICES ASSUME IInv, [Next]_vars PROVE IInv'
  OBVIOUS
<1>0. TInv'
  BY NextTInv DEF IInv
<1>1. ASSUME NEW w \in Worker, NEW p \in Path, NEW f \in File, StartPut(w, p, f)
      PROVE  IInv'
  BY <1>0, <1>1, StartPutStep
<1>2. ASSUME NEW w \in Worker, WorkerStep(w) PROVE IInv'
  <2>1. CASE Select(w) \/ Instant(w) \/ FileExist(w) \/ Stat(w) \/ Open(w)
    BY <1>0, <2>1, SelectStep, InstantStep, FileExistStep, StatStep, OpenStep
  <2>2. CASE RecvChunk(w) \/ RecvEnd(w) \/ LinkVirtual(w)
    BY <1>0, <2>2, RecvChunkStep, RecvEndStep, LinkVirtualStep
  <2>3. CASE RecvFail(w) \/ InsertRow(w)
    BY <1>0, <2>3, IdleStep DEF RecvFail, InsertRow
  <2> QED
    BY <1>2, <2>1, <2>2, <2>3 DEF WorkerStep
<1>3. ASSUME NEW p \in Path, StartRemove(p) PROVE IInv'
  <2>1. rm'.path = p /\ \A w \in Worker : up[w].path # p
    BY <1>3 DEF StartRemove, NoRemove, Busy
  <2> QED
    BY <1>0, <1>3, <2>1, RemovePathStep DEF StartRemove
<1>4. CASE RemoveStat \/ RemoveHash \/ DeleteRow
  <2>1. rm'.path = rm.path
    BY <1>4 DEF RemoveStat, RemoveHash, DeleteRow, IInv, TInv, TypeOK
  <2> QED
    BY <1>0, <1>4, <2>1, RemovePathStep DEF RemoveStat, RemoveHash, DeleteRow
<1>5. CASE UnlinkUser \/ UnlinkVirtual \/ Restart
  BY <1>0, <1>5, UnlinkUserStep, UnlinkVirtualStep, RestartStep
<1>6. CASE UNCHANGED vars
  BY <1>0, <1>6, RemovePathStep DEF vars
<1> QED
  BY <1>1, <1>2, <1>3, <1>4, <1>5, <1>6 DEF Next, RemoveStep

(* The inductive invariant holds in every state of such a server.          *)
THEOREM StoreInvariant ==
  ASSUME Orderly, ~Torn
  PROVE  Spec => []IInv
<1> QED
  BY InitIInv, NextIInv, PTL DEF Spec

(* What the virtual directory keeps under a hash has that hash, whichever  *)
(* uploads are interrupted, resumed or raced by other users and wherever   *)
(* the server stops (main.cpp:504 hands it out unread).                    *)
THEOREM VirtualFilesAreIntact ==
  ASSUME Orderly, ~Torn
  PROVE  Spec => []VirtualIntact
<1>1. IInv => VirtualIntact
  BY DEF IInv
<1> QED
  BY <1>1, StoreInvariant, PTL

(* An upload that is broken off and resumed (main.cpp:522-537) leaves no   *)
(* gap and no repeated chunk.                                              *)
THEOREM UploadsGrowAsPrefixes ==
  ASSUME Orderly, ~Torn
  PROVE  Spec => []UploadsArePrefixes
<1>1. IInv => UploadsArePrefixes
  BY DEF IInv
<1> QED
  BY <1>1, StoreInvariant, PTL

(* What is linked under a hash, and entered in the table, is the whole     *)
(* file (main.cpp:538).                                                    *)
THEOREM LinkedWhenComplete ==
  ASSUME Orderly, ~Torn
  PROVE  Spec => []CompleteWhenLinked
<1>1. IInv => CompleteWhenLinked
  BY DEF IInv, Stages, At, CompleteWhenLinked
<1> QED
  BY <1>1, StoreInvariant, PTL
=============================================================================
