# Formal models of CourseRepository

The repository is a course's worth of C and C++ on Linux: small exercises, then a
line of file servers (process pools, thread pools), and at the end
`FileServerAdvance`, a file server with logins, resumable and instant uploads and
an idle timeout. This directory holds TLA+ models of its core, the TLC
configurations that check them and TLAPS proofs about them. Paths are relative to
`src/`; `FSA` stands for `FileServerAdvance/src`.

## 1. Inventory

### FileServerAdvance (`FileServerAdvance/`)

One process. **Main** runs an epoll loop: it accepts connections, reads one
message per event and serves it itself. **Workers** (a pool of threads) carry out
`puts` and `gets` on data connections that main queues for them. The
**supervisor** wakes once a second and closes idle connections.

| Part | State | Operations | What is hard |
|---|---|---|---|
| connection tables (`FSA/main.cpp:23-239, 704-726`) | descriptors, epoll set, map `mp` from descriptor to node, ring `fdSet[TimeOut+1]` with `fdPointer`, `setPos` in the node, `currentSize` | accept, refuse, ring insert / update / erase, hand-over to a worker, teardown by main, supervisor or worker | all tables are keyed by a descriptor number, which the kernel gives out again at once; three threads close, free and erase in separate steps; only the ring has a mutex |
| work queue (`FSA/work_que.cpp`, same as `20190207/thread_pool/queOperate.c`) | linked list, size | insert, pop | nodes are freed and reused; `pTail` dangles |
| workers (`FSA/main.cpp:462-579`) | queue, condition variable | wait, pop, transfer, close, free | one test for an empty queue, no loop |
| file store (`FSA/main.cpp:379-421, 490-552`, `FSA/transFile.cpp:109-182`) | users' directories, the virtual directory (one link per MD5), table `FileInfo` | puts (instant, new, resumed), remove | no lock; each system call and statement is a step; results of `link`, `stat` and the database are ignored; uploads break off |
| session (`FSA/main.cpp:129-181, 581-702`) | `state` 0-3 of a connection, user name, token, map `tok` | choose, register in two steps, log in in two or three, act, log out | blocking reads on the only event thread; tokens in MD5's static buffer; stale `tok` entries |
| directory commands (`FSA/main.cpp:267-344, 428-458`) | `curPath` | cd, ls, pwd, mkdir | strings only |
| transfer protocol (`FSA/transFile.cpp`, `client/transFile.cpp`) | offsets | chunk loop, or mmap above 100 MB | resuming, torn lengths |
| client (`client/client.cpp`) | socket, token | the other end of all the above | two threads share the session |
| database, hashing, sockets (`mysqlDbHelper.cpp`, `encrypt.cpp`, `tcpInit.cpp`) | none | library calls | may fail |

`FSA/main.cpp:728-1154` is commented out.

### FileServer, the first version (`FileServer/`)

A worker takes a client from the queue and stays with it: login or registration
(`src/main.cpp:129-240`), then commands until the client leaves (`:249-531`). There is
no session table: a connection is its descriptor. Workers put themselves in the
ring with every command, the supervisor (`:88-116`) closes what it finds in the slot
that is due, and the worker closes the same number again when it is done. The
buffers of `threadFunc` live as long as the worker. Registration asks for another name as
long as `sqlFindData` does not return 0, whatever `recv_n` returns (`:191-198`). Names, salts and hashes are in the same
kind of table as in the later version; directory commands are the same text.

### The pools

| Program | State | What is hard |
|---|---|---|
| `20190207/thread_pool`: accept, queue, workers, SIGUSR1 | queue, condition variable, `state` | `state` read without the mutex, signals outside it |
| `20190205`, `20190208/thread_pool`: the same without a shutdown, and with `pthread_cancel` | queue, condition variable, the threads | `cleanFunc` unlocks a mutex its thread may not have; main joins the wrong threads |
| `20190202`-`20190204`, process pools: parent, children, socket pairs | a busy flag and an epoll entry for each child, descriptors in flight | the flag is set and cleared by messages; SIGPIPE kills children of the earlier two; the exit overtakes connections |

### Exercises

| Program | State | What is hard |
|---|---|---|
| `20190121/homework/chat`, `20190127` (A, B, A1, B1): chat over two FIFOs, displays behind shared memory and a message queue | FIFOs, slot, queue, pids | opens that wait for each other, reads that take two messages, a side that ends by a time-out |
| `20190201/tcp_chat`, `tcp_chat_op`, `epoll`, `20190202/epoll_et`: chat over TCP | `newid`, socket buffers, events | one variable for all clients; low-water marks and edge-triggered events |
| `20190123`, `20190124`, `20190129`: adders, producer and consumer, ticket sellers | a counter, semaphores, a mutex | lost updates; what SEM_UNDO gives back at an exit |
| `20190201` UDP chat; demonstrations of one call; `gscp`; compiler output | | not modelled, see section 5 |

`PROJECT.json` lists each with its status, and the hazards of the code line by line.

## 2. Modules

| Module | Models | Kind |
|---|---|---|
| `Fifo` | what a work queue promises: a bounded FIFO with hand-over | abstract specification |
| `WorkQueue` | the linked list, its nodes from `calloc` to `free` | refines `Fifo` |
| `ThreadPool` | main, workers, condition variable, shutdown of `20190207/thread_pool` | uses a FIFO for the list |
| `PoolList` | the server with its list | composes `ThreadPool` and `WorkQueue` |
| `ConnTable` | the connection tables of FileServerAdvance | |
| `FileStore` | puts and remove of FileServerAdvance on inodes, links and rows | |
| `Session` | dialogues of clients and main: choice, registration, login, commands, tokens | composes both ends of the stream |
| `Copy` | what transferring files promises: progress is kept, success means all of it | abstract specification |
| `TransFile` | the two ends of FileServerAdvance's transfers | refines `Copy`; composes both ends |
| `FileServerV1` | the first version's connections, ring and supervisor | |
| `LoginV1` | the first version's login and registration | |
| `CommandsV1` | the first version's commands and the client's loop | composes both ends |
| `ProcessPool` | the three process pools and their clients | |
| `ThreadPoolCancel` | the pools of `20190205` and `20190208` | |
| `Chat`, `SocketChat`, `Counters` | the exercises | |
| `ThreadPoolProofs` | theorems about `ThreadPool`, `WorkQueue` and the two together | TLAPS |
| `ProcessPoolProofs`, `ConnTableProofs`, `FileStoreProofs`, `SessionProofs`, `TransFileProofs` | theorems about the module they are named after | TLAPS |
| `FirstVersionProofs` | theorems about the three modules of the first version, for `MCFirstVersion`'s specification | TLAPS |
| `ExercisesProofs` | theorems about `ThreadPoolCancel`, `Chat` and `Counters`, for `MCExercises`' specification | TLAPS |
| `MC*` | the instances TLC checks (symmetry, small contents) | `MCFirstVersion` and `MCExercises` are sums: a behaviour is one of one of their parts, and `part` says of which |

### WorkQueue and Fifo

`nextNode` is the heap: one field per cell. `QueInsert` and `QuePop` are the two
functions of `queOperate.c`, each under `queMutex` and so one action; `Calloc`,
`MainInsert`, `MainDrain`, `MainClose`, `WorkerPop` and `WorkerFree` are the
callers' steps around them. `order` is an auxiliary sequence: it is written by
the list operations and read by no guard. The refinement mapping takes `order`
for the FIFO and `pnode` for what the consumers hold.

### ThreadPool

`pc[w]` follows a worker through `main.c:7-28`: `check` (the test of `state`
outside the mutex), `lock`, `wait`, `woken`, `serve`. `pthread_cond_wait` is two
steps (release and sleep; wake and take the mutex again) and may return
spuriously. Main's `epoll_wait` loop is `Accept` - `Insert` - (`Refuse`) -
`Signal`; SIGUSR1 (`SigFunc`) leads to `StartExit`, `Drain`/`Drop`, `Wake`, `Join`.
Fairness: weak fairness of main's steps and of each worker's steps, which is what
the scheduler and the mutex give a thread that can run. No fairness for clients,
the signal or spurious wake-ups.

### PoolList

`ThreadPool` has connections in a FIFO and `WorkQueue` cells and links, with callers
that come in any order. In `PoolList` a step of main.c is a step of both: `AcceptNode` is
`Accept` with `Calloc` and the assignment to the cell's `newfd`; `Insert`,
`StartExit`, `Drain`, `Drop`, `Take` and `Serve` go with the list's operation of that place.
`newfdOf` is the field that joins the two. The conjunction would hide a step on which the
list and the FIFO disagree: `ListShape` says that they never do, and
`ListAnswersAsFifo` that both tests of the code, for empty and for full, have one answer.

### ConnTable

State: the kernel's open descriptors and the epoll set, `mp`, the allocated nodes
with their `setPos`, the ring, `currentSize`, the queue, and the program counters
of main, supervisor and workers. Every access that another thread can fall
between is a step: `close`, `free(mp[fd])` and `mp.erase(fd)` are three steps in
each thread. Accept reuses any free number. A use of `NULL` or of a freed node
sets `fault` and the behaviour ends, because what such a program does next is
undefined (this is why deadlock is not checked there). What a command does to the
session or files is not in this module: `Command` keeps the connection or ends it.
`silent` is auxiliary: the ring turns since main last heard a descriptor.

`Protocol = TRUE` restricts clients to what `client.cpp` sends (a data connection
sends 2 once and first, a control connection never); the passing runs have
`FALSE`, so they cover any client.

Simplifications: an operation on `std::map` is atomic (the tree's own race is not
modelled); a failing `recv` of the header behaves as in the code (`dataLen` stays
1); one client waits to be accepted as long as a descriptor number is left.

### FileStore

`data` is the content of each inode, `user` and `virtual` the directory entries,
`FileInfo` the table. A worker goes through `select` - `instant`, or `exist` -
(`stat`) - `open` - `recv` - `link` - `insert`; main through `stat` - `md5` -
`delete` - `unlink` - `unlink virtual`. A content is a sequence of chunks and is
its own hash. Switches: `DbFails` (a statement may fail; the code ignores it),
`Orderly` (clients work on one path with one operation at a time and one content
until it is removed), `Torn` (a connection may break inside a length). `Restart`
loses everything but the disk and the table.

### Session

Both ends of every connection. `client[fd]` follows `client/client.cpp`, `srv`
main's place in the event it serves; `chan` and `reply` are the two directions of
the stream. Every `recv_n` of main is a step of its own (`Event`, `ReadLogin`,
`LoginSecret`, ...), because it blocks when the client has not sent that much yet;
what main computes and sends up to its next `recv_n` belongs to that step. An item
carries the meaning its sender gave it, so that `Aligned` can say that no reader
takes one thing for another. A client hangs up anywhere, and what it sent last
may be lost; from then on `recv_n` fails and the buffer stays empty (`None`).
A statement may fail at any time.

`md5` is the content of the static buffer MD5 returns when its last argument is
`NULL`: all tokens point to it. `TokenGrant`, `TokenRefuse` and `TokenFault` are the
three outcomes of `main.cpp:195` - accepted, refused, a `NULL` pointer used.

Two reductions: steps of others happen only while main is idle or blocked (main
alone writes the table, `tok`, `md5` and the sessions that it reads, so they
commute with its steps), and teardown is one step (its parts are `ConnTable`'s
subject, as is the supervisor closing the connection main is reading).

Fairness: main goes on when it has something to read; a descriptor that is ready
again and again is served (`epoll_wait` returns all of them and the loop serves
each), which is strong fairness of `Accept` and `Event`; workers end; and the one
user main is blocked on types the password or hangs up. The last is an assumption
on people: main has no timeout there.

### TransFile and Copy

`at[e]` follows a client's data thread or a server's worker through `transFile` and
`recvFile`; `wire` is the two directions of each data connection, and a length with the
bytes it counts is one item. A connection that breaks inside one loses it, but for one
place: `dataLen` is tested for 0 before `recv_n`'s result (`FSA/transFile.cpp:144`,
`client/transFile.cpp:160`). If the lowest byte of a file's first length has come and no
more, `dataLen` is 0 and `recvFile` reports the whole file (`TornLength`, in `RecvFailed`). A receiver sends the size of what it has, the sender
starts there. `cur` and `total` are each end's `currentSize` and `totalSize`. Above
`Limit` (100 MB) the receiver extends the file to its full size first (`Hole` chunks) and
fills it through the mapping. `fileSize` is the worker's `long` of which gets
receives half: it keeps the upper half it had (`Garbage`, in units of `Half`).
`action` is the buffer the client's main thread and its data threads share. `Break`
cuts a connection, `Stop` kills the server or the client; what is on the disk
stays. `Copy` sees the number of right chunks at the beginning of each destination and the files a `recvFile` has
returned 0 for.

Switches: `Patient` (the user waits until the thread has copied its command),
`StopMapped` (a process may also die while it has a file mapped), `Torn` (a connection may
break inside the four bytes of a length).

Fairness: weak, of each thread and each worker: every blocking call returns when the
other end has gone on or is gone. Users need not type anything.

### FileServerV1, LoginV1, CommandsV1

The three share nothing but the program, and each leaves to the others what it
does not need. `FileServerV1` is about numbers: `table` maps a
descriptor to the connection the kernel has behind it, `newfd` and `setPos` are in
the worker's node, `own` and `sock` are auxiliary or the kernel's (whom the worker took from the
queue; on which connection its blocked `recv` is). `close` of a number that has
been given out again closes the new connection. When a `recv_n` of login or registration fails,
the worker goes to one of the places of `AfterFailure`; `register` is the loop of
`main.cpp:191-198`. A row with an empty name, which the first client that leaves there makes,
or a failing database keeps a worker in it; it then reads from its number whatever the next
connection with that number sends (`Register`), and otherwise never returns. Fairness: workers and the
supervisor run, clients hang up some day.

`LoginV1`: `userName`, `salt`, `buf`, `buf1` are the worker's buffers; one step is an
exchange of an item and its answer. A statement may fail (`SingleSelect` leaves the
buffer as it was, `FindData` is not 0). `typed` is auxiliary. `Known` restricts people
to names that are registered, and to leave only where the code looks at `recv_n`'s
result: without it `sqlSingleSelect` reads `row[0]` of a NULL row
(`FileServer/src/mysqlDbHelper.cpp:34`).

`CommandsV1`: `up` and `down` are the streams, `tree` the user's directory, `wpc` and
`wcmd` where the worker is in a command, `cpc` what the client waits for. The check with
`fileExist` and what follows are separate steps, `ls` reads one entry a step, and a
failed `stat` leaves what the buffer held (`Garbage`). With `Large` files may be of more than
100 MB: one whose `open` fails, because its name became a directory after `fileExist` or the
directory is gone, is mapped from descriptor -1, and `recvFile` returns with the rest of it in
the stream (`FileServer/src/transFile.cpp:158-175`, `client/transFile.cpp:180-196`; `Rests`).
`Orderly` users keep their sessions apart: they remove nothing that another session is in, goes
to or gets, or that is above it, go to nothing and get nothing that another has asked to remove
(`remove` is answered before it is done), and do not type `cd /x`. Anything else may be
removed, and made, under a session at any moment. `Builders` are sessions that only go about, make and
remove: a bound. Fairness: both programs run until the server has crashed.

### ProcessPool

`prog` chooses the day of the program, which the three share but for the lines that
ask for it. `down[j]` and `up[j]` are the two directions of a child's socket pair,
`busy[j]` and `watched` what the parent knows of it, `held[c]` who has the server's
descriptor of a client. The children inherit the listening socket, so clients connect to it
and wait in its backlog until the last child and the parent's loop are gone (`Listening`);
a child of a killed parent ends when the children forked after it are gone, which hold the
parent's end of its socket open (`Orphan`). A client receives items or leaves at any moment; a send to
it then kills a child of the first two programs and is noticed in the third.
Fairness: parent and children run; a client goes on reading or leaves.

### ThreadPoolCancel, Chat, SocketChat, Counters

`ThreadPoolCancel` has the mutex as a variable, because `cleanFunc` unlocks it for
whoever has it. A cancelled thread ends in `cond_wait` (which takes the mutex again first)
or in a transfer. Main and threads contend for the mutex, so their fairness is strong;
clients go on reading or leave.

`Chat` runs both programs of a chat (`prog`). What a read takes is taken to fit into the 128
bytes of the code's buffer (`20190127/B.c:72-80`). `met` are the FIFOs both sides have
held open, `pipe` what is in them, `queue` and `slot` what is on its way to a display.
A side may be interrupted or time out anywhere. Weak fairness of each side and of the
displays; people need not type.

`SocketChat` runs the four servers; a line is counted in units, one of which is below the
low-water mark and two of which are more than the small buffer. `edge` are the
connections with an event since the last wait. `number` is a connection's descriptor: `select(15, ...)`
watches those below 15, which are the first 11 connections (`Watched`, `Seen`), and the server
never closes one that another has replaced. Weak fairness of the server and of
each client's receiving.

`Counters` runs the six counting programs; loads and stores are separate steps, an
exit gives back what SEM_UNDO remembers. Processes contend for locks: strong fairness.

## 3. Runs

| Run | Instance | Shows |
|---|---|---|
| `work_queue` | the server with its list (`PoolSpec`): 2 workers, 4 connections, 4 cells, capacity 2 | the list's shape and owners, that it holds the server's connections, refinement of `Fifo`; a full queue with a cell reused behind another that still links to it, cells of refused connections never freed, a drain |
| `thread_pool` | 3 workers, 4 connections, queue of 2 | every place a connection can be, a full queue, all workers asleep, shutdown at any moment; and `EveryClientClosed` under the fairness above |
| `conn_table` | 2 descriptors, 2 nodes each, 1 worker, ring of 2, `MaxNum` 1 | a control and a data connection at once, numbers reused while another thread is between two steps |
| `conn_ring` | 1 descriptor, 2 nodes, ring of 4 | `fdPointer` wraps several times over one client; liveness with only the supervisor fair (it holds `setMutex` alone and waits for nobody) |
| `file_store` | 3 paths, 3 inodes, 2 workers, contents `<<x>>` and `<<x, y>>`, failing statements | one content is the beginning of the other, so that an unfinished upload hashes like a finished file; three paths share a virtual file |
| `session` | 2 descriptors, 2 people registered under 2 names, `puts`, `remove` and a command without answer | while one person's token is on its way in a data connection, the session ends, its descriptor goes to the other person, and the buffer is rewritten |
| `session_live` | 2 descriptors, 1 person, empty table, `gets` | registration, failed and repeated logins, hang-ups at every item, liveness under the fairness of section 2; two descriptors suffice for one to wait while main is in the dialogue of the other |
| `transfer` | an upload of 2 chunks and a download of 3, `Limit` 2, 2 threads, 1 worker, 3 commands, 1 broken connection, 1 death of a process, 2 items in flight, no torn length | one file on either side of the mmap limit; three commands and one break leave a transfer that is resumed, and one that finds everything there |
| `process_pool` | the three programs, 2 children, 3 clients, 2 items, 1 in flight | more clients than children, so that one finds nobody idle; an item besides the length at the end, so that a client can leave in the middle |
| `first_version` | connections: 2 workers, 2 clients, 2 numbers, queue of 1, ring of 2. Logins: 1 worker, 2 people, 2 names. Commands: 2 sessions, 1 name, paths of 2 components, files of up to 100 MB, the second session only cd, mkdir, puts and remove, and nothing typed before the last command is read | a number that the supervisor has closed goes to the other client while the first worker still has it; the second person meets what the first left in the buffers; one session makes and removes names between the check and the act of the other |
| `exercises` | pool: 2 threads, 2 clients, queue of 1, 1 item. Chats: 2 lines and 1. TCP: 2 clients, 1 unit, 1 connection watched by `select`. Counters: 3 rounds | a thread cancelled in a transfer while another has the mutex; a pid and two lines in one FIFO; a second connection replacing the first in `newid`, with a descriptor that is watched only if the first is closed; a lost update, a full and an empty buffer |
| `session_token` | as `session_live`, one registered person | the disagreement listed under `findings` in `PROJECT.json` |

Every bound is a constant of a cfg. Deadlock is not checked where the program may stop:
after a fault (`ConnTable`, `CommandsV1`), when every client has come and gone and every bound
on breaks is used (`TransFile`, the first version, the pools, the chats).

`Second = {0}` in the `Session` cfgs lets all logins fall into one second, so a
person's sessions share a token; `Rows` is the table the server starts with.

### Larger instances, and disagreements

The cfgs below are for use by hand; a commented line of a cfg names the property
to put in place of those it has, and the constants to change.

| Cfg | Module | By itself | Commented or violated |
|---|---|---|---|
| `MCConnTableDocs` | `MCConnTable` | | `CountIsClients`: the supervisor does not decrement `currentSize` (`FSA/main.cpp:70` against `:717-720`). `TransferNotInRing`: teardowns leave ring entries that a later data connection inherits (`:185`, `:132-138`). `MapHasNode`: the erase by number takes the next client's node (`:574`). `ClosedAfterTimeOut`: an entry of an earlier event stays in its slot (`:112`, `:707`). `SilentIsDropped`: a client that never sends is never in the ring (`:16`, `:106-115`) |
| `MCFileStoreDocs` | `MCFileStore` | | `InstantDelivers`: `link` onto an unfinished upload fails unnoticed (`:516`). `RemovesOwnVirtual`: link count read, used after another link (`:400-418`). `RowHasFile`: a row outlives the file (`:416-418`, `:549-550`). `VirtualIntact` with `Orderly = FALSE`: `O_APPEND` on an inode others share (`FSA/transFile.cpp:126`); with `Torn = TRUE`: `dataLen` tested before `recv_n`'s result (`:144`) |
| `MCSessionName` | `MCSession` | | `NameHasOneOwner`: two clients register one name, if the table, which the repository does not define, accepts it (`FSA/main.cpp:592-607`) |
| `MCThreadPool` | `MCThreadPool` | the run `thread_pool` | `ExitSucceeds`: a worker that has passed the test of `state` sleeps after main's last signal (`20190207/thread_pool/main.c:8`) |
| `MCTransFileDocs` | `MCTransFile` | | `ThreadOwnsCommand`: a thread that starts late copies the next command (`FileServerAdvance/client/client.cpp:246, 325, 384`). `SuccessMeansSame`: a full-sized file with a hole is taken for complete (`FSA/transFile.cpp:158`), or half an offset is garbage (`FSA/main.cpp:558`), or a file ends at a torn length (`FSA/transFile.cpp:144`) |
| `MCFileServerV1` | `FileServerV1` | larger ring: the connections' properties hold, and no client in service is out of the ring | `IdleIsDisconnected`: `close` does not end the `recv` of a worker that is blocked on it (`FileServer/src/main.cpp:105`). `AllWorkersReturn`: registration asks for ever (`:191-198`) |
| `MCLoginV1` | `LoginV1` | `Authenticated`; `HomeExists` | `RegisteredAsTyped`: a second name is read over the first without its end (`:188-190`) |
| `MCCommandsV1` | `CommandsV1` | the properties of commands with one more command typed ahead, both sessions typing any | `Aligned`: an entry that is gone before its `stat`; a file called like a command; a file above 100 MB that cannot be opened (`FileServer/src/transFile.cpp:158-175`). `PathsExist`, `Answered`: another session removes the directory or the file (`FileServer/src/main.cpp:463`) |
| `MCThreadPoolCancel` | `ThreadPoolCancel` | its properties | `JoinsAll`: one thread is joined several times (`20190208/thread_pool/main.c:111, 113`) |
| `MCChat` | `MCChat` | two lines each way; neither side waits for ever in `open` | `AllShown`: lines read with the pid (`20190127/A.c:35`) or cleared with the slot (`A1.c:8, 20`). `QueueRemoved`: a time-out returns without `clear` (`B.c:87`) |
| `MCSocketChat` | `SocketChat` | two units | `AllServed`: the rest of a line waits for an event (`20190201/tcp_chat_op/tcp_server_op.c:62`, `20190202/epoll_et/tcp_server_epoll.c:57`). `OthersServed`: a connection from the 12th on is not read (`20190201/tcp_chat/tcp_server.c:32`). `OldServed`: the earlier client is not read (`20190201/tcp_chat/tcp_server.c:54`). `ServerSurvives`: SIGPIPE (`:41`) |
| `MCCounters` | `Counters` | its properties | `AllExact`: no lock (`20190123/homework/multiadd/multiadd.c:21`). `DestroyedUnused`: main does not join the third thread (`20190129/homework/ticket/ticket.c:69`). `AllSold`: the sellers may leave before it is awake (`:22`) |

## 4. Proofs

Every proof has the same shape: an inductive invariant `IInv` with `Init => IInv`
and `IInv /\ [Next]_vars => IInv'`, one lemma for each action, and theorems that
derive the properties from it. Each `IInv` was first checked by TLC as an invariant
of the instance of section 3. The theorems hold for every value of the constants
that satisfies the named assumptions of the modules.

**`ThreadPoolProofs`**, for every finite set of workers, every set of connections
and every capacity at least 1: `ServerTypeCorrect`, `ConnectionsHaveOnePlace`,
`WakeupsAreNotLost`, `ExitsAreClean`. The inductive invariant is `TypeOK`, `Where`,
`Apart` and `NoLostWakeup`. `OnePlace` counts places and is not what a step preserves
directly: `Apart` says pairwise that no two places hold one connection and that every
open connection is in some place, and `PlacesFacts` derives the count from it. `Where`
ties what main and the workers hold to where they are in their code, and says that
the queue is empty once main has come to wake the workers, which is what
`CleanExit` needs. That a signal is worth one more worker on the way is
`SignalFacts`; `MoveFacts` counts for the rest.

The same module proves the list, `Q == INSTANCE WorkQueue`, in whatever order
its callers come, and then the server with its list (`PoolSpec`), for every capacity and all sets of
cells, if Main is not a worker and NULL is not a cell (`ListAssumption`). `ListInv`
is the list's `TypeOK`, `ListShape` and `OneOwner` with one clause, `FreshNode`: a node main has
calloced and not inserted still has `nextNode = NULL`. Each needs the others. The shape needs
that the node appended is not in the list and links to nothing; ownership needs that the
cell `phead` points to is the first node of `order`. Steps are grouped by what they do
to the list: `CallocStep`, `MainInsertStep`, `PopStep`, `ReleaseStep`. The refinement
(`ListImplementsFifo`) has one lemma per list operation (`InsertRefines`, `PopRefines`,
`PopEmptyRefines`) and maps every other step to a stutter or to `Finish`.

For the two together `PoolImplementsBoth` says that every step is one of each, or a
stutter, so that `IInv` and `ListInv` hold of it; `Hands` and `Spelled` say that
connections and cells agree, in the hands of main and the workers and in the queue.
From them: `TypeCorrect`, `ListIsWellFormed`, `NodesHaveOneOwner`, `ListAnswersAsFifo`,
`ImplementsFifo`.

**`ProcessPoolProofs`**, for any number of children, clients and items and any subset of the
three programs: `PoolTypeCorrect`, `FlagsAreRight`, `ClientsHaveOneServer`,
`ClientsAreToldTheTruth`. The
inductive invariant is `TypeOK`, `FlagsAgree`, `OneServer` with two more clauses.
`Lists`: a connection in a child's socket is the first thing there, the child is
waiting and has reported nothing; the exit message is sent by a parent that has left
its loop only. `Unheld`: the server has nothing of a client that has not come. `FlagsAgree`
speaks of the loop only and `OneServer` does not say where in a socket a connection
is; without the two clauses a child could take a connection while it has another,
or an exit message could overtake one.
That `First` finds an idle child when there is one is
`FirstFacts`, by the well-founded order of the naturals. `ClientsAreTold` stands on a
second invariant over the first, `Told`: how much of its stream a client has been sent,
by who holds its connection. A connection is closed with nothing sent or with all of it, or its client has left.

**`ConnTableProofs`**, for all descriptors, nodes and workers, every ring of two slots or
more and every `MaxNum` at least 1, whatever clients send (`Protocol` either way):
`TablesTypeCorrect`, `CountIsBounded`, `IdleIsBounded`, `PositionIsInRing`.
`CountBounds` is about whom epoll has, but main takes a client off the count at the end of
an event that may have been fetched before the supervisor closed it. `CountSound`
therefore counts the union of epoll, the events fetched and not yet served, and the
client being served; `CountInv` adds that the client main serves is in no other event of the batch.
`IdleBound` follows from where in the ring a client is: `HeardInRing` says that one
that has been silent for k turns is in the slot k behind the supervisor's (`Back(k)`). For
that an erase of another client must never hit its entry, which takes `NodeIsMains`
and `MapIsByFd`: main's `pnode` is a node of the number it serves.

**`FileStoreProofs`**, for all users' paths, contents and workers: `StoreTypeCorrect`
without a condition; `VirtualFilesAreIntact`, `UploadsGrowAsPrefixes` and
`LinkedWhenComplete` if clients do one thing with a path at a time (`Orderly`) and no
connection breaks inside a length (`~Torn`). Neither condition can go: `MCFileStoreDocs.cfg`
has the runs that break the properties without them. Statements may fail, transfers
break off anywhere else, and the server restart, without any assumption. The inductive
invariant has `Stages` (what a worker knows of its inode at each step from `select` to
`insert`), `Exclusive` (who else is at that path), and `Shared` and `Named`: an inode with
two names, or with a name and a hash, has the whole content, so that the
next byte of an upload is never written to a file that others share.

**`SessionProofs`**, for every set of descriptors, people, names, passwords, commands and
seconds, every initial table of users, and with `Unique` either way:
`SessionTypeCorrect`, `StreamsAreAligned`, `SessionsAreAuthenticated`,
`TransfersInOwnDirectory`. `Aligned` speaks of the next item of a stream. A client sends
several items before main reads the first, so the induction is over the whole stream:
`Takes(m, x, n)` is the automaton of what main reads in which place, `Runs(m, s, e)` says that
the items of `s` take main from `m` to `e`, and `Dialogue` that the stream takes main from
where it is to where the client believes it to be, or that one answer is under way and
the stream is empty. Beside it, `Absent` says that a number without a client has
nothing left of the last, `Meant` what secrets and tokens in a stream can be, and
`Tokens` who has one. `Proved` and `Own` are the parts of the two properties for one
connection. Entries of `tok` go stale, so nothing is true of all of them; `Current`
is about the one entry that `main.cpp:195` can accept, the token the buffer holds now.

Three more theorems need no new invariant. `ClientsDoNotWaitInVain`: the automaton never
rests, with an empty stream, where the client believes main to owe it an answer, so main and
a client do not wait for each other. `MainWaitsForAPassword`: between two
items of an event main waits only for a client that types or hashes a password, which is what
the second fairness condition of `FairSpec` assumes will end. `SessionsKeepTheirUser` is an
action property: no step changes the node of a session that goes on. The first two are the
safety in `Answered`; that an answer does come stays with TLC.

**`TransFileProofs`**, for every set of threads, workers and files and every size,
limit and window: `TransferTypeCorrect`, `SuccessIsTheFile`, `TransfersAgree`, and
`TransfersImplementCopy` (`Spec => ImplementsCopy`), under `Good`: the user waits for the
thread to copy the command (`Patient`), no process dies with a file mapped
(`~StopMapped`), no connection breaks inside a length (`~Torn`), `fileSize` starts at 0 and every size is below `Half`, so that the four
bytes received of an offset are all of it. `MCTransFileDocs.cfg` shows what happens
without each of the first three and the last. Breaks anywhere else, restarts, resumptions and both sides of
the mmap limit are covered. The inductive invariant has four parts. `ConnInv`
is about the streams: everything under way to a receiver is the beginning of what it waits for
(`StreamOK`, by its `Script`), and for each pair of places of thread and worker `Sync` says
what each has sent that the other has not read; `Alone` is the same for a thread nobody serves
yet. `OneHolder`: no file is written from two connections, where a worker may go on writing
after its thread has left, until it has read what is under way. `DiskInv`: a file is a
beginning of its original, or is mapped and has its holes behind what the receiver has counted.
`ReceivedOK`: what `recvFile` has returned 0 for is the file. For the refinement, receiving a
chunk is `Deliver`, the end of a `recvFile` is `Complete`, and a step of any other kind
leaves every beginning as it is.

`TransfersNeverStick` is the safety in `TransfersEnd`, for any window: of an unbroken
connection one end can step until both have left. `Sync` shows it for two ends that are both
there. `Closing` is the strengthening for one that has left: it has sent all that
the other still reads. That the steps bring a transfer to its end stays with TLC.

**`FirstVersionProofs`** is about the sum the run `first_version` checks (`SumSpec`), for every
number of workers, clients, sessions and people. `Parts` says that a step of the
sum is one of its parts; each part has its own inductive invariant.

`ServerInv` (connections; `NoConnectionIsForgotten`, `IdleConnectionsAreClosed`) assumes only
`BoundsAssumption`, and holds with workers lost to a registration. The supervisor closes a number under the worker that has it, and the number
is given out again, so a worker's descriptor says nothing of its client. `OneNumber`
says it the other way round: a client never has two numbers, for the kernel and the workers
together. `InRing` is for a worker whose number is its client's and nobody else's: a
client silent for k scans is in the slot k behind the pointer. `ServedAreWatched` (`ServedInRing`
of `MCFileServerV1.cfg`) says less of more: a number that is its client's
is in some slot, whoever else has it too.

`LoginInv` (`LoginsAreAuthenticated`) assumes `PlainPeople`: `Known` as in the run,
no empty name, and no person whose salt is what the server makes up for a
name without a row. `salt`, `buf` and `buf1` may hold anything an earlier client
or a failed statement left; `Salted` is why that does no harm: the salt a client
has been sent is that of a row of the name it has typed, or made up.

`CommandInv` (`SessionsAreDialogues`, `CommandsAreAligned`) assumes `PlainNames`: no file is called
like a command or `.` or `..`, the stat buffer that a failed `stat` leaves is
that of a file or a directory, and files are of up to 100 MB (`~Large`). `MCCommandsV1.cfg` names
the runs that break `Aligned` without each; the theorems say nothing of a dialogue that is lost
in one of these ways. It does not need `Orderly`: users may remove under each other's feet until the server crashes. As in
`SessionProofs`, `Aligned` is about one item and the induction about the stream: `Dialogue`
says that what is under way in both directions takes client and worker to places where
they understand each other (`Talk`), with `Takes` and `Hears` the two automata.
`SessionsDoNotStall` follows from it and `WorkersStay` (a worker leaves after its client):
where both streams are empty the two places are a pair of `Talk`, and in none of them do
both read.

`DirectoryInv` (`DirectoriesExist`) assumes `PlainNames` and `Orderly`; without the latter `PathsExist`
fails (`MCCommandsV1.cfg`). A session's directory cannot go because `rmdir` takes only an
empty one, and what is there has its parent (`Rooted`). A command is carried out after it was
typed, so `Orderly`, which is about what users type, is not enough by itself: `Apart` says that no
removal that is still pending is of a directory at or above the one another session is in or
is on its way to. `AllowedKeeps` shows that typing keeps it, and `Relative` that no
path is absolute.

**`ExercisesProofs`** is about the sum the run `exercises` checks, for the pools of
`20190205` and `20190208`, the chats and the counters; `ExerciseParts` says that a step of
the sum is one of its parts.

`PoolInv` (`PoppedAlone`), for every set of threads and clients and every capacity:
the mutex excludes until main cancels threads; from then on it need not, because the
clean-up handler unlocks it whoever has it, and the queue is empty, so that nobody has
anything to pop. `PopAlone` is therefore not the exclusion of the mutex, which fails then.

`HeldInv`, for every natural number of threads and items and any clients other than `None`
(`PoolBounds`), is what the pool promises its clients: `CancelledPoolHolds`,
`CancelledPoolWakes`, `CancelledPoolTells`. `OneHolder` says pairwise that no two
have one connection, `Backlog` that nobody waits in accept once main drains, and `Hands` ties
what main and the threads hold to their places. `Told` goes by how
much of its stream a client has been sent and by who holds its connection. These are the safety in
`EveryoneIsTold`, of which TLC checks the rest.

`ChatInv` (`ChatsLoseNothing`), for every number of lines (`Lines1`, `Lines2`):
`PipeChat` is the property of both sides, with the FIFO of a side that is still opening. For
the version with the pids `Greeting` is what the property rests on: when side 2 begins to chat it
has read the pid and nothing else, because side 1 types nothing before it has its answer.
Side 1 has no such guarantee, and no theorem. `OrderNext` and `OrderOther` are the two
facts about sequences: the next line keeps the order, and so does anything of one's own.

`CountInv` (`SumsAreExact`), for every natural `N`: what has been loaded under the lock is
still the number, and the number is the sum of the rounds done.

Every invariant the runs check is thus stated by a theorem, under the conditions named
above, and so are the two refinements. Left to TLC are the liveness properties, which
need fairness and ENABLED (`EveryClientClosed`, `HeardIsDropped`, `Answered`,
`HungUpIsReaped`, `TransfersEnd`, `ExitReturns`, `WorkersReturn`, `EveryoneIsTold`,
`ExitEnds`, `BothEnd`, `CurrentServed`, `Finishes`), and the properties of the cfgs for use by
hand.

## 5. Not modelled, and the plan

* The UDP chat: two loops around `recvfrom` and `sendto` that keep the last
  sender's address; a lost datagram is a line that is not shown.
* The demonstrations of one library call, `gscp`, and the compiler's output.
* FileServerAdvance's directory commands have no module of their own: they are
  line for line the first version's, which `CommandsV1` models with more concurrency
  than main has there.
* Wording of messages, the log, the progress display, what libmysqlclient and
  libcrypt do beyond a statement that fails and a function of its inputs.

Worth doing next: the supervisor and the dialogues of the first version in one
module, so that a number taken over by another client meets the dialogue of the first;
then theorems about it that need neither `PlainPeople` nor `PlainNames` for what does
not depend on them.
