# A formal model of libmo

libmo is a C++ library for server programs: sockets (plain and TLS), databases
(MySQL and Oracle behind one interface), a hash table, a keyword automaton, IPC
handles, configuration, logging, character conversion. This directory models
the parts of it where correctness depends on an order of steps, checks them with
TLC on small instances, and proves the central results with TLAPS for every
value of the parameters.

Contents: [inventory](#1-inventory-of-the-library),
[modules](#2-modules-and-how-they-correspond-to-the-code),
[runs](#3-what-the-runs-check), [fairness](#4-fairness),
[proofs](#5-what-is-proved), [disagreements](#6-where-the-code-disagrees-with-its-documentation),
[what is not modelled](#7-what-is-not-modelled), [plan](#8-plan).

Paths begin at the directory that holds the repository, `src/`. To repeat a check:
`tlc -config TcpFrames.cfg MCTcpStream`, `tlapm TcpStreamProofs.tla`.

## 1. Inventory of the library

Nothing in the library starts a thread. Concurrency comes from the programs that
use it (threads that share a socket through copies of an object, or that make
database drivers at the same time; processes that share semaphores and queues),
from the peer and the kernel between two system calls, and from the rest of the
process, with which a `Socket` shares the table of descriptors.

### Net: Socket, TcpListener, TcpClient (src/src/Net/Socket.cpp, TcpListener.cpp, TcpClient.cpp)

* **State.** `sock_fd`; `ref_counter`, an int on the heap that all copies of an
  object share; default time limits; the descriptor's flags in the kernel.
* **Operations.** Construction (`socket`), copying, assignment, destruction,
  `Close`; `Connect` with a time limit; `Accept`, which makes a `TcpClient` of a
  new descriptor; `Send`, `CSend`, `SendCLRF`, `Recv`, `CRecv`, `RecvCLRF`, each a
  loop of `select` and one `send`/`recv` with `MSG_DONTWAIT`.
* **Interaction.** Copies share the descriptor; threads share the stream; the
  kernel reuses descriptor numbers.
* **Hard.** A short `send` or `recv` anywhere; what `select` said is stale by the
  time `recv` runs (another thread took the bytes: EAGAIN); close or reset in the
  middle of a message; a counter that must be right after any history of copies,
  assignments (self-assignment, assignment between copies) and destructors.
* **Hard in Connect.** It makes the descriptor non-blocking and puts the flags back
  on one of its paths only; after a time-out it is called again while the first
  SYN may still be answered; `select` overwrites the object's default time limit.
* **Correct if** CSend/CRecv carry frames whole and in order and throw only with
  a cause; the stream is divided between readers without loss or duplication;
  every call returns; a descriptor is open exactly while an object has it; a
  Connect that returns has a connection.

### Net: SslClient (src/src/Net/SslClient.cpp)

* **State.** `ssl_m`, `ctx_m`; in OpenSSL: decrypted bytes nobody has read, a
  write that has to be repeated, a handshake under way.
* **Operations.** `SSLConnect`; the six transfer calls again, over `SSL_read` and
  `SSL_write` on a non-blocking socket: try first, `select` for what OpenSSL asks.
* **Hard.** `SSL_read` may have to write and `SSL_write` to read (renegotiation);
  decrypted bytes make no socket readable; a write is begun again with the rest
  of the same buffer; calls of different kinds follow each other on one stream.
  SSLConnect is called again on an object that has an SSL handle already, and its
  one `SSL_connect` needs the blocking mode that Connect leaves behind.
* **Correct if** both directions arrive intact, 0 means the peer's close, a call
  throws only with a cause, and each call returns when it can; a connection that
  SSLConnect returned with is verified; handles go with their object.

### HashTable (src/src/HashTable.tpl)

* **State.** `table` (chains), `table_size`, `key_number`, `rehash_size`.
* **Operations.** `Put`, `Get`, `operator[]`, `Remove`, `Contains`, `Clear`,
  `operator=`, construction; `Rehash` from `Put`, which itself calls `Put`.
* **Used by** ConfigReader.
* **Hard.** A put inside the loop of `Rehash` may rehash again, while the outer
  loop goes on over its own old table; the count is reset and rebuilt on the way;
  removal inside a chain; growth at the boundary of the load factor.
* **Correct if** it is a dictionary, through every rehash; the count is the
  number of keys; it never passes its load factor; every operation ends.

### AutoMachine (src/src/AutoMachine.cpp)

* **State.** The word list with counts, the table `states`, `usedstates`.
* **Operations.** `Addword`, `Prepare` (insert, then breadth first with a circular
  queue), five `Find` functions, `Clear`.
* **Hard.** Word *i* must end in state *i*, so states are moved while inserting;
  the table and the queue are allocated from the words' length and number before
  the states are counted; the failure states are taken from rows that are being
  rewritten; a table stays in use after further `Addword`s.
* **Correct if** `Prepare` stays inside its arrays and ends; a search reports
  exactly the words that end at a character.

### MDB results (src/src/MDB/MDBResult*.cpp, MDBRow, MDBField, MDBColumn)

* **State.** `cursor_m`, the cache `rowmap_m`, the columns' buffers; the client
  library's own cursor.
* **Operations.** `FetchRow`, `Seek`, `Free`, and the accessors of rows and fields.
* **Hard.** Two cursors, one moved only when the cache misses; rows numbered from
  0 (MySQL) and from 1 (Oracle); the end of the data; a `long` offset in an `int`
  cursor; buffers that stay from row to row.
* **Correct if** it is a cursor over the rows, whichever child it is.

### MDB drivers and statements (src/src/MDB/MDBDriver_Oracle.cpp, MDBDriver_Mysql.cpp, MDBStatement_Oracle.cpp)

* **State.** Handles of the client library: of the connection, and per statement
  and result a statement handle and an error handle.
* **Operations.** Construction (connects), `Disconnect`, `Prepare`, `Query` and
  `Execute` with SQL or a statement, `Commit`, `Rollback`, `BindByName`/`BindByPos`.
* **Hard.** Every call of the client library can fail, with other handles
  allocated each time; a statement and its results share a handle that both free;
  a constructor that throws has no destructor; the library replaces the handler of
  SIGINT while it attaches to a server.
* **Correct if** no handle is lost or freed twice, none is taken away from an
  object that still exists, and the process's handler of SIGINT is given back.

### IPC: Semaphore, MessageQueue (src/src/IPC/Semaphore.cpp, MessageQueue.cpp)

* **State.** A name or an id, a pointer to what the kernel or the C library keeps,
  and `ref_counter`. In the kernel: names, values, queues, which outlive processes.
* **Operations.** Making by a name or path, by a generated name or from an id;
  copying, assignment, destruction; Wait, Post, Send, Recv, Create, Destory.
* **Hard.** `*(ref_counter)++` moves the pointer instead of counting, so that a copy
  counts down memory beside the counter; two processes race to make one name;
  a process dies with a semaphore taken or a queue made; names made from `rand()`,
  which nobody seeds, and the pid come again.
* **Correct if** the objects of one name are one semaphore with one history; an
  object keeps what it opened whatever copies are made and deleted.

### ConfigReader (src/src/ConfigReader.cpp)

* **State.** The file's name and a HashTable of settings.
* **Operations.** Construction, `Load`, `Reload`, `Add`, `operator[]`.
* **Hard.** The file can be gone or rewritten; Load clears the table before it
  knows that the file can be opened; a line without a key throws half way; `getline`
  can fail without the end of the file, which is all that the loop looks for.
* **Correct if** after a call, failed or not, the table is what the lines that were
  read say over what had to stay; a call ends.

### The rest

* **Mutex** (src/src/IPC/Mutex.cpp). One pthread call per function, on memory one object owns.
* **MDB factory** (src/src/MDB/MDB.cpp). Parses a DSN and makes a driver.
* **MDBDate, Miconv, Log, Exception.** Calendar conversion, one `iconv` call,
  formatting. No state that lasts over more than one call.

PROJECT.json lists every component with its status, and the hazards of the code
at the lines where they bite.

## 2. Modules and how they correspond to the code

| Component | Model | Abstract specification | Instances | Proofs |
|---|---|---|---|---|
| TcpClient | TcpStream | FrameChannel | MCTcpStream | TcpStreamProofs |
| SslClient, transfer | SslStream | | MCSslStream | SslStreamProofs |
| Socket::Connect, SslClient::SSLConnect | SocketConnect, SslConnect (extends it) | | MCSslConnect | SslConnectProofs |
| Socket, TcpListener::Accept | SocketHandles | SharedHandle | (itself) | SocketHandlesProofs |
| Semaphore, MessageQueue | Semaphore, MessageQueue, Ipc (both together) | | MCIpc | IpcProofs |
| HashTable, ConfigReader | HashTable, ConfigReader, TableClasses (both) | Dictionary (of HashTable) | MCTableClasses | TableProofs |
| AutoMachine | AutoMachine | | MCAutoMachine | AutoMachineProofs |
| MDBResult and children | ResultSet | RowCursor | MCResultSet, MCMdb | MdbProofs |
| MDBDriver_Oracle, MDBStatement_Oracle | OracleHandles, OracleDriver (extends it); Mdb (with ResultSet) | | MCMdb | MdbProofs |

An operator named `Bug...` is a variant of the definition that follows it or
stands near it, with a mistake one could make in that code. It is not part of any
specification: it is put in place of the definition to see that a property
notices (PROJECT.json, "mutants").

**TcpStream.** One direction of a connection. A byte is its position in what the
sender means to send, so loss, duplication and reordering are visible without
contents. `wpc`, `msg`, `sent` are the sender's place in CSend, `rpc`, `buf`,
`got` each reader's place, its current call and what its calls returned; `chan` is
what the kernel holds, at most `Window` bytes. `select` and `send`/`recv` are
separate steps: between them another thread can empty the socket (`RAgain`), the
window can fill (`WAgain`), the peer can close (`REof`), the connection can be
reset (`Reset`, loses `chan`), or select can time out or fail. A system call that
a signal interrupts is repeated at once and is a stuttering step.

**SslStream.** Both directions. A program makes the calls of a script; each is
`SSL_read`/`SSL_write` first, then `select` for the set the code has put the
socket in (`want`), then again. OpenSSL, from the way the code uses it, is: whole
records, bytes it keeps decrypted (`decrypted`), a write that went part of the way
(`written`), and a handshake the peer asks for (`handshake`), which whichever
call is running must finish first. `closed` is whether the peer has closed. `CRecv`
waits for readability only, as the code does.

**SocketConnect, SslConnect.** SocketConnect is one Socket and what the kernel keeps
for it: `sock` is what connect() remembers, `tcp` the connection, `so_error` the
pending error. Connect is one step per system call (`pc`): F_SETFL, connect(),
select, SO_ERROR; the peer answers, refuses or resets between any two of them. A
failed Connect may be called again: `ConnectAgain` is EALREADY, the one late
success, the error of the attempt before, or EISCONN. `timeout` is the member that
select counts down (`TranslateTime`). SslConnect
is the object around it: `step` is the place in SSLConnect, whose Connect is
SocketConnect's; `allocated` are the SSL handles that nobody freed, `session` is
the handle whose handshake used the connection there is now. `first` and `lossy`
only record what the program did.

**SocketHandles.** Objects, counter cells and descriptor numbers are all reused.
`table[f]` says whose descriptor `f` is: a counter's, somebody else's (`Other`) or
nobody's. Assignment is the code's: nothing if both share a counter, else release
the left side and count the right. `Close` is the public function: the objects
keep the number, and `by_hand` records that the program did this. Some properties
hold always, some until then.

**Semaphore, MessageQueue, Ipc.** `Home` says in which process each object lives; a
process that dies (`SemDie`, `QueueDie`, together `Ipc!Die`) takes its objects and
its mappings, and nothing from the kernel. The constructor of a semaphore is one
step per `sem_open`; `dir` and `value` are the kernel's, `opens` the C library's
count of `sem_open`s, and `owed` what the users of a name should find. `astray` and
`lost` mark the objects whose counter pointer was moved: what their destructor
finds there is unknown, so it either does nothing but go, or ends the process.
The receive of a queue chooses the first message of its type, and waits. Paths
are their own keys: `ftok` can give two paths one key, which is not modelled.

**ConfigReader.** A file is a sequence of lines as getline, Trim and `>>` see them;
each call opens whatever content the file has at that time, and reads one line
per step. `cut` marks a line in which getline fails, because it fills the buffer or the
file cannot be read on (a directory that was opened cannot at all): after it,
getline fails and the loop goes round for ever (`ReadNothing`), unless the line itself
throws. The table is the function that HashTable implements (section 5).

**HashTable.** Chains are sequences, buckets count from 0. `Put` is one step unless
it rehashes; then `old` is the stack of the `old_table` arrays of the running
`Rehash` calls, innermost first, and each `Move` takes the next node of the
innermost and puts it as `Put` does, which may push another array. `operator=`
uses the same loop. `Remove` of a key in an empty bucket sets `crashed`.

**AutoMachine.** `Insert` is the insertion of one word, `Fill` the visit of one
state of the breadth-first walk, `Inserted` and `Filled` what is between and
after. A search reads one character per step. The hazards of the list functions
are kept: the word `wordlist[state-1]` is listed whichever word it is, and
`undefined` is set where that reads beyond the list. What the code does in a loop
within one action (`Walk` over the characters of a word, `FirstStates` and `Visit` over
the columns of a state, `lengths`, `Following` along the KN column) is a recursive
function, so that it can be proved about.

**ResultSet.** `driver` says which child the object is. `HitMysql`, `MissMysql`,
`EndMysql` and so on are the ways through `FetchRow`; `data_cursor` is the client
library's cursor. An int has the width of `IntMax`, and `AsInt` wraps. A row of
the cache records which row of the database it was made from (`at`) and its
column as read from the buffer (`col`), so that both a wrong row and a stale
buffer would show. `failed` records that the last call met an error, which the code
prints and the caller never sees: the abstract cursor knows the end of the data
(`GiveNone`) from an error (`Fail`).

**OracleHandles.** A call of the driver is a sequence of steps (`call`, `at`), one
per call of OCI that can fail, with its local variables `stmthp`, `errhp`. Memory
of freed handles is reused at once. `undefined` is set by freeing or using a
handle that is not allocated as such; nothing happens after that. `severed`
records that the program deleted an object that shared its statement handle with
another, freed a result by hand, or disconnected under its objects. No function
looks whether Disconnect was called, so all of them can be called after it.

**OracleDriver.** It extends OracleHandles with the connections that several threads
construct: `built` is the place of each constructor, one per call of OCI that can
fail, `held` what OCI has allocated for it. `OCIServerAttach` may put Oracle's
handler of SIGINT in place of the process's (`handler`), and the constructor puts
back what it has saved (`old_act`). The driver `Ours` is the one whose calls are
those of OracleHandles (`Calls`), once its constructor ended. `lost` is where a
constructor threw outside of its try block with handles allocated. Connect can be called
again, and loses the session handle of the first (`Lost`).

**TableClasses, Mdb.** Two classes side by side, as in Ipc: neither reads the state of the
other. `uses` says which of them the program uses in a behaviour.

## 3. What the runs check

| Run | Instance | Distinct states | Result |
|---|---|---|---|
| tcp_frames | messages of 3, 0, 1, 4 bytes; one CRecv reader; window 3 | 923 | holds |
| tcp_shared | messages of 3, 2 bytes; two Recv readers of 2 bytes; window 3 | 34,738 | holds |
| tcp_lines | lines of 1 and 2 bytes + CRLF; BUFSIZE 4 | | LinesInOrder violated |
| ssl_calls | four scripts of mixed calls; 5 peer bytes, records up to 3, window 2, two handshakes | 33,087 | holds |
| connect | 2 SSL handles and contexts, time limits up to 2 | 41,490 | holds |
| socket_handles | 4 objects, 3 counters, 3 descriptors | 66,976 | holds |
| ipc | 2 processes, 3 objects of either kind, 2 semaphores, one given name, 2 queues | 311,892 (up to symmetry) | holds |
| tables | 2 tables, 3 keys with hashes 0, 1, 8; 2 values; size 1, load 1/3; 2 files of up to 3 lines, 2 keys, 2 values | 295,616 | holds |
| mdb | 3 rows, 2 values and null, a 4-bit int, offsets at every bound; 2 drivers, 1 statement, 2 results, 5 handles | 80,284 (up to symmetry) | holds |
| fetch_errors | the same result | | NullIsEnd violated |
| machine | 4 overlapping words over A, a, b, up to 3 added; texts up to 4 | 273,766 | holds |
| longer_word | a word and one that goes on where it ends | | LongerReturned violated |

What the properties say. Type correctness is proved instead (section 5), or part
of a named bundle (`Intact`, `ArraysFit`).

* **tcp_frames.** `FrameIntegrity`: the j-th CRecv returns the j-th message whole.
  `NoSpuriousThrow`: an end throws only after a time-out, a failing select or a
  reset. `ImplementsFrames`: the transfer implements FrameChannel.
  `Termination`: both ends return or throw, without counting on a time limit.
  `AllDelivered`: undisturbed, every message arrives. The window is smaller than
  the longest message, so each transfer is cut in several ways; a message of
  length 0 takes no step on the wire; the last message follows a one-byte one.
* **tcp_shared.** `Divided`: each byte is in the kernel or with exactly one reader,
  and no reader gets an earlier byte after a later one. `EofIsTheEnd`: Recv returns
  0 only when all has been received. Two readers are the smallest number for which
  one can take the bytes another was woken for.
* **tcp_lines.** `LinesInOrder`, what TcpClient.h:158 says of RecvCLRF, is violated
  (section 6).
* **ssl_calls.** `Intact`: both directions, through records, handshakes and repeated
  writes. `ZeroIsClose`: where Recv returned 0 the peer has closed, and all its bytes
  were received. `NoSpuriousThrow`. `CallsReturn`: a call returns unless the
  peer sends nothing it could return, or it is a CRecv that waits on the wrong set
  (`Forgotten`, section 6). The window of 2 is less than a message, so the kernel
  can be full of the program's own bytes when OpenSSL has to answer a handshake. One
  script begins a RecvCLRF between a CR and its LF.
* **connect.** `ReturnsConnected`: whatever becomes of the SYN and whichever attempt
  it is, a Connect that returns has made the connection. `ConnectEnds`.
  `FirstHandshakeWaits`: the single SSL_connect of an object's first
  attempt finds a blocking socket, but after a connection that was answered at
  once. `NothingLost`: an object that connects once loses no handle. Two handles are
  what a second SSLConnect needs to lose the first; two contexts give a second object.
* **socket_handles.** `CountIsReferences` and `NoLeak` hold whatever the program
  does; `OwnDescriptor` and the refinement of SharedHandle (`ImplementsSharedHandle`)
  until the first explicit `Close`. Four objects and three counters allow two groups of copies with a third
  resource made while one is being released; three descriptors make reuse happen.
* **ipc.** `OneSemaphore`: the objects of a name are one semaphore, whose value is the
  first initial value and all posts and waits since. `OpenerUses` and `QueueStays`:
  no copy, deletion or death takes a semaphore or a queue away from the object that
  made it. Two objects in one process can be copies of each other while a third
  in another races for the name; two queues are what forgetting one needs. A
  behaviour makes semaphores or queues (`Both` is FALSE), as neither touches the
  state of the other; the theorems are about both together.
* **tables.** `LoadBounded`, `ImplementsDictionary`, `OperationsReturn`. With size 1 and
  load 1/3 the limit starts at 0: the first Put rehashes, and the put inside that
  rehash rehashes again. Keys with hashes 0 and 8 stay in one chain up to size 8, so
  that Remove meets first, middle and last nodes. `EndsAsRead`: however a Load or
  Reload ends, the table is what the lines read so far say, the last for each key, over
  what the call had to keep. `CallsEnd`: whoever rewrites the file, a call ends if no
  line is cut or the table throws before the cut; and if one is, it comes to loop
  for ever. Three lines hold a key twice with a failure before or after.
* **machine.** `ArraysFit`: Prepare stays inside the table and the queue it
  allocated. `PrepareEnds`. `WordReported`, `LongestReported`: the searches for one
  word; of several that end at one character, the longest. `OccurrencesCounted`: the
  searches for all count each occurrence once, but for exactly those that
  FindAllUntilLen passes over (`Covered`, section 6). The
  four words are prefixes, suffixes and inner parts of each other, and two of
  them only when case is ignored. Words are added in every order and repeatedly.
  `MaxTotal` 0 stops the program after the first search that counted something.
* **longer_word.** `LongerReturned`, what the comment at AutoMachine.cpp:333-338 says, is
  violated (section 6).
* **mdb, the results.** `CacheAgrees`: every cached row is the row of its number, Oracle
  nulls excepted. `ImplementsRowCursor`: FetchRow returns the rows in turn, NULL
  without an error only after the last, and an error moves nothing. With an int of 4
  bits and 3 rows the offsets contain each value that wraps to a row, to -1 or next
  to it.
* **fetch_errors.** `NullIsEnd`, what MDBResult_Oracle.h:131 makes a caller believe, is
  violated (section 6).
* **mdb, the driver.** `HandlesOwned`: wherever a call fails, no handle is lost.
  `Usable`: as long as the program itself has not freed handles that an object has,
  every object's handles are good and only a statement and its
  results share one. `UndefinedIsKnown`: memory that is not the
  driver's is freed or used in four cases (section 6) and no other, also when the
  program calls on after Disconnect. `ConnectionOwned`: a driver that failed or was
  closed has left nothing allocated, but for what a constructor loses outside of
  its try block. `HandlerRestored`: Oracle's handler of SIGINT does not stay, unless
  two constructors overlapped. One statement and two results give two results of one
  statement as well as unrelated ones; five handles are enough for a call beside
  two objects, and one that was freed is soon reused. Two
  drivers are enough to overlap; `Together` is FALSE, that is, the second is
  constructed while the first has no objects, which it shares nothing with.
  `FreeAgain` is FALSE: Free is called by hand once, before anything else went wrong.
  `BothClasses` is FALSE here and in tables, `Both` in ipc, as neither class touches the
  state of the other; the theorems do not assume it.

`CHECK_DEADLOCK FALSE` is set where the system really stops: HashTable after a null
dereference and ConfigReader in the endless loop (tables), AutoMachine and
OracleHandles at undefined behaviour (AutoMachine at its bound as well), OracleHandles
also when a Prepare or Query would make an object more than the instance has places
for (mdb), SslConnect when its handles are used up, Ipc when every process waits for a
semaphore or message that nobody will post.

Bounds that appear in guards: `MaxWords`, `MaxText`, `MaxTotal` (AutoMachine),
`MaxHellos` (SslStream), `MaxTime`, `MaxHandles` (SslConnect), `MaxRand`, `MaxValue`,
`MaxOpens` (Semaphore), `MaxQueues`, `Choosers` (MessageQueue), `Both` (Ipc), `MaxLines`
(ConfigReader), `FreeAgain` (OracleHandles), `Together` (OracleDriver), `BothClasses`
(TableClasses, Mdb). `N`, `Start`, `PeerBytes` and `Capacity` are
what peers and kernel do in the instance. The other models are finite by
themselves. `MaxTime` 2 lets the default run down in two steps; `MaxOpens` 2 lets two
objects of a process open one semaphore; `MaxRand` 1 is enough for a pid to come
again and make the name it made before.

## 4. Fairness

* TcpStream: `WF` of the sender and of each reader without their time-outs: a
  thread that can go on does. `SF` of `SendSome`: a socket that is writable again
  and again does not answer EAGAIN for ever; without it the loop of select and
  send could spin, which the kernel does not do. No time limit is assumed, since a
  call may have none, and no reset is.
* SslStream: `WF` of the program and of a peer that sends what it has and takes
  what it is sent, `SF` of `TakeRecord`: a record on the way becomes whole.
  The peer's handshakes and close are not assumed to happen.
* HashTable: `WF` of the loop that moves nodes; one thread runs it.
* AutoMachine: `WF` of the steps of `Prepare`; one thread runs it.
* SslConnect: `WF` of the steps of Connect, and of the answer to a SYN: the kernel
  gives up one that nobody answers. Nothing is assumed of a handshake.
* ConfigReader: `WF` of the steps that read a line; one thread runs them.
* SocketHandles, Ipc, Mdb: none. Their properties are of safety.

## 5. What is proved

All theorems are about the specifications the runs check, for every value of the
constants that satisfies the named assumption of the module.

**TcpStreamProofs** (any number and lengths of messages, any window, readers and
functions): `TypeCorrect`, `FrameIntegrityHolds`, `NoSpuriousThrowHolds`,
`FramesImplemented`. FrameIntegrity alone is not inductive: what CRecv returns
depends on what is in the kernel. `Inv` adds that, until a reset, the bytes in
`chan` are consecutive, end at the last byte the kernel accepted and begin after
what the reader has. With several readers, `SharedHolds`, `DividedHolds` and
`EofIsTheEndHolds`: `SharedInv` adds that each reader's bytes are in order and none is
after `Front`, the last byte that left the kernel, that no two readers have the same
byte, and, while nothing is cut or reset, that each byte up to `Front` is with one.
Sums of message lengths need induction; the library's takes an operator, so the
module derives one for sets (`SetInduction`) from the well-foundedness of finite
sets under inclusion.

**SslStreamProofs** (any programs, peer bytes, line ends, cut into records, window,
number of handshakes): `IntactHolds`, `ZeroIsCloseHolds`, `NoSpuriousThrowHolds`,
from `IInvHolds`. Intact is not inductive: it says nothing of the records on the
way. `IInv` adds that what the calls returned, `buf`, `decrypted` and the records
are consecutive bytes of the peer's (`BytesInv`); that what went out continues what
the peer received, up to the part written (`SentInv`); that a handshake has one
message on the way, in the order Hello, Reply, Done, and nothing follows the close
(`WireInv`); what the call under way holds and waits for (`CallInv`); and what each
finished call found (`PastInv`). The first attempt failed: StreamIntact said of
RecvCLRF that its line has the first CRLF from where it began, which is false when
the call before it took the CR alone. The clause now excludes that LF, and a script
of the run reaches the case.

**SocketHandlesProofs** (any finite set of objects): `TypeCorrect`,
`CountIsReferencesHolds`, `NoLeakHolds`, `OwnDescriptorHolds`,
`ClosesOnlyItsOwnHolds` (a destructor closes no descriptor of anybody else),
`SharedHandleImplemented`. `Inv` adds that objects with the same counter have the
same descriptor (`Agree`) and that no resource is open under two (`OneFd`):
without them "the last one closes" would not say what is closed.

**TableProofs, the hash table** (any hash, load factor, initial size, number of tables):
`TypeCorrect`, `PlacedHolds`, `CountsNodesHolds`, `LoadBoundedHolds`,
`NestedIsLastHolds`, `DictionaryImplemented`. The inductive invariant `IInv` says
that every table is sound, and of the rehash under way (`Frames`) that moved and
unmoved nodes have different keys, that together they fit the new table or are
just one, and that only the innermost array still has nodes. The last is why the
nested rehash is harmless: only a table whose limit is 0 rehashes again, and then
there is a single node.

**TableProofs, ConfigReader** (any keys and values, files of any length):
`ConfigInvHolds`, `EndsAsReadHolds`. EndsAsRead is about the step that ends a call. `ConfigInv`
says at every line what it says at the end: the lines not read are the last of the
file's, and the table is what those that were read say, the last for each key, over
what the call keeps. That a key that was read has a last line is part of the
invariant (`HasLasts`), since it would need induction to derive.

**MdbProofs, results** (any rows, any width of an int, any offsets; assumes that the
rows are at least one and fewer than the largest int): `ResultTypeCorrect`,
`CacheAgreesHolds`, `RowCursorImplemented`, `RowsStayHolds` (a row once returned is
not replaced). `ResultInv` adds that the two cursors of MySQL agree unless the library's
is past the last row (`InStep`).

**MdbProofs, Oracle's handles** (any statements, results, handles and drivers, in any
interleaving): `TypeCorrect`, `HandlesOwnedHolds`, `UsableHolds`,
`ConnectionOwnedHolds`, `HandlerRestoredHolds`, `UndefinedIsKnownHolds`, all of
OracleDriver's specification. `Inv` adds what the local variables of a running call
hold at each place (`Locals`), and that these handles are allocated and belong to
no object, unless the call was given a statement (`Held`). `DInv` adds what each
constructor has allocated at each place (`Stages`), that ours is called only while
it exists (`Called`), and that, until two overlap, one constructor at a time stands
between saving and restoring, with the program's handler in hand (`Handled`).

**SslConnectProofs** (any time limits and number of handles): `TypeCorrect`,
`ReturnsConnectedHolds`, `FirstHandshakeWaitsHolds`,
`NothingLostHolds`, and `ReadyIsVerifiedHolds`: what SSLConnect returned with stays
a verified session on the object's own handle until it connects again. `Inv` adds
where Connect and SSLConnect can be together (`Stations`), that a failed SYN left
its error for SO_ERROR (`Waiting`), what the flags were before (`Starts`), and what
the session is on the way to a verified one (`Sessions`).

**IpcProofs** (any processes, objects, names, queues; both classes at once):
`OneSemaphoreHolds`, `OpenerUsesHolds`, `QueueStaysHolds`, and `NameStaysHolds` (the
constructor that found a name taken does not throw for want of it) and
`UnnamedIsNewHolds` (a generated name is new, but in a process whose pid another had
before). `IInv` adds that no two names name one semaphore (`Directory`), that the
objects that count as openers of a semaphore are no more than its openings
(`Covered`, by cardinalities of finite sets), that generated names lead nowhere
until their process makes them (`FreshNames`), and that a queue two objects would
remove is shared or given up (`QInv`).

**AutoMachineProofs** (any alphabet, folding of case, words in any order and number,
repeated or prefixes of each other, and any text): `ArraysFitHolds`,
`WordReportedHolds`, `LongestReportedHolds` and `OccurrencesCountedHolds`. First, what
is inside the arrays. The code allocates `wordslength + 2` rows before it numbers the states and `wordsnum + 1`
places for a circular queue nobody checks; nothing in `ArraysFit` itself says why
they are enough. The assumption on the constants is that no character occurs twice in the
alphabet, `KN` is none, folding twice is folding once and no word is empty (`Addword`
refuses those). `IInv` adds, for each phase of `Prepare`:

* inserting (`Inserting`): the table is a tree, each state reached by one prefix of the
  words inserted (`Shape`), with words 1 to i in states 1 to i, the states of later words
  empty, and no more states used than there are characters in the words so far and words
  still to come. A word may take a state for each of its characters, but then its last
  one is given back, since the word has a state of its own (`WalkEnds`, `TakePlace`); this
  is the row that the comment at AutoMachine.cpp:156 tells of;
* filling (`Filling`, `Waiting`): the rows not yet visited are still that tree, every
  state visited goes to states whose prefix is no longer than its own and one
  character, a waiting state's failure state has a shorter prefix, and none of the prefixes
  in the queue begins with another. Each of these begins a word, and a word begins with one of them at
  most, so that no more wait than there are words (`FewWait`; the comment at
  215-223 claims this). While a state is visited the same holds with its children in the
  queue and the columns left to do (`Fan`);
* idle (`Idling`, `Ranked`): the KN column leads to ever shorter prefixes, so that
  following it ends (`FollowingFacts`), and what a search counts and lists is a word.

Then, what the table means, from which the searches are right. `SInv` adds to `IInv`:

* idle (`Searching`, `Meaning`): the column of a character leads from the state of a prefix to
  the state of the longest suffix of prefix and character that is itself a prefix
  of a word (`Leads`), and the KN column holds the longest word that ends inside the
  prefix, or, if there is none, the prefix's own word (`Tells`). A search is in the state
  of the longest suffix of the text that is a prefix of a word (`Stands`), and one more
  character keeps it there (`StandsNext`). All of it with the folded characters, if
  the model does not match case, and while the table was made from the words there
  are (`Current`);
* filling (`Sensing`, `Sensible`): the rows behind the walk mean that already (`Goes`), the
  KN column does one step earlier, in the rows that wait, each entry of the queue names the
  state of its longest proper suffix as failure state, and the lengths in the queue
  do not fall and rise by one at most (`Failing`). That order is why the row of a failure
  state is finished when it is copied (`VisitSense`, `FilledSense`), although the
  table is rewritten in place.

The word reported is then what `Tells` says of the state (`Report`), and the chain
of the KN column from a word's state lists the other words that end in it, each once
(`ChainFacts`, by induction on the length). What starts with the state lists all the
words that end there, and what starts with its KN column, as FindAllUntilLen does, all but
the state's own, unless that is the only one (`Listing`, `EndingLists`), so that the counts
of one step are right, in whichever order and however early the search gives up
(`CountFound`). A word added twice has one state, that of its last number
(`EndsCounted`).

Recursive functions are given meaning by showing, by induction on the numbers
(`SetInduction`, from the well-foundedness of inclusion), that a function with
their equation exists (`WalkExists`, `VisitExists`, `FollowingExists`, ...).

Only model-checked: all liveness (`Termination`, `AllDelivered`,
`OperationsReturn`, `PrepareEnds`, `CallsReturn`, `ConnectEnds`, `CallsEnd`), which is
beyond the prover. Every safety property of a passing run is stated by a theorem.

## 6. Where the code disagrees with its documentation

| Run | Line | What happens |
|---|---|---|
| tcp_lines | src/src/Net/TcpClient.cpp:347 | `RecvCLRF` reads up to BUFSIZE bytes and drops what follows its CRLF; two lines sent close together lose the start of the second |
| fetch_errors | src/src/MDB/MDBResult_Oracle.cpp:98 | include/MDB/MDBResult_Oracle.h:131 says that `CheckError` throws when a function of OCI fails; it prints (232-270), and `FetchRow` returns NULL as at the end of the data |
| longer_word | src/src/AutoMachine.cpp:321 | the comment at 333-338 says that of 'abc' and 'abcd' the longer is returned in 'hiabcdhi'; `FindUntilNull` returns at the first state with a word, which is that of 'abc' |

The models also contain, each excepted by name in a property that holds:

* `SslClient::CRecv` puts its socket in `write_fds` at WANT_WRITE but selects on
  `read_fds` only, and waits for ever (src/src/Net/SslClient.cpp:422; `Forgotten` in
  `CallsReturn`); the comment at 200-202 says both sets are needed.
* Connect with a negative time limit ends in EINVAL (`SelectFails`), and leaves the
  socket non-blocking after a connection made at once and after every failure
  (src/src/Net/Socket.cpp:138; `first`).
* A second SSLConnect of an object forgets its first SSL handle, and a constructor
  that throws its context (src/src/Net/SslClient.cpp:90, 30; `lossy`).
* `*(ref_counter)++` (src/src/IPC/Semaphore.cpp:57, MessageQueue.cpp:70) moves the
  pointer (`astray`, `lost`).
* `FindAllUntilNull` lists `wordlist[state-1]` in place of each word that ends there
  (src/src/AutoMachine.cpp:395; `undefined`).
* `FindAllUntilLen`, which is to find all words (502-503), does not count the word of the
  state it is in when a shorter one ends there too (src/src/AutoMachine.cpp:515-523;
  `Covered` in `OccurrencesCounted`).
* The default time limit of Recv and Send runs down: `TranslateTime` returns the
  address of the member `timeout`, which select overwrites with the time left on
  Linux (src/src/Net/Socket.cpp:473-475). Net/Socket.h:235-237 says that it returns a
  pointer to `timevs_`, and Net/TcpClient.h:97 that 0 stands for the default limit.
* `table = table` empties the table (src/src/HashTable.tpl:140; `Assign`, in Dictionary
  too).
* Oracle: `Query` and `Execute` free the statement handle of an execution that
  failed, then throw into a catch block that frees it again
  (src/src/MDB/MDBDriver_Oracle.cpp:184); a result's error handle is not checked
  (210); handles are freed that another object has, or that the same object frees
  again; and no function checks whether Disconnect was called (158, 236, 286, 353, 386,
  and 144 itself). These are the four cases of `UndefinedIsKnown`. A login that
  fails (135) loses all five handles of the connection, and another Connect the
  session handle (`lost`, `Lost`).
* A line of a configuration file that fills the buffer makes `Load` loop for ever, and so
  does any failure of `getline` that is not the end of the file, as for a directory
  (src/src/ConfigReader.cpp:57; `CallsEnd` says so).
* `Remove` of a key whose bucket is empty dereferences NULL
  (src/src/HashTable.tpl:195, `crashed`).
* An Oracle null column shows the value of an earlier row
  (src/src/MDB/MDBResult_Oracle.cpp:127, excepted in `CacheAgrees`).
* A descriptor closed by hand is closed again by the destructor
  (src/src/Net/Socket.cpp:220, `by_hand`).

## 7. What is not modelled

* Formatting, logging, exceptions' texts, calendar and character conversion.
* Bind, Listen, addresses and socket options: single system calls.
* Copies of an `SslClient`: it declares no copy constructor, and the one the compiler
  makes frees `ssl_m` and `ctx_m` twice.
* Oracle: the binding of values, which changes no handle. A result
  whose constructor throws with `columns_m` not set, or freed and still set.
* The MySQL driver: one call of the client library per function. Its destructor
  calls `mysql_server_end` also while other drivers are connected
  (MDBDriver_Mysql.cpp:30); what the library does then is not in this repository.
* HashTable: freeing of nodes, printing. AutoMachine: ids, growth of the word list.
* Mutex, the MDB factory: one call or one parse, without a state of their own. `ftok`
  keys that two paths share. That `MessageQueue::Send` sends the packet's pointer
  and not what it points to: a message is its type.
* SIGPIPE, which a send without MSG_NOSIGNAL may raise in place of its error
  (src/src/Net/TcpClient.cpp:274); SSL_ERROR_ZERO_RETURN of a write; a failing fcntl or
  getsockopt in Connect; values of errno that sem_open does not have in the races
  modelled. Find functions that are called with a state that is not in the table, or
  before Prepare.
* Threads that copy or destroy one `Socket` at a time, without a lock: nothing in
  the headers promises that they may.
* The samples, the build files.

## 8. Plan

1. **Refinement**: Semaphore and MessageQueue, once their copies count, against the
   SharedHandle that Socket implements; ConfigReader over Dictionary with its two
   phases as one operation.
2. **Results**: constructors that throw, composed with the objects of OracleHandles.
