# MyPowerMirror: specifications, model checking and proofs

The repository holds a small HTTP upload server in two generations: a C
prototype (`src/server.c`, `src/http.c`, `src/util.c`) with the client that
uploads files to it (`src/client.c`), and a C++ server (`src/src/`) built from a
class library for messages, byte buffers, resources and clients.  Both programs are
modelled, and so are the client and every class of the library.

## 1. Inventory

| part | state | operations | talks to |
|---|---|---|---|
| event loop: `HTTPServer.cpp/.h`, `main.cpp` | `read_fd`, `maxfd`, `clientMap`, `canRun`; the locals of `readClient` | `start`, `stop`, `process`, `acceptConnection`, `disconnectClient`, `readClient`, `handleRequest` and the handlers | the kernel's sockets; one `Client` per descriptor; `HTTPRequest`, `HTTPResponse` |
| `Client`, `SendQueueItem` | queue of responses with their disconnect flag | `addToSendQueue`, `clearSendQueue`; `nextInSendQueue` and `dequeueFromSendQueue`, which have no caller | owned by `clientMap` |
| messages: `HTTPMessage`, `HTTPRequest`, `HTTPResponse` | header map, body, parse error, on top of a byte buffer | `parse`, `parseHeaders`, `parseBody`, `getLine`, `create` | the event loop |
| `ByteBuffer` | bytes, read and write position | `put*`, `get*`, `find`, `replace`, `clone`, `resize`, `clear` | base class of the messages |
| `ResourceHost`, `Resource` | base path; content of one file | `getResource`, `readFile`, `readDirectory` | the file system; used only by `handleGet`, which nothing calls |
| C prototype: `server.c`, `http.c`, `util.c` | `client[10]`, `clientCount`, `maxfd`, static buffers | `select` loop, upload loop, parsers | sockets |
| upload client: `client.c` | `send_t` record, curl handle | menu, posting a file with a 5 s timeout | libcurl, the server |
| `MimeTypes.inc` | constant table | lookup of an extension | `ResourceHost` |
| `HTTPServer_bak.cpp`, `HTTPMessage.H` | | not built | |
| `include/curl`, `lib` | | vendored | `client.c` |

What makes the system hard: one thread serves everybody, so anything that
blocks or spins in a handler stops all clients; peers can send, close and reset
between any two system calls; descriptors are reused; a request is whatever one
`recv` returned; lengths come from the peer; errors of system calls are mostly
ignored.

What correctness means, per part:

- event loop: the tables agree, responses go to the connection that asked and no
  more often than it asked, an upload that was counted is not refused, pending data
  is read and waiting connections are accepted in the end;
- messages: what was received and counted is neither refused nor read past its
  end; framing does not depend on how TCP cut the stream;
- byte buffer: relative calls are a queue, a write changes its own bytes and no
  others, positions stay inside for a caller that keeps to the bounds;
- resources: with the file system at rest the answer is what the comments promise;
  with it changing, a body is still of one file, and every request is answered;
- C prototype: the slots of `client[]` and the descriptors agree;
- upload client and server together: an answered upload is saved whole, every post
  ends, and a client that gives up frees the server.

## 2. Modules

| module | models | builds on |
|---|---|---|
| `Sockets` | the operating system and the peers (external): connections, receive queues, descriptors, backlog | |
| `HTTPServer` | event loop, clients and their send queues, what a handler makes of a request | `Sockets` |
| `ConnectionService` | abstract: what the event loop promises to connections | |
| `HTTPServerRefinement` | the mapping under which `HTTPServer` implements `ConnectionService` | both |
| `UploadServer` | the C prototype `server.c` with `http.c` | `Sockets` |
| `UploadClient` | `client.c` and libcurl's part, composed with the C prototype | `UploadServer` |
| `ByteBuffer` | every operation of a buffer, as operators | |
| `BufferUse` | a buffer and a caller that makes any call in any order | `ByteBuffer` |
| `HTTPMessage` | `create()` and `parse()` of requests and responses, status and reason | `ByteBuffer` |
| `ResourceHost` | `handleGet` with `ResourceHost`, `Resource`, and the file system under them | |
| `SendInfo` | the words of a line of `source.txt`, the header lines made of them, `getFileType`, and the type in the answer | |
| `SendQueue` | the send queue of one `Client`, with a caller that uses every method | |
| `SocketsProofs` | lemmas: what a system call or a peer's step leaves of the types and of the place of a connection, for both servers | `Sockets` |
| `HTTPServerProofs` | theorems: the event loop, and that it implements the service | `HTTPServerRefinement`, `SocketsProofs` |
| `ServiceProofs` | theorems: the abstract service, and the send queue | `ConnectionService`, `SendQueue` |
| `UploadProofs` | theorems: the prototype, its client, and the words of a post | `UploadClient`, `SendInfo`, `SocketsProofs` |
| `ByteBufferProofs` | lemmas: what each operation of a buffer leaves of its bytes and positions | `ByteBuffer` |
| `BufferUseProofs`, `HTTPMessageProofs` | theorems | the modules they are named after, `ByteBufferProofs` |
| `ResourceHostProofs` | theorems | `ResourceHost` |
| `MCHTTPServer`, `MCUploadServer`, `MCUploadClient`, `MCHTTPMessage`, `MCParts`, `MCResourceHost` | values for the constants of the runs; `MCParts` is the sum of `BufferUse`, `SendQueue` and `SendInfo` | |

### Sockets

Every system call of the servers is an operator that a server's action calls
(`TakeAll`, `ReportError`, `Write`, `CloseFd`, `AcceptFd`), every step of a peer
an action (`Connect`, `PeerSend`, `PeerClose`, `PeerReset`).  Descriptors are
handed out lowest first and again after `close`, a reset is reported once, a
write to a connection that has been reset raises SIGPIPE.

### HTTPServer

The program is one thread.  `pc` says at which system call it is; one action is
the code from one call to the next, because that is where the peers can act.

| action | code |
|---|---|
| `Start` | `start()`, with a failing call or without |
| `Select`, `SelectTimeout`, `SelectFails` | the head of `process()`; the time limit has passed or the call has failed |
| `ReadClient(fd)` | the iterator reaches a client that select reported and `recv` returns data; the test for `Expect` follows at once |
| `DisconnectClient(fd)` | the same, but `recv` returns 0 or -1: `FD_CLR`, `close`, `erase`, and the increment of the erased iterator |
| `ReadDeleted` | that increment has led to a freed node, and `readClient` is called with its deleted `Client` |
| `RecvBody` | one turn of the upload loop, with data, an error or the end |
| `HandleRequest`, `HandlerDies` | `handleRequest`, the handler, `sendResponse`; or an exception, an overrun or SIGPIPE in it |
| `AcceptConnection`, `PassDone` | the end of a pass |
| `Stop` | `stop()` and the end of `main` |

Undefined behaviour is a choice: after `erase` under the iterator, the pass goes
on, ends early, goes on with a node that was freed before, or the process dies;
after a buffer has been written past its end, the process goes on or dies.  What
`parse()` makes of a request is written as operators on the items received and the
bytes counted (`BadRequest`, `Overruns`, `Throws`, `Expects`); module `HTTPMessage`
goes into how it gets there.  A Content-Length is any integer, as `atoi` returns it:
the counting loop compares it with its sign, `parseBody` without.

`Reuse` makes of a closed connection a new client, so that in `EndlessSpec` clients
come and go without end; it takes part in nothing else.

Abstractions, all of them in the data:

- a request head arrives whole and is a record of what the loop looks at; body
  bytes come in blocks of `BlockLen` = 2 bytes, the shortest for which neither
  the -1 of a failed `recv` nor the + 1 of `parseBody` makes up for a block, so
  counts are in bytes and off-by-one errors keep their size;
- bodies hold no 0 byte (`strcat` would cut them) and uploads fit `DATA_LEN`;
- whether a response fits `tbuf` is a choice: `strcpy` takes it from an array
  without a final zero, so any response may overrun it;
- a deleted `Client` holds no descriptor, because the allocator has overwritten its
  first word: the `recv` on it fails;
- `send` takes everything and does not block; descriptors are below
  `FD_SETSIZE`; memory that is leaked is not modelled.

### UploadServer

The same style for the prototype: `client[]` with its holes, `clientCount`, and
`clientFd`, the descriptor that `accept` returned last and that the loop reads
from.  The memory after `client[]` is usable or a crash.  `alone` is a history
variable: no two connections have been alive at once.

### UploadClient

The client and the prototype run over the same `Sockets`; the peers of this
module are the client's own connections.  An action is the code of `main` or
`postUrl` up to the next system call (`Choose`, `StatFile`, `OpenFile`,
`Cleanup`), or, inside `curl_easy_perform`, one thing that libcurl does because
an option asks for it: `ConnectServer`, `SendHead`, `SendBody` (a call of
`read_callback`), `Answered`, `Timeout` (`CURLOPT_TIMEOUT_MS`, at any point of
the transfer), `Lost`.  `Shrink` is another program that cuts or removes the
file at any time.  Undefined behaviour is a choice here too: a NULL file that is
read or closed ends the client, and a type line that overflows `type[20]` may.
The server's interim answer and its response are the first and second reply on
the connection.

### SendInfo

What `main` does with the chosen line before it posts: `ChooseLine` (`malloc`, which
may give back what the last `free` returned, with or without its content),
`GetSendInfo` (one `strtok` and the two comparisons), `PostUrl` (the type and the
header lines).  `Reply` is the line that `response` of the prototype writes from the
type it was sent.  A name is the sequence of its parts between the dots, and
`GetFileType` compares the first three characters of the second part with the rows
of its table, in their order.  Path, author and age lie side by side in 32 bytes
each: a value that is too long (`Long`) goes on in the field beside it, which then
holds bytes nobody meant for it (`Garbage`), and a path that is too long is another
name once a word has been written over its end (`PathCut`).

### SendQueue

Items are pointers that the queue owns.  Every public method that changes the queue
is an action, the destructor too; `NextInSendQueue` is the query.  What a caller does
with a pointer it keeps is not modelled: nothing calls the method.  `deletions` counts what `delete` did to each item;
`added` and `dequeued` are histories.  An item is added once: a caller that adds one
twice is outside of what the class can know.

### ByteBuffer and BufferUse

`ByteBuffer` has an operator for each operation; `BufferUse` has an action for
each call a user of the class can make: relative and absolute, typed (`Width` is
the set of sizes) and by array, positions, `replace`, `resize`, `clear`, and
`put` of another buffer or of itself.  Differences of unsigned integers are
taken modulo `UintMod`.  `PutItself` says in one expression what the loop of
`put(src)` does to a buffer that it grows while it reads; `Appended` is that loop,
byte by byte, and `PutSelfDoubles` says that they agree.  The histories `stream`,
`written`, `taken` and `careful` say what the caller has kept to since the last
`clear`.

### HTTPMessage

A message is made from an object by `Create`, or arrives from elsewhere by
`Receive`; then one action is one helper of `parse()`: `ParseFirst` and
`ParseSecond` (`getStrElement`), `ParseThird` (`getLine` and the test of the
method), `ParseHeader` and `ContinueHeader` (the two loops of `parseHeaders`),
`ParseBody`.  A word (a method, a name, a number) counts as one byte, so what
matters - ends of line, spaces, colons, commas, zeros, lengths, positions - is
there byte by byte.  `DetermineReasonStr` and `DetermineStatusCode` are the two
tables of `HTTPResponse`; `parse()` calls the second before it has a reason, as
the code does, and the status stays `NoStatus`.  `Transportable` says what a sender
has to respect, and that a body is smaller than an `unsigned int` can count; that a
response with a status has its reason (`SetStatusAssumption`) is what `setStatus`
does.

### ResourceHost

One request in hand and one step per system call: `StatPath`, `ProbeFirst` and
`ProbeSecond` for the indexes of a directory, `OpenFile`, `ReadBlock`,
`FinishRead`, `GenerateDirList`.  A path is resolved anew by every call, a file
that is open stays the same node; between any two calls `Others` may place,
remove or rewrite files.  A block of a body is the node it came from and that
node's version, so a body that mixes two files can be told, and `Unset` is memory
that nothing was read into.  What `open` and `read` do depends on what a node
is: a directory can be opened and not read, a device gives nothing, and opening a
pipe that nobody writes to never returns (`pc = "blocked"`).  The MIME table is reduced to one entry of each kind:
an extension that is there once, twice with different types, or not at all.

### ConnectionService

A queue, a set of at most `Limit` connections that are served, a single worker,
a count of answers.  Connections are admitted in order, only the connection the
worker has taken is answered, at most once each time, and none is dropped under
the worker.  Descriptors, `select`, `maxfd`, the map and its iterator are gone:
that the code's tables amount to this is what the refinement says.

## 3. Runs

| run | question | bounds |
|---|---|---|
| `traffic` | the tables and queues agree when descriptors are reused, replies are paid for, the loop implements `ConnectionService` | 3 connections, 2 descriptors, 2 items each: an upload of one block, complete, cut, or with the block first |
| `pending` | data is read in the end, with clients without end | 3 connections, each used again and again, 2 descriptors, 1 item on each |
| `backlog` | waiting connections are accepted, data is read, what was counted is not refused, with clients without end | 2 connections, used again and again, 1 descriptor, 2 items: uploads of the right, a short and a negative Content-Length |
| `prototype` | slots, count and descriptors agree; one client at a time is served right | 3 connections, 2 descriptors, 1 slot in `client[]` |
| `client` | an answered post is saved, every post ends, the server gets out of its loop | 2 posts one after the other, files of 0 to 2 blocks, cut or removed at any time |
| `messages` | create and parse are inverse, parsing stays in the buffer, keeps the blank line and ends | 800 objects, the 12 status responses, and every head of up to two headers with three bodies, both ends of line, cut at every place |
| `parts`, with a buffer | relative calls are a queue, writes are local, positions stay inside | 3 bytes of 3 values, positions to 4, types of 1 and 2 bytes |
| `resources` | the answer is what the comments promise at rest, of one file always, and always there unless what is opened is a pipe | 6 paths, 9 nodes of every kind, 3 changes, files of up to 2 blocks |
| `parts`, with a send queue | an item is deleted once, the oldest goes first | 4 items, any order of calls |
| `parts`, with the words of a post | a post has the headers of its line; what the line does not name is left over | 9 lines with words in both orders, doubled, unknown, missing or too long, a path that is too long, names without a dot, with one and with two |
| `wrongfd`, `sockerror`, `headers`, `bodylength` | see section 6 | the smallest instance that shows it |

A buffer, a send queue and the words of a post have nothing in common but that no
other thread, process or peer acts on them; run `parts` looks at one of them at a
time, from its first state on, because a state of two of them shows no more than
the two states.

Why the bounds are enough to be of interest: the hazards of the tables need a
descriptor that is closed and handed out again while another one is open, which
takes three connections and two descriptors; a limit that is reached needs more
connections than descriptors; a count that goes wrong needs a head and a block, that
arrive together or one after the other, which is two items, and a failed `recv`; a
client that is starved needs two others whose disconnects cut the passes off in turn;
the errors of the prototype need two clients, and a slot past `client[]`; a post that is given
up and the next one that overtakes it need two connections.  A doubled word with
another between them is three words; an item behind and one before the front, with
one gone and one to come, are four.  For messages two
headers are what the first-wins rule, a continued header and a length need
together.  `UintMod` = 64 is larger than any buffer of the run, so that a
position past the end would show as a wrapped difference, as with 2^32.
For the buffer, one position past the end
and a value of two bytes are what tells the end from beyond it.  For resources, two
changes can replace what was checked and a third can put it back, and two blocks
are what a body can mix.  The bounds are `MaxSend` (what a peer sends on one
connection), `MaxBlocks`, `MaxSize`, `MaxPos` and `MaxChanges`, and the number of
posts is the number of connections; nothing else is bounded.
Symmetry over connections is used only in runs without liveness properties.

Fairness: `FairSpec` of `HTTPServer` is weak fairness of `ServerStep`, the
single thread, which runs whenever it is not blocked in a system call.  Nothing
is assumed of the peers, and `select` and the process may fail.  The liveness
properties name what excuses the server: the end of the process, an upload loop
that never ends, no free descriptor.  `EndlessSpec` is the same with clients without
end, and there `PendingIsRead` needs one excuse more: a client is starved when in every
pass the disconnect of another one, reached before it, ends the pass through the
erased iterator (`CutOff`).  Without that excuse TLC finds such a behaviour with three
connections and two descriptors; it is the code's, and section 6 lists it.
`FairClientSpec` is weak fairness of the two
processes, each of which runs when it is not blocked; the time limit is part of the
client, because libcurl checks it on the thread that waits.  That the user chooses
again is not assumed.  `FairSpec` of `HTTPMessage` and of `ResourceHost` say that a
call of `parse()` or `handleGet` runs; other programs need not.

## 4. Theorems

For every set of connections and requests, every number of descriptors and any
number of items sent (`SocketsAssumption`, `HTTPServerAssumption`: the constants
are of their type, and the placeholders are not values):

- `TypeCorrect`, `TablesAgree`, `AllWatched`: the invariants `TypeOK`,
  `TableConsistent`, `WatchedBelowMaxfd`.  They follow from one inductive invariant, `TablesInv`.  The tables cannot be
  treated one at a time: `acceptConnection` keeps `TableConsistent` only because
  a descriptor the kernel hands out is in neither table, the iterator stays on
  clients (`ReachesClients`) only because `todo` is cut together with the map, and
  `accept` finds a connection because nobody takes one from the backlog between
  `select` and the end of the pass (`ListenerPending`); `HoldsData` makes the first
  item of a request exist, and `EmptyAtStart` starts `WatchedBelowMaxfd`.
- `RepliesPaidFor`: `NoUnsolicitedReply`.
- `UploadsNotRefused`: `UploadNotRefused`, for `Spec` and for `EndlessSpec`, and every
  Content-Length that is not negative.  The strengthening relates the count
  of the upload loop to what it has received: the count is never more than the
  bytes that follow the head, whatever errors were added to it.
- `QueuesAreOwn`: `QueueIsOwn`.  It needs what the
  sockets keep: a connection is in the backlog once or has one descriptor
  (`OnePlace`), and was sent nothing until it was accepted, so a new `Client` and its
  connection both begin with nothing.
- `BufferTypeCorrect`, `PositionsInside`, `StreamIsQueue` (module
  `BufferUseProofs`): `TypeOK`, `CarefulInside` and `StreamInOrder`, for all bytes,
  widths and bounds below the range of `unsigned int` (`BufferUseAssumption`; a
  larger buffer would make `size()-rpos` wrap).  The invariant `Inside` is the types
  with the positions of a careful caller; without the types of the buffer the
  difference has no value.  `StreamInOrder` is not inductive alone: a read that
  the caller paid for is inside only because a stream is careful (`Queue`).  One
  lemma for each operation says what it leaves of the size and the positions.
- `ServiceIsSafe` (module `ServiceProofs`): the abstract service keeps
  to its limit and serves no connection it has dropped.  The strengthening is
  that a connection is in one place only.
- `ServerImplementsService`: `ImplementsService`.  One lemma for each kind of step says which step of the
  service it is: `accept` is `Admit`, `recv` with data is `Take`, an answer or the
  end of a request is `Finish`, a disconnect is `Drop`, the end of the process is
  `GoDown`, the rest is none.  It rests on `TablesInv` and `OnePlace`; that fewer
  than `MaxFd` connections are served while a descriptor is free (`RoomLeft`) is
  because the descriptors in use map onto the connections served.
- `QueueTypeCorrect`, `ItemsDeletedOnce`, `ItemsInOrder` (module `ServiceProofs`):
  `QueueTypeOK`, `DeletedOnce` and `OldestFirst` of `SendQueue`, for any items.  The
  invariant `QueueInv` says that the queue is the end of what was added and that
  exactly what is before it has been deleted; without that, what `ClearSendQueue`
  counts and what `DequeueFromSendQueue` takes cannot be related to the histories.
- `UploadTypeCorrect`, `SlotsAgree` (module `UploadProofs`): `UploadTypeOK` and
  `SlotsConsistent` of the prototype.  The invariant `UploadInv` adds that the slot
  whose client is served is used and below the count (`SlotServed`), and
  `ListenerPending` as above.  That `clientCount` stays a slot number is no
  matter of its type: it is the number of open descriptors, of which there are
  `MaxFd`.
- `ResourceTypeCorrect`, `BodyOfOneFile` (module `ResourceHostProofs`): `TypeOK` and
  `OneFile` of `ResourceHost`, for every file system and whatever is done to it
  (`ResourceHostAssumption`: the placeholders are not values and a file may have a
  byte).  `OneFile` is about a body that is complete; the strengthening `Reading`
  says where it comes from: every block read is of the file that is open, and of
  its present version unless a program writes in place.
- `ExactAtRest`: `QuietExact`, for what the comments of `getResource` speak of
  (`Described`): a regular file, a directory whose index, if it has one, is a regular
  file, and what is neither.  `RestInv` says what the lookup has found out at each
  step as long as no other program has changed anything (`AtRest`): which path it is
  at, that what `stat` said is still so, that the indexes before this one are not
  there, and that the blocks read so far are the first of the file.
- `AloneReached`, `AloneIsServed` (module `UploadProofs`): `AloneScanned` and
  `AloneServed`.  With one connection at a time at most one descriptor is open
  (`OneAlive`), it is in slot 0 and is the one that `recv` reads (`FirstSlot`), and
  what has been saved so far is its own (`OwnBlocks`).  `OnePlace` is needed again:
  the connection that `accept` returns was not in a slot before.
- `ClientTypeCorrect`, `AnsweredSaved` (module `UploadProofs`): `ClientTypeOK` and
  `AnsweredIsSaved`, for any number of posts, descriptors, slots and blocks.  The
  server may still be busy with a post that was given up while the next one is being
  sent.  `ClientInv` says why that does no harm: the connection in hand was made last
  (`Latest`), so it is either waiting, with everything it sent unread (`Unread`), or
  it is the one that `recv` reads, with its head read and only its blocks left
  (`HeadRead`); and a second reply on it means that the file holds the whole post.
  The invariant was checked with three posts before it was proved.
- `WritesStayInPlace`, `ReplaceAndFindAgree`, `PutSelfIsLoop`: `WritesInPlace`,
  `ReplaceMeetsFind` and `PutSelfDoubles` of `BufferUse`.  The first and the second
  follow from what the operations leave of each byte; the third relates one
  expression to a loop and uses that a set of numbers that is not empty has a least
  one (`InductionOverSet`).
- `MessageTypeCorrect`, `PositionStaysInBuffer`: `TypeOK` and `PositionInBuffer` of
  `HTTPMessage`, which need each other (`Parsing`): a body has a length that fits only
  because the position is inside.
- `BlankLineIsKept`: `BlankLineKept`.  While headers are read the position is at the
  beginning of a line (`AtLine`) that is not behind the first blank one
  (`FirstBlank`, `HeadRead`); the limit of two end-of-line bytes is what keeps it so.
- `ParseUndoesCreate`: `RoundTrip`.  `ReadUpTo` says at each helper which parts of the
  object have been read back and where in the bytes the position is; the lemmas on
  `Holds` find the parts in the bytes that `create()` put together.
- `InfoTypeCorrect`, `LineNamesHeaders`, `HeadersLeftOver`, `AnsweredAsHtml` (module
  `UploadProofs`): `InfoTypeOK`, `HeadersOfLine`, `HeadersLeft` and `AnswerIsHtml` of
  `SendInfo`, for any names, lines and values, those that run over their field among
  them (`SendInfoAssumption`); `HeadersOfLine` excepts a line with an author that is
  too long for its own field.  `InfoInv` is the invariant of the loop over the
  words: of those read so far the last one with a key is in the memory, and without
  one what was there before the loop (`LastWord`, `LeftOver`).

Only model-checked: liveness (`PendingIsRead`, `BacklogIsAccepted`, `ParseEnds`,
`PostEnds`, `UploadLoopLeft`, `EveryCallAnswered`), which is out of the prover's
reach.  Every invariant and every action property of a passing run is a theorem;
`QueueTypeOK`, `InfoTypeOK` and `AnswerIsHtml` are theorems only.
Induction over data is out of reach as well; where a proof would use it (`PutSelfIsLoop`,
`ParseUndoesCreate`) the least number of a set takes its place.  No module that a
theorem is about declares a recursive operator.

## 5. Not modelled

- `sendQueueSize` and `clearHeaders`, which nothing calls, and `getHeaderStr` and
  `getNumHeaders`, which only print.
- `putResource`, which is declared and defined nowhere, and the host tables of
  `HTTPServer.h`, which nothing uses.
- the printing helpers of `ByteBuffer` (`setName` to `printPosition`), which leave the
  bytes and the positions alone.
- how `client.c` reads `source.txt` into `strLine`; which line is chosen is a choice
  of the model.
- `util.c`: `countChar` and `getFileSize` have no caller, `indexOfStrFirst` only tests
  a line for its CR.
- sizes in memory (`tbuf`, `strLine`, `lineHead`) beyond the question whether they
  are passed; the 458 entries of `MimeTypes.inc` one by one.
- `HTTPServer_bak.cpp` and `HTTPMessage.H`, which are not built, and the vendored
  curl beyond what its options make a transfer do.

## 6. Where code and comments part

| run | what it shows |
|---|---|
| `wrongfd` | with two clients the prototype reads from the one accepted last, not from the one select reported |
| `sockerror` | a reset during an upload keeps the only thread in the upload loop for ever |
| `headers` | a comma at the end of the last header takes parsing of headers over the blank line |
| `bodylength` | a Content-Length of one more than what arrived is accepted |

Also seen while modelling, without a run:

- the disconnect flag of a queued response is documented and never looked at,
  because nothing takes an item out of the queue; `handlePOST` sets it for HTTP/1.1
  under a comment about HTTP/1.0;
- GET and HEAD fall through the switch of `handleRequest`; `stop()` disconnects
  nobody;
- `clone()` passes its arguments to `put` in the wrong order and returns an empty
  buffer; `replace()` stops at a 0 although its comment says all occurrences;
- `HTTPResponse::parse` is commented as populating the variables and asks for the
  status before it has read the reason: the status of a parsed response stays 0;
- `disconnectClient` has a flag, commented as needed while the map is being walked, and
  its only call in `process` says the opposite: the entry is erased under the iterator,
  which may then be at a deleted `Client`, and a client can be starved by a stream of
  short connections;
- a Content-Length of -1 leaves the upload loop when one `recv` has failed, and
  `parseBody` then refuses it as more than 4 billion;
- `getResource` takes a socket or a block device for a directory, because the file
  types are tested with `&`, where its comments (`src/src/ResourceHost.cpp:192-200`)
  want a directory, and nothing for a device or a socket; an index that is a directory
  is answered with bytes nobody has written, one that is a block device with none; a
  symbolic link is followed, which the same comment excludes; the links of a listing
  lack their directory;
- `getFileType` is commented as going by the extension and takes what follows the
  first dot of the name, so `a.txt.jpg` is no picture and `./a.jpg` is HTML;
- an index file that is a pipe nobody writes to would block the server for ever;
- the prototype answers `text/html` to every post (`AnsweredAsHtml`), because it asks
  `getFileType` for the type of a type; of two rows for `ppt` the second is never
  reached;
- a line without an author or an age posts the one of the post before, or garbage
  (`HeadersLeftOver`), because the memory is not cleared; a path or an author of more
  than its 32 bytes runs over into the next field, in this post or in a later one;
- a post of an empty file is only ended by the client's time limit, because the
  prototype waits for a first block; the type line never fits `type[20]`.

## 7. Plan

1. Heads that arrive in pieces in `HTTPServer`, on top of `HTTPMessage`.
2. The steps behind the liveness properties as theorems: what a pass of the loop
   does to the client that is next, for any number of clients.
3. Conditions on a caller of `SendQueue` under which the event loop could send from
   it, when something takes items out.
