----------------------------- MODULE HTTPServer -----------------------------
(***************************************************************************)
(* The event loop of the C++ server: main.cpp, HTTPServer.cpp, Client.cpp  *)
(* and SendQueueItem.h, over the sockets of module Sockets.                *)
(*                                                                         *)
(* The server is one thread.  A step runs from one system call to the next *)
(* (select, recv, send, accept, close), because that is where the peers'   *)
(* steps can come in between.                                              *)
(***************************************************************************)
EXTENDS Sockets

CONSTANTS
  NoClient,   \* the value of a key that clientMap does not hold
  NoLength    \* a head without a Content-Length line

INVALID_SOCKET == -1

\* Bytes in an item of a peer: two, the shortest for which neither a failed
\* recv (-1) nor the slack of parseBody (+1) passes for a block.
BlockLen == 2

\* requestMethodStr, and what methodStrToInt answers for any other word.
Methods == {"HEAD", "GET", "POST", "PUT", "DELETE", "TRACE", "OPTIONS",
            "CONNECT", "PATCH"}
Invalid == "invalid"

Head1 == [method : Methods \cup {Invalid},
          version : {"HTTP/1.0", "HTTP/1.1"},
          expect : BOOLEAN,                 \* has "Expect: 100-continue"
          length : Int \cup {NoLength},     \* what atoi makes of Content-Length
          blank : BOOLEAN]                  \* has a header with an empty value

Status == {"OK", "BAD_REQUEST", "NOT_IMPLEMENTED"}
SendQueueItem == [status : Status, disconnect : BOOLEAN]
Client == [clientAddr : Conn, sendQueue : Seq(SendQueueItem)]

ASSUME HTTPServerAssumption ==
  /\ Request \subseteq Head1
  /\ NoClient \notin Client
  /\ NoLength \notin Int

VARIABLES
  pc,          \* where the thread is
  canRun,
  readFd,      \* read_fd, the descriptors that select watches
  maxfd,
  clientMap,   \* the Client object of each descriptor
  tempSet,     \* the descriptors that the last select reported
  todo,        \* reported clients that the iterator of process() has yet to reach
  cur,         \* the descriptor of the client in readClient
  pData,       \* what readClient has received for the request it builds
  temp         \* bytes counted by the upload loop of readClient

serverVars == <<pc, canRun, readFd, maxfd, clientMap, tempSet, todo, cur,
                pData, temp>>
vars == <<sockVars, serverVars>>

loopVars == <<canRun, readFd, maxfd, tempSet>>
readVars == <<cur, pData, temp>>

PcValues == {"start", "select", "scan", "dangling", "body", "handle", "stop",
             "stopped", "crashed"}
Dead == pc \in {"stopped", "crashed"}

TypeOK ==
  /\ SocketsTypeOK
  /\ pc \in PcValues
  /\ canRun \in BOOLEAN
  /\ readFd \in SUBSET (Fd \cup {ListenFd})
  /\ maxfd \in {INVALID_SOCKET, ListenFd} \cup Fd
  /\ clientMap \in [Fd -> Client \cup {NoClient}]
  /\ tempSet \in SUBSET (Fd \cup {ListenFd})
  /\ todo \in SUBSET Fd
  /\ cur \in Fd \cup {INVALID_SOCKET}
  /\ pData \in Seq(Item)
  /\ temp \in Int

Clients == {fd \in Fd : clientMap[fd] # NoClient}

Init ==
  /\ SocketsInit
  /\ pc = "start"
  /\ canRun = FALSE
  /\ readFd = {}
  /\ maxfd = INVALID_SOCKET
  /\ clientMap = [fd \in Fd |-> NoClient]
  /\ tempSet = {}
  /\ todo = {}
  /\ cur = INVALID_SOCKET
  /\ pData = <<>>
  /\ temp = 0

----------------------------------------------------------------------------
(* What HTTPRequest::parse makes of the data d, which is never empty, when *)
(* the upload loop has counted n bytes.                                    *)

Parsable(d) == d[1] # Body /\ d[1].method # Invalid

HasLength(d) == Parsable(d) /\ d[1].length # NoLength

\* atoi of the Content-Length line; of "" when there is none.
ContentLength(d) == IF HasLength(d) THEN d[1].length ELSE 0

HasBody(d) == HasLength(d) /\ d[1].method \in {"POST", "PUT"}

\* Bytes behind the head.  A failed recv has taken one off lenRecv, and a
\* connection has at most one.
Following(d, n) == BlockLen * (Len(d) - 1) - (n % BlockLen)

\* parseBody holds the length in an unsigned int: -1 is more than any buffer.
BadRequest(d, n) ==
  \/ ~Parsable(d)
  \/ HasBody(d) /\ (d[1].length < 0 \/ d[1].length > Following(d, n) + 1)

\* parseBody copies all that follows the head into Content-Length bytes.
Overruns(d, n) ==
  HasBody(d) /\ d[1].length >= 0 /\ d[1].length < Following(d, n)

\* addHeader reads past the end of an empty value: an uncaught exception.
Throws(d) == Parsable(d) /\ d[1].blank

\* strstr looks for the line anywhere in the data.
Expects(d) == \E i \in DOMAIN d : d[i] # Body /\ d[i].expect

\* The case for HEAD and GET sends nothing.
Unanswered(d, n) == ~BadRequest(d, n) /\ d[1].method \in {"HEAD", "GET"}

Response(d, n) ==
  IF BadRequest(d, n)
  THEN [status |-> "BAD_REQUEST", disconnect |-> TRUE]
  ELSE [status |-> IF d[1].method \in {"POST", "OPTIONS", "TRACE"}
                   THEN "OK" ELSE "NOT_IMPLEMENTED",
        disconnect |-> d[1].method = "POST" => d[1].version = "HTTP/1.1"]

----------------------------------------------------------------------------
(* Client: nothing is ever taken out of a queue, it ends with its client. *)

NewClient(c) == [clientAddr |-> c, sendQueue |-> <<>>]

AddToSendQueue(queue, item) == Append(queue, item)

----------------------------------------------------------------------------
(* start(), stop() and the loop of process() *)

Start ==
  /\ pc = "start"
  /\ \/ /\ readFd' = {ListenFd}
        /\ maxfd' = ListenFd
        /\ canRun' = TRUE
        /\ pc' = "select"
     \/ /\ pc' = "stop"       \* socket, bind or listen failed
        /\ UNCHANGED <<readFd, maxfd, canRun>>
  /\ UNCHANGED <<sockVars, clientMap, tempSet, todo, readVars>>

\* The first argument of select is maxfd + 1, or with a bug maxfd.
WatchedBelow == {fd \in readFd : fd < maxfd}

Watched == {fd \in readFd : fd <= maxfd}

Ready ==
  {fd \in Watched : IF fd = ListenFd THEN backlog # <<>> ELSE Readable(fdTable[fd])}

Select ==
  /\ pc = "select"
  /\ Ready # {}
  /\ tempSet' = Ready
  /\ todo' = Clients \cap Ready
  /\ pc' = "scan"
  /\ UNCHANGED <<sockVars, canRun, readFd, maxfd, clientMap, readVars>>

SelectTimeout ==
  /\ pc = "select"
  /\ Ready = {}
  /\ UNCHANGED vars

SelectFails ==
  /\ pc = "select"
  /\ pc' = "stop"
  /\ UNCHANGED <<sockVars, loopVars, clientMap, todo, readVars>>

Stop ==
  /\ pc = "stop"
  /\ canRun' = FALSE
  /\ pc' = "stopped"
  /\ UNCHANGED <<sockVars, readFd, maxfd, clientMap, tempSet, todo, readVars>>

----------------------------------------------------------------------------
(* readClient(), disconnectClient() and handleRequest() *)

\* recv with flags 0 takes the data; MSG_PEEK would leave it.
PeekOnly(c) == UNCHANGED sockVars

Receive(c) == TakeAll(c)

\* The upload loop does not count what arrived together with the head d; a
\* count that starts at lenRecv would include the head.
CountedAll(d) == BlockLen * Len(d)

Counted(d) == 0

\* recv() returned data.
ReadClient(fd) ==
  /\ pc = "scan"
  /\ fd \in todo
  /\ HasData(fdTable[fd])
  /\ Receive(fdTable[fd])
  /\ cur' = fd
  /\ pData' = inbox[fdTable[fd]]
  /\ temp' = Counted(pData')
  /\ todo' = todo \ {fd}
  /\ IF Expects(pData')
     THEN \/ ~Throws(pData') /\ pc' = "body"
          \/ (Throws(pData') \/ Overruns(pData', 0)) /\ pc' = "crashed"
     ELSE pc' = "handle"
  /\ UNCHANGED <<loopVars, clientMap>>

\* disconnectClient erases the map entry under the iterator of process(), and
\* the increment then reads the freed node.  The memory may still hold the link
\* to the next client; it may hold a null link, which ends the pass; a link of
\* the allocator, to a node that was freed before; or no address at all.
AfterErase(fd) ==
  \/ todo' = todo \ {fd} /\ pc' = "scan"
  \/ todo' = {} /\ pc' \in {"scan", "dangling", "crashed"}

\* mapErase = FALSE, and the caller that forgets to erase.
NotErased(fd) == clientMap

Erased(fd) == [clientMap EXCEPT ![fd] = NoClient]

\* recv() returned 0 or -1.
Ended(c) == AtEnd(c) \/ HasError(c)

DisconnectClient(fd) ==
  /\ pc = "scan"
  /\ fd \in todo
  /\ Ended(fdTable[fd])
  /\ readFd' = readFd \ {fd}
  /\ CloseFd(fd)
  /\ clientMap' = Erased(fd)
  /\ AfterErase(fd)
  /\ UNCHANGED <<canRun, maxfd, tempSet, readVars>>

\* The iterator is on a freed node.  If its key passes for a reported
\* descriptor, readClient is called with the Client deleted with the node: no
\* descriptor is in the word that the allocator has overwritten, recv fails, and
\* disconnectClient clears no watched bit, erases no entry and deletes again.
ReadDeleted ==
  /\ pc = "dangling"
  /\ pc' \in {"scan", "crashed"}
  /\ UNCHANGED <<sockVars, loopVars, clientMap, todo, readVars>>

\* The loop ends when the count is equal to Content-Length, and only then.
BodyRead(n) ==
  /\ temp' = n
  /\ pc' = IF n = ContentLength(pData) THEN "handle" ELSE "body"

\* One turn of the upload loop of readClient: data, an error (-1) or the end
\* of the connection (0).  It blocks while there is nothing to report.
RecvBody ==
  LET c == fdTable[cur] IN
  /\ pc = "body"
  /\ \/ /\ HasData(c)
        /\ TakeAll(c)
        /\ pData' = pData \o inbox[c]
        /\ BodyRead(temp + BlockLen * Len(inbox[c]))
     \/ /\ HasError(c)
        /\ ReportError(c)
        /\ BodyRead(temp - 1)
        /\ UNCHANGED pData
     \/ /\ AtEnd(c)
        /\ BodyRead(temp)
        /\ UNCHANGED <<sockVars, pData>>
  /\ UNCHANGED <<loopVars, clientMap, todo, cur>>

\* A handler that does not return after a refusal and goes on to a second one.
RefusedTwice ==
  /\ pc' = IF BadRequest(pData, temp) THEN "handle" ELSE "scan"
  /\ UNCHANGED readVars

ReadDone ==
  /\ pc' = "scan"
  /\ cur' = INVALID_SOCKET
  /\ pData' = <<>>
  /\ temp' = 0

\* handleRequest, the handler of the method, sendStatusResponse, sendResponse.
HandleRequest ==
  /\ pc = "handle"
  /\ ~Throws(pData)
  /\ \/ /\ Unanswered(pData, temp)
        /\ UNCHANGED <<sockVars, clientMap>>
     \/ /\ ~Unanswered(pData, temp)
        /\ clientMap' = [clientMap EXCEPT
             ![cur].sendQueue = AddToSendQueue(@, Response(pData, temp))]
        /\ Write(fdTable[cur])
  /\ ReadDone
  /\ UNCHANGED <<loopVars, todo>>

\* The exception of addHeader, a body that overruns its buffer; and with any
\* response the strcpy of an array without a final zero into tbuf, or SIGPIPE.
HandlerDies ==
  /\ pc = "handle"
  /\ \/ Throws(pData)
     \/ Overruns(pData, temp)
     \/ ~Unanswered(pData, temp)
  /\ pc' = "crashed"
  /\ UNCHANGED <<sockVars, loopVars, clientMap, todo, readVars>>

----------------------------------------------------------------------------
(* The end of a pass: acceptConnection() *)

\* Ways of getting maxfd wrong: no comparison, no update, select's + 1.
LastMaxfd(fd) == fd
KeptMaxfd(fd) == maxfd
MaxfdPlusOne(fd) == fd + 1

NewMaxfd(fd) == IF maxfd < fd THEN fd ELSE maxfd

\* unordered_map::insert leaves an entry alone that has the key already.
Inserted(fd, c) ==
  IF fd \in Clients
  THEN clientMap
  ELSE [clientMap EXCEPT ![fd] = NewClient(c)]

AcceptConnection ==
  /\ pc = "scan"
  /\ todo = {}
  /\ ListenFd \in tempSet
  /\ \/ \E fd \in Fd :
          /\ AcceptFd(fd)
          /\ clientMap' = Inserted(fd, Head(backlog))
          /\ readFd' = readFd \cup {fd}
          /\ maxfd' = NewMaxfd(fd)
     \/ /\ FreeFd = {}
        /\ UNCHANGED <<sockVars, clientMap, readFd, maxfd>>
  /\ pc' = "select"
  /\ UNCHANGED <<canRun, tempSet, todo, readVars>>

PassDone ==
  /\ pc = "scan"
  /\ todo = {}
  /\ ListenFd \notin tempSet
  /\ pc' = "select"
  /\ UNCHANGED <<sockVars, loopVars, clientMap, todo, readVars>>

----------------------------------------------------------------------------
ServerStep ==
  \/ Start
  \/ Select
  \/ SelectTimeout
  \/ Stop
  \/ \E fd \in Fd : ReadClient(fd) \/ DisconnectClient(fd)
  \/ ReadDeleted
  \/ RecvBody
  \/ HandleRequest
  \/ HandlerDies
  \/ AcceptConnection
  \/ PassDone

\* Peers reach the server from listen() to the end of the process.
Environment ==
  /\ canRun
  /\ ~Dead
  /\ PeerStep
  /\ UNCHANGED serverVars

Terminated == Dead /\ UNCHANGED vars

Next == ServerStep \/ SelectFails \/ Environment \/ Terminated

Spec == Init /\ [][Next]_vars

\* The thread runs; nothing is assumed of the peers.
FairSpec == Spec /\ WF_vars(ServerStep)

\* Clients without end: once its connection is closed, c is a new one.
Reuse(c) ==
  /\ ~Dead
  /\ peer[c] = "closed"
  /\ peer' = [peer EXCEPT ![c] = "idle"]
  /\ sent' = [sent EXCEPT ![c] = 0]
  /\ replies' = [replies EXCEPT ![c] = 0]
  /\ UNCHANGED <<inbox, backlog, fdTable, serverVars>>

EndlessNext == Next \/ \E c \in Conn : Reuse(c)

EndlessSpec == Init /\ [][EndlessNext]_vars /\ WF_vars(ServerStep)
----------------------------------------------------------------------------
(* Safety *)

\* The three tables that describe a connection agree at every system call:
\* what select watches, what clientMap holds and what the descriptor refers
\* to, also after the kernel has handed out a descriptor again.  Kept by
\* disconnectClient (FD_CLR, close, erase) and acceptConnection (insert, FD_SET).
TableConsistent ==
  \A fd \in Fd :
    /\ fd \in readFd <=> fdTable[fd] # NoConn
    /\ fd \in Clients <=> fdTable[fd] # NoConn
    /\ fd \in Clients => clientMap[fd].clientAddr = fdTable[fd]

\* select(maxfd + 1, ...) looks at every watched descriptor, although maxfd is
\* raised only by acceptConnection and never lowered.
WatchedBelowMaxfd == \A fd \in readFd : fd <= maxfd

\* What readClient holds for the connection and has not answered yet.
Held(c) ==
  IF pc \in {"body", "handle"} /\ fdTable[cur] = c THEN Len(pData) ELSE 0

\* Every response on a connection is paid for by an item of that peer which
\* has left the socket and is not held any more: no response is sent twice,
\* before its request, or to another client (readClient, handleRequest).
NoUnsolicitedReply ==
  \A c \in Conn : replies[c] + Len(inbox[c]) + Held(c) <= sent[c]

\* The queue of a client holds one item for each response its own connection was
\* sent, whose disconnect flags belong to nobody else, although the descriptor it
\* is found by had other clients before (addToSendQueue, ~Client, acceptConnection).
\* Only the response that was lost to a reset is in the queue and was not sent.
QueueIsOwn ==
  \A fd \in Clients :
    LET c == clientMap[fd].clientAddr
        queued == Len(clientMap[fd].sendQueue)
    IN queued = replies[c] \/ (peer[c] = "gone" /\ queued = replies[c] + 1)

\* An upload that has gone through the counting loop of readClient, in any
\* number of recv calls, is never refused by parseBody for want of bytes, also
\* when a failed recv was counted.  A negative Content-Length is what the loop
\* may reach by such a failure, and parseBody refuses it.
UploadNotRefused ==
  pc = "handle" /\ Expects(pData) /\ Parsable(pData) /\ ContentLength(pData) >= 0
    => ~BadRequest(pData, temp)

----------------------------------------------------------------------------
(* Liveness, under FairSpec or EndlessSpec *)

Accepted(c) == \E fd \in Fd : fdTable[fd] = c

\* The upload loop keeps the only thread for ever.
StuckInUpload == [](pc = "body")

\* A disconnect ends the pass, through a null link or a deleted client, before
\* the data that select reported for c is read.
CutOff(c) ==
  /\ \E fd \in todo : fdTable[fd] = c /\ fd \notin todo'
  /\ inbox'[c] # <<>>

\* Data of an accepted connection is read, although clients come and go without
\* end.  The exceptions are the end of the process, an upload loop that never
\* ends, and clients whose disconnects cut off this one again and again: an
\* endless stream of short connections can starve it.
PendingIsRead ==
  \A c \in Conn :
    \/ Accepted(c) /\ HasData(c) ~> ~HasData(c) \/ Dead \/ StuckInUpload
    \/ []<><<CutOff(c)>>_vars

\* A connection that waits is accepted, although clients come and go without
\* end, unless the process ends, an upload loop never ends, or no descriptor
\* becomes free.
BacklogIsAccepted ==
  \A c \in Conn :
    (\E i \in DOMAIN backlog : backlog[i] = c)
      ~> Accepted(c) \/ Dead \/ StuckInUpload \/ [](FreeFd = {})

----------------------------------------------------------------------------
(* What the comments of the code promise *)

\* readClient(): "Also detect any errors in the state of the socket".
ErrorIsDetected ==
  \A c \in Conn :
    pc = "body" /\ c = fdTable[cur] /\ peer[c] = "reset" ~> pc # "body"
=============================================================================
