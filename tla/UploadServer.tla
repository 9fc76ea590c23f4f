---------------------------- MODULE UploadServer ----------------------------
(***************************************************************************)
(* The C prototype of the upload server: server.c with the request parser  *)
(* of http.c, over the sockets of module Sockets.                          *)
(*                                                                         *)
(* The loop waits for the descriptors of client[], but reads from clientFd,*)
(* the descriptor that accept returned last.  Request heads arrive whole,  *)
(* bodies contain no line end and fit into the static buffers.             *)
(***************************************************************************)
EXTENDS Sockets

CONSTANT Slots    \* LISTEN_COUNT, the length of client[]

Hole == -1        \* the 0 of an unused slot: standard input, never watched
NoLength == -1    \* content_Length is NULL

\* What parseRequest makes of a head; the method is looked at but not used.
UploadHead == [expect : BOOLEAN,                  \* has an Expect line
               length : Nat \cup {NoLength},      \* Content-Length, in blocks
               typed : BOOLEAN,                   \* has a Content-type line
               long : BOOLEAN]                    \* has more than LINE lines

NoRequest == [expect |-> FALSE, length |-> NoLength, typed |-> FALSE, long |-> FALSE]

ASSUME UploadServerAssumption ==
  /\ Request \subseteq UploadHead
  /\ Slots \in Nat \ {0}

VARIABLES
  pc,
  readFd,       \* readfd
  maxfd,
  client,       \* client[], and the memory after it as far as it can be used
  clientCount,
  clientFd,
  tempSet,      \* tempfd
  i,            \* the slot that the loop has reached
  res,          \* the parsed request
  totalLen,     \* blocks of the upload that were counted
  file,         \* file.txt: the connection each of its blocks came from
  alone         \* history: never two connections were alive at a time

loopVars == <<readFd, maxfd, client, clientCount, clientFd, tempSet>>
requestVars == <<res, totalLen, file>>
serverVars == <<pc, loopVars, i, requestVars>>
vars == <<sockVars, serverVars, alone>>

PcValues == {"select", "scan", "continue", "upload", "respond", "exited", "crashed"}
Dead == pc \in {"exited", "crashed"}

\* A client has a descriptor, so no more than MaxFd slots are ever used.
SlotNo == 0..MaxFd

UploadTypeOK ==
  /\ SocketsTypeOK
  /\ pc \in PcValues
  /\ readFd \in SUBSET (Fd \cup {ListenFd})
  /\ maxfd \in Fd \cup {ListenFd}
  /\ client \in [SlotNo -> Fd \cup {Hole}]
  /\ clientCount \in SlotNo
  /\ clientFd \in Fd \cup {Hole}
  /\ tempSet \in SUBSET (Fd \cup {ListenFd})
  /\ i \in SlotNo
  /\ res \in Request \cup {NoRequest}
  /\ totalLen \in Nat
  /\ file \in Seq(Conn)
  /\ alone \in BOOLEAN

Init ==
  /\ SocketsInit
  /\ pc = "select"
  /\ readFd = {ListenFd}
  /\ maxfd = ListenFd
  /\ client = [j \in SlotNo |-> Hole]
  /\ clientCount = 0
  /\ clientFd = Hole
  /\ tempSet = {}
  /\ i = 0
  /\ res = NoRequest
  /\ totalLen = 0
  /\ file = <<>>
  /\ alone = TRUE

----------------------------------------------------------------------------
(* The pass over client[] *)

Ready ==
  {fd \in readFd : fd <= maxfd /\ IF fd = ListenFd THEN backlog # <<>>
                                  ELSE Readable(fdTable[fd])}

Select ==
  /\ pc = "select"
  /\ Ready # {}
  /\ tempSet' = Ready
  /\ i' = 0
  /\ pc' = "scan"
  /\ UNCHANGED <<sockVars, readFd, maxfd, client, clientCount, clientFd, requestVars>>

SelectTimeout ==
  /\ pc = "select"
  /\ Ready = {}
  /\ UNCHANGED <<sockVars, serverVars>>

SelectFails ==
  /\ pc = "select"
  /\ pc' = "exited"
  /\ UNCHANGED <<sockVars, loopVars, i, requestVars>>

\* clientCount is read again in every turn of the loop.
ReadySlots == {j \in i..(clientCount - 1) : client[j] \in tempSet}

NextSlot(j) == j \in ReadySlots /\ \A k \in ReadySlots : j <= k

IsOpen(fd) == fd \in Fd /\ fdTable[fd] # NoConn

\* The first recv of the loop and every later one use this descriptor.
Source == clientFd

RecvData == IsOpen(Source) /\ HasData(fdTable[Source])

\* 0, -1 for a reset, or -1 because the descriptor has been closed.
RecvNothing ==
  IsOpen(Source) => AtEnd(fdTable[Source]) \/ HasError(fdTable[Source])

\* The state of the connections after a recv that returned no data.
Reported ==
  IF IsOpen(Source) /\ HasError(fdTable[Source])
  THEN [peer EXCEPT ![fdTable[Source]] = "gone"]
  ELSE peer

Heads(d) == {n \in DOMAIN d : d[n] # Body}

FirstHead(d) == d[CHOOSE n \in Heads(d) : \A m \in Heads(d) : n <= m]

\* recv() > 0, and parseRequest.  Without a blank line strtok returns NULL to
\* strlen; more than LINE lines are stored past the end of lineHead.
RecvHead ==
  /\ pc = "scan"
  /\ RecvData
  /\ \E j \in ReadySlots : NextSlot(j) /\ i' = j
  /\ TakeAll(fdTable[Source])
  /\ LET d == inbox[fdTable[Source]] IN
       \/ /\ Heads(d) # {}
          /\ res' = FirstHead(d)
          /\ pc' = IF res'.expect THEN "continue" ELSE "respond"
       \/ /\ Heads(d) # {} => FirstHead(d).long
          /\ pc' = "crashed"
          /\ UNCHANGED res
  /\ UNCHANGED <<loopVars, totalLen, file>>

\* A client that leaves does not lower the count.
Uncounted(n) == n

Discounted(n) == n - 1

\* recv() <= 0: the client of the slot is closed.
CloseSlot ==
  /\ pc = "scan"
  /\ RecvNothing
  /\ \E j \in ReadySlots :
       /\ NextSlot(j)
       /\ peer' = [Reported EXCEPT ![fdTable[client[j]]] = "closed"]
       /\ fdTable' = [fdTable EXCEPT ![client[j]] = NoConn]
       /\ readFd' = readFd \ {client[j]}
       /\ client' = [client EXCEPT ![j] = Hole]
       /\ clientCount' = Discounted(clientCount)
       /\ i' = j + 1
  /\ UNCHANGED <<pc, inbox, sent, backlog, replies, maxfd, clientFd, tempSet, requestVars>>

----------------------------------------------------------------------------
(* The upload and the response *)

Slot == fdTable[client[i]]

\* The interim response, and fopen; writing to or closing a NULL file crashes.
SendContinue ==
  /\ pc = "continue"
  /\ Write(Slot)
  /\ totalLen' = 0
  /\ file' = <<>>
  /\ pc' \in {"upload", "crashed"}
  /\ UNCHANGED <<loopVars, i, res>>

\* atoi of a Content-Length that is not there crashes.
RecvUpload ==
  /\ pc = "upload"
  /\ \/ /\ RecvData
        /\ LET c == fdTable[Source] IN
             /\ TakeAll(c)
             /\ file' = file \o [n \in DOMAIN inbox[c] |-> c]
             /\ totalLen' = totalLen + Len(inbox[c])
        /\ pc' = IF res.length = NoLength THEN "crashed"
                 ELSE IF totalLen' = res.length THEN "respond" ELSE "upload"
     \/ /\ RecvNothing
        /\ peer' = Reported
        /\ pc' = "respond"
        /\ UNCHANGED <<inbox, sent, backlog, fdTable, replies, totalLen, file>>
  /\ UNCHANGED <<loopVars, i, res>>

\* response(): content_Type is not initialised when no line sets it.
Respond ==
  /\ pc = "respond"
  /\ Write(Slot)
  /\ i' = i + 1
  /\ pc' = "scan"
  /\ UNCHANGED <<loopVars, requestVars>>

SendDies ==
  /\ pc \in {"continue", "respond"}
  /\ \/ SigPipe(Slot)
     \/ pc = "respond" /\ ~res.typed
  /\ pc' = "crashed"
  /\ UNCHANGED <<sockVars, loopVars, i, requestVars>>

----------------------------------------------------------------------------
(* The end of a pass *)

\* client[++clientCount] instead of client[clientCount++].
SlotAfter(n) == n + 1

SlotFor(n) == n

\* A second declaration of clientFd in the block of accept.
Shadowed(fd) == clientFd

Remembered(fd) == fd

AcceptConnection ==
  /\ pc = "scan"
  /\ ReadySlots = {}
  /\ ListenFd \in tempSet
  /\ \/ \E fd \in Fd :
          /\ AcceptFd(fd)
          /\ clientFd' = Remembered(fd)
          /\ client' = [client EXCEPT ![SlotFor(clientCount)] = fd]
          /\ clientCount' = clientCount + 1
          /\ readFd' = readFd \cup {fd}
          /\ maxfd' = IF fd > maxfd THEN fd ELSE maxfd
          /\ \/ pc' = "select"
             \/ clientCount >= Slots /\ pc' = "crashed"   \* written past client[]
     \/ /\ FreeFd = {}
        /\ pc' = "exited"
        /\ UNCHANGED <<sockVars, readFd, maxfd, client, clientCount, clientFd>>
  /\ UNCHANGED <<tempSet, i, requestVars>>

PassDone ==
  /\ pc = "scan"
  /\ ReadySlots = {}
  /\ ListenFd \notin tempSet
  /\ pc' = "select"
  /\ UNCHANGED <<sockVars, loopVars, i, requestVars>>

----------------------------------------------------------------------------
ServerStep ==
  \/ Select
  \/ SelectTimeout
  \/ SelectFails
  \/ RecvHead
  \/ CloseSlot
  \/ SendContinue
  \/ RecvUpload
  \/ Respond
  \/ SendDies
  \/ AcceptConnection
  \/ PassDone

Alive == {c \in Conn : peer[c] \notin {"idle", "closed"}}

Next ==
  \/ ServerStep /\ UNCHANGED alone
  \/ /\ ~Dead
     /\ PeerStep
     /\ alone' = (alone /\ Cardinality(Alive') <= 1)
     /\ UNCHANGED serverVars
  \/ Dead /\ UNCHANGED vars

Spec == Init /\ [][Next]_vars
----------------------------------------------------------------------------
(* Properties *)

\* The count, the slots, the watched set and the descriptor table agree in
\* every interleaving: a slot never refers to a descriptor that was closed and
\* handed out again, no descriptor has two slots, and clientCount is the number
\* of open clients, although holes stay behind in client[].
SlotsConsistent ==
  /\ \A fd \in Fd : fd \in readFd <=> IsOpen(fd)
  /\ clientCount = Cardinality({fd \in Fd : IsOpen(fd)})
  /\ \A j \in SlotNo :
       client[j] # Hole =>
         /\ IsOpen(client[j])
         /\ \A k \in SlotNo : client[k] = client[j] => k = j

\* With one client at a time the loop over client[] reaches every open client,
\* in spite of the holes (more than one client at a time can be lost).
AloneScanned ==
  alone => \A fd \in Fd :
             IsOpen(fd) => \E j \in 0..(clientCount - 1) : client[j] = fd

\* With one client at a time clientFd is the client that is served: file.txt
\* holds blocks of the client that gets the response, and a client is closed
\* only when it has ended the connection and nothing is left to read.
AloneServed ==
  [][alone =>
       /\ pc' = "respond" /\ pc = "upload"
            => \A n \in DOMAIN file' : file'[n] = Slot
       /\ \A c \in Conn :
            peer[c] # "closed" /\ peer'[c] = "closed"
              => inbox[c] = <<>> /\ peer[c] # "open"]_vars

\* "client have info", says the loop of what it reads: the data is taken from
\* the client whose slot select has reported.
ReadsReportedClient ==
  [][pc = "scan" =>
       \A c \in Conn :
         inbox[c] # <<>> /\ inbox'[c] = <<>> => c = fdTable[client[i']]]_vars
=============================================================================
