-------------------------- MODULE HTTPServerProofs --------------------------
(***************************************************************************)
(* Proofs about HTTPServer, for every set of connections, every limit on   *)
(* descriptors, every set of request heads and any number of items sent:   *)
(* the tables of the event loop agree (TablesInv), a client's send queue   *)
(* belongs to its connection (QueueInv), and every step of the loop, of a  *)
(* system call or of a peer is one step of ConnectionService or none.      *)
(***************************************************************************)
EXTENDS HTTPServerRefinement, SocketsProofs, SequenceTheorems, FiniteSetTheorems, TLAPS

\* The thread has seen the listening socket ready: a connection waits until
\* acceptConnection takes it, since nobody else takes one from the backlog.
ListenerPending ==
  pc \in {"scan", "dangling", "body", "handle"} /\ ListenFd \in tempSet => backlog # <<>>

\* readClient works on data.
HoldsData == pc \in {"body", "handle"} => pData # <<>>

\* start() puts the listening socket into an empty set.
EmptyAtStart == pc = "start" => readFd = {}

\* What the iterator has yet to reach, and what readClient works for, is in the
\* client map.
ReachesClients ==
  /\ todo \subseteq Clients
  /\ pc \in {"body", "handle"} => cur \in Clients

TablesInv ==
  /\ TypeOK
  /\ EmptyAtStart
  /\ TableConsistent
  /\ WatchedBelowMaxfd
  /\ ReachesClients
  /\ ListenerPending
  /\ HoldsData

USE DEF Fd, ListenFd, INVALID_SOCKET

----------------------------------------------------------------------------
(* The type invariant and the agreement of the tables. *)

\* The program starts with empty tables.
LEMMA TablesInit == Init => TablesInv
<1> SUFFICES ASSUME Init PROVE TablesInv
  OBVIOUS
<1>1. SocketsTypeOK
  <2>1. <<>> \in Seq(Item) /\ <<>> \in Seq(Conn)
    OBVIOUS
  <2> QED
    BY <2>1 DEF Init, SocketsInit, SocketsTypeOK, PeerState
<1>2. TypeOK
  <2>1. pData \in Seq(Item) /\ temp \in Int /\ pc \in PcValues
    BY DEF Init, PcValues
  <2>2. clientMap \in [Fd -> Client \cup {NoClient}]
    BY DEF Init
  <2>3. /\ canRun \in BOOLEAN
        /\ readFd \in SUBSET (Fd \cup {ListenFd})
        /\ maxfd \in {INVALID_SOCKET, ListenFd} \cup Fd
        /\ tempSet \in SUBSET (Fd \cup {ListenFd})
        /\ todo \in SUBSET Fd
        /\ cur \in Fd \cup {INVALID_SOCKET}
    BY DEF Init
  <2> QED
    BY <1>1, <2>1, <2>2, <2>3 DEF TypeOK
<1>3. TableConsistent
  BY DEF Init, SocketsInit, TableConsistent, Clients
<1>4. WatchedBelowMaxfd /\ ReachesClients /\ ListenerPending /\ HoldsData
  BY DEF Init, WatchedBelowMaxfd, ReachesClients, ListenerPending, HoldsData
<1> QED
  BY <1>2, <1>3, <1>4 DEF TablesInv, Init, EmptyAtStart

\* Steps of the thread that change neither the sockets nor the client map.
LEMMA TablesQuiet ==
  ASSUME TablesInv,
         Start \/ Select \/ SelectTimeout \/ SelectFails \/ Stop \/ HandlerDies
           \/ ReadDeleted \/ PassDone \/ Terminated
  PROVE  TablesInv'
<1> USE DEF TablesInv, TypeOK, TableConsistent, WatchedBelowMaxfd, ReachesClients,
            ListenerPending, HoldsData, EmptyAtStart, Clients, PcValues, vars, sockVars, serverVars,
            loopVars, readVars, SocketsTypeOK
<1>1. CASE Start
  <2>1. CASE pc' = "stop"
    BY <1>1, <2>1 DEF Start
  <2>2. CASE pc' = "select"
    <3>1. TypeOK'
      BY <1>1, <2>2 DEF Start
    <3>2. WatchedBelowMaxfd'
      BY <1>1, <2>2 DEF Start
    <3>3. TableConsistent'
      BY <1>1, <2>2 DEF Start
    <3> QED
      BY <1>1, <2>2, <3>1, <3>2, <3>3 DEF Start
  <2> QED
    BY <1>1, <2>1, <2>2 DEF Start
<1>2. CASE Select
  <2>1. ListenFd \in Ready => backlog # <<>>
    BY DEF Ready
  <2>2. Ready \subseteq Fd \cup {ListenFd}
    BY DEF Ready, Watched
  <2> QED
    BY <1>2, <2>1, <2>2 DEF Select
<1>3. CASE SelectTimeout
  BY <1>3 DEF SelectTimeout
<1>4. CASE SelectFails
  BY <1>4 DEF SelectFails
<1>5. CASE Stop
  BY <1>5 DEF Stop
<1>6. CASE HandlerDies
  BY <1>6 DEF HandlerDies
<1>7. CASE PassDone
  BY <1>7 DEF PassDone
<1>8. CASE ReadDeleted
  BY <1>8 DEF ReadDeleted
<1>9. CASE Terminated
  BY <1>9 DEF Terminated
<1> QED
  BY <1>1, <1>2, <1>3, <1>4, <1>5, <1>6, <1>7, <1>8, <1>9

\* A step of a peer.
LEMMA TablesEnvironment ==
  ASSUME TablesInv, Environment
  PROVE  TablesInv'
<1>1. SocketsTypeOK' /\ UNCHANGED <<fdTable, serverVars>>
        /\ (backlog # <<>> => backlog' # <<>>)
  BY PeerStepType DEF Environment, TablesInv, TypeOK
<1>2. TypeOK'
  BY <1>1 DEF TablesInv, TypeOK, serverVars
<1>3. TableConsistent' /\ WatchedBelowMaxfd' /\ ReachesClients' /\ HoldsData'
        /\ EmptyAtStart'
  BY <1>1 DEF TablesInv, EmptyAtStart, TableConsistent, WatchedBelowMaxfd, ReachesClients, HoldsData,
              Clients, serverVars
<1>4. ListenerPending'
  BY <1>1 DEF TablesInv, ListenerPending, serverVars
<1> QED
  BY <1>2, <1>3, <1>4 DEF TablesInv

\* A descriptor in the tables refers to a connection.
LEMMA ClientConn ==
  ASSUME TablesInv, NEW fd \in Clients
  PROVE  fd \in Fd /\ fdTable[fd] \in Conn
BY DEF TablesInv, TypeOK, SocketsTypeOK, TableConsistent, Clients

\* readClient takes what the socket holds.
LEMMA TablesReadClient ==
  ASSUME TablesInv, NEW fd \in Fd, ReadClient(fd)
  PROVE  TablesInv'
<1>1. fd \in Clients /\ fdTable[fd] \in Conn
  BY ClientConn DEF TablesInv, ReachesClients, ReadClient
<1>2. SocketsTypeOK' /\ UNCHANGED <<fdTable, backlog>>
  BY <1>1, CallType DEF ReadClient, Receive, TablesInv, TypeOK
<1>3. pData' = inbox[fdTable[fd]] /\ pData' # <<>> /\ pData' \in Seq(Item)
  BY <1>1 DEF ReadClient, HasData, TablesInv, TypeOK, SocketsTypeOK
<1>4. /\ pc = "scan" /\ pc' \in {"body", "handle", "crashed"}
      /\ temp' = 0 /\ cur' = fd /\ todo' = todo \ {fd}
      /\ UNCHANGED <<canRun, readFd, maxfd, tempSet, clientMap>>
  BY DEF ReadClient, Counted, loopVars
<1>5. TypeOK'
  BY <1>2, <1>3, <1>4 DEF TablesInv, TypeOK, PcValues
<1>6. TableConsistent' /\ WatchedBelowMaxfd' /\ ReachesClients'
  BY <1>1, <1>2, <1>4 DEF TablesInv, TableConsistent, WatchedBelowMaxfd, ReachesClients,
                          Clients
<1>7. ListenerPending' /\ HoldsData' /\ EmptyAtStart'
  BY <1>2, <1>3, <1>4 DEF TablesInv, ListenerPending, HoldsData, EmptyAtStart
<1> QED
  BY <1>5, <1>6, <1>7 DEF TablesInv

\* disconnectClient removes the descriptor from all three tables at once, and
\* the scan that goes on does not reach it again.
LEMMA TablesDisconnectClient ==
  ASSUME TablesInv, NEW fd \in Fd, DisconnectClient(fd)
  PROVE  TablesInv'
<1>1. /\ SocketsTypeOK' /\ UNCHANGED backlog
      /\ fdTable' = [fdTable EXCEPT ![fd] = NoConn]
  BY CloseType DEF DisconnectClient, TablesInv, TypeOK
<1>2. /\ readFd' = readFd \ {fd}
      /\ clientMap' = [clientMap EXCEPT ![fd] = NoClient]
      /\ todo' \subseteq todo \ {fd}
      /\ pc = "scan" /\ pc' \in {"scan", "dangling", "crashed"}
      /\ UNCHANGED <<canRun, maxfd, tempSet, cur, pData, temp>>
  BY DEF DisconnectClient, Erased, AfterErase, readVars
<1>3. TypeOK'
  BY <1>1, <1>2 DEF TablesInv, TypeOK, PcValues
<1>4. TableConsistent'
  BY <1>1, <1>2, SocketsAssumption DEF TablesInv, TableConsistent, TypeOK, SocketsTypeOK, Clients
<1>5. WatchedBelowMaxfd' /\ ReachesClients'
  BY <1>2 DEF TablesInv, TypeOK, WatchedBelowMaxfd, ReachesClients, Clients
<1>6. ListenerPending' /\ HoldsData' /\ EmptyAtStart'
  BY <1>1, <1>2 DEF TablesInv, ListenerPending, HoldsData, EmptyAtStart
<1> QED
  BY <1>3, <1>4, <1>5, <1>6 DEF TablesInv

\* A turn of the upload loop.
LEMMA TablesRecvBody ==
  ASSUME TablesInv, RecvBody
  PROVE  TablesInv'
<1> DEFINE c == fdTable[cur]
<1>1. cur \in Clients /\ c \in Conn
  BY ClientConn DEF TablesInv, ReachesClients, RecvBody
<1>2. SocketsTypeOK' /\ UNCHANGED <<fdTable, backlog>>
  BY <1>1, CallType DEF RecvBody, TablesInv, TypeOK, sockVars, SocketsTypeOK
<1>3. /\ pc = "body" /\ pc' \in {"body", "handle"}
      /\ UNCHANGED <<canRun, readFd, maxfd, tempSet, clientMap, todo, cur>>
  BY DEF RecvBody, BodyRead, loopVars
<1>4. pData' = pData \o inbox[c] \/ pData' = pData
  BY DEF RecvBody
<1>5. pData' # <<>> /\ pData' \in Seq(Item)
  <2>1. pData # <<>> /\ pData \in Seq(Item) /\ inbox[c] \in Seq(Item)
    BY <1>1, <1>3 DEF TablesInv, HoldsData, TypeOK, SocketsTypeOK
  <2> HIDE DEF c
  <2>2. pData \o inbox[c] \in Seq(Item)
    BY <2>1, ConcatProperties
  <2>3. pData \o inbox[c] # <<>>
    BY <2>1, ConcatEqualIffEmpty
  <2> QED
    BY <1>4, <2>1, <2>2, <2>3
<1>6. temp' \in Int
  <2>1. Len(inbox[c]) \in Nat
    BY <1>1 DEF TablesInv, TypeOK, SocketsTypeOK
  <2>2. temp' = temp + BlockLen * Len(inbox[c]) \/ temp' = temp - 1 \/ temp' = temp
    BY DEF RecvBody, BodyRead
  <2> QED
    BY <2>1, <2>2 DEF TablesInv, TypeOK, BlockLen
<1>7. TypeOK'
  BY <1>2, <1>3, <1>5, <1>6 DEF TablesInv, TypeOK, PcValues
<1>8. TableConsistent' /\ WatchedBelowMaxfd' /\ ReachesClients'
  BY <1>1, <1>2, <1>3 DEF TablesInv, TableConsistent, WatchedBelowMaxfd, ReachesClients,
                          Clients
<1>9. ListenerPending' /\ HoldsData' /\ EmptyAtStart'
  BY <1>2, <1>3, <1>5 DEF TablesInv, ListenerPending, HoldsData, EmptyAtStart
<1> QED
  BY <1>7, <1>8, <1>9 DEF TablesInv

\* A handler answers on the connection of the client it works for.
LEMMA TablesHandleRequest ==
  ASSUME TablesInv, HandleRequest
  PROVE  TablesInv'
<1>1. cur \in Fd /\ cur \in Clients /\ fdTable[cur] \in Conn
  BY ClientConn DEF TablesInv, ReachesClients, HandleRequest
<1>2. SocketsTypeOK' /\ UNCHANGED <<fdTable, backlog>>
  BY <1>1, CallType DEF HandleRequest, TablesInv, TypeOK, sockVars, SocketsTypeOK
<1>3. /\ pc = "handle" /\ pc' = "scan"
      /\ cur' = INVALID_SOCKET /\ pData' = <<>> /\ temp' = 0
      /\ UNCHANGED <<canRun, readFd, maxfd, tempSet, todo>>
  BY DEF HandleRequest, ReadDone, loopVars
<1>4. /\ clientMap' \in [Fd -> Client \cup {NoClient}]
      /\ \A fd \in Fd : clientMap'[fd] = NoClient <=> clientMap[fd] = NoClient
      /\ \A fd \in Clients : clientMap'[fd].clientAddr = clientMap[fd].clientAddr
  <2>1. clientMap[cur] \in Client /\ clientMap \in [Fd -> Client \cup {NoClient}]
    BY <1>1 DEF TablesInv, TypeOK, Clients
  <2> DEFINE q == Append(clientMap[cur].sendQueue, Response(pData, temp))
  <2>2. Response(pData, temp) \in SendQueueItem
    BY DEF Response, SendQueueItem, Status
  <2>3. q \in Seq(SendQueueItem)
    BY <2>1, <2>2, AppendProperties DEF Client
  <2>4. CASE UNCHANGED clientMap
    BY <2>1, <2>4
  <2>5. CASE clientMap' = [clientMap EXCEPT ![cur].sendQueue = q]
    <3>1. [clientMap[cur] EXCEPT !.sendQueue = q] \in Client
      BY <2>1, <2>3 DEF Client
    <3>2. clientMap' = [clientMap EXCEPT ![cur] = [clientMap[cur] EXCEPT !.sendQueue = q]]
      BY <2>5
    <3>3. [clientMap[cur] EXCEPT !.sendQueue = q].clientAddr = clientMap[cur].clientAddr
      BY <2>1 DEF Client
    <3> HIDE DEF q
    <3> QED
      BY <1>1, <2>1, <3>1, <3>2, <3>3, HTTPServerAssumption DEF Clients
  <2> QED
    BY <2>4, <2>5 DEF HandleRequest, AddToSendQueue
<1>5. TypeOK'
  BY <1>2, <1>3, <1>4 DEF TablesInv, TypeOK, PcValues
<1>6. TableConsistent' /\ WatchedBelowMaxfd' /\ ReachesClients'
  BY <1>1, <1>2, <1>3, <1>4 DEF TablesInv, TableConsistent, WatchedBelowMaxfd,
                                ReachesClients, Clients
<1>7. ListenerPending' /\ HoldsData' /\ EmptyAtStart'
  BY <1>2, <1>3 DEF TablesInv, ListenerPending, HoldsData, EmptyAtStart
<1> QED
  BY <1>5, <1>6, <1>7 DEF TablesInv

\* acceptConnection enters a descriptor that no table holds any more.
LEMMA TablesAcceptConnection ==
  ASSUME TablesInv, AcceptConnection
  PROVE  TablesInv'
<1>1. /\ pc = "scan" /\ pc' = "select" /\ backlog # <<>>
      /\ UNCHANGED <<canRun, tempSet, todo, cur, pData, temp>>
  BY DEF AcceptConnection, TablesInv, ListenerPending, readVars
<1>2. CASE UNCHANGED <<sockVars, clientMap, readFd, maxfd>>
  BY <1>1, <1>2 DEF TablesInv, TypeOK, SocketsTypeOK, PcValues, TableConsistent,
       WatchedBelowMaxfd, ReachesClients, ListenerPending, HoldsData, EmptyAtStart,
       Clients, sockVars
<1>3. ASSUME NEW fd \in Fd, AcceptFd(fd),
             clientMap' = Inserted(fd, Head(backlog)),
             readFd' = readFd \cup {fd}, maxfd' = NewMaxfd(fd)
      PROVE  TablesInv'
  <2>1. /\ SocketsTypeOK' /\ Head(backlog) \in Conn
        /\ fdTable[fd] = NoConn /\ fdTable' = [fdTable EXCEPT ![fd] = Head(backlog)]
    BY <1>1, <1>3, AcceptType DEF TablesInv, TypeOK
  <2> DEFINE cl == [clientAddr |-> Head(backlog), sendQueue |-> <<>>]
  <2>2. cl \in Client
    <3>1. <<>> \in Seq(SendQueueItem)
      OBVIOUS
    <3> QED
      BY <2>1, <3>1 DEF Client
  <2>3. clientMap' = [clientMap EXCEPT ![fd] = cl]
    BY <1>3, <2>1 DEF Inserted, NewClient, TablesInv, TableConsistent
  <2>4. cl.clientAddr = Head(backlog)
    OBVIOUS
  <2> HIDE DEF cl
  <2>5. cl # NoClient /\ Head(backlog) # NoConn
    BY <2>1, <2>2, HTTPServerAssumption, SocketsAssumption
  <2>6. maxfd' \in {INVALID_SOCKET, ListenFd} \cup Fd /\ fd <= maxfd' /\ maxfd <= maxfd'
    BY <1>3 DEF NewMaxfd, TablesInv, TypeOK
  <2>7. TypeOK'
    BY <1>1, <1>3, <2>1, <2>2, <2>3, <2>6 DEF TablesInv, TypeOK, PcValues
  <2>8. TableConsistent'
    BY <1>3, <2>1, <2>3, <2>4, <2>5
       DEF TablesInv, TypeOK, SocketsTypeOK, TableConsistent, Clients
  <2>9. WatchedBelowMaxfd'
    BY <1>3, <2>6 DEF TablesInv, TypeOK, WatchedBelowMaxfd
  <2>10. ReachesClients' /\ ListenerPending' /\ HoldsData' /\ EmptyAtStart'
    BY <1>1, <2>3, <2>5 DEF TablesInv, TypeOK, ReachesClients, ListenerPending, HoldsData,
                            EmptyAtStart, Clients
  <2> QED
    BY <2>7, <2>8, <2>9, <2>10 DEF TablesInv
<1> QED
  BY <1>2, <1>3 DEF AcceptConnection

\* Every step keeps the invariant.
LEMMA TablesNext == TablesInv /\ [Next]_vars => TablesInv'
<1> SUFFICES ASSUME TablesInv, [Next]_vars PROVE TablesInv'
  OBVIOUS
<1>1. CASE \E fd \in Fd : ReadClient(fd)
  BY <1>1, TablesReadClient
<1>2. CASE \E fd \in Fd : DisconnectClient(fd)
  BY <1>2, TablesDisconnectClient
<1>3. CASE RecvBody
  BY <1>3, TablesRecvBody
<1>4. CASE HandleRequest
  BY <1>4, TablesHandleRequest
<1>5. CASE AcceptConnection
  BY <1>5, TablesAcceptConnection
<1>6. CASE Environment
  BY <1>6, TablesEnvironment
<1>7. CASE Start \/ Select \/ SelectTimeout \/ SelectFails \/ Stop \/ HandlerDies
             \/ ReadDeleted \/ PassDone \/ Terminated
  BY <1>7, TablesQuiet
<1>8. CASE UNCHANGED vars
  BY <1>8, TablesQuiet DEF SelectTimeout, Terminated, TablesInv, TypeOK, SocketsTypeOK,
       TableConsistent, WatchedBelowMaxfd, ReachesClients, ListenerPending, HoldsData,
       EmptyAtStart, Clients, vars, sockVars, serverVars
<1> QED
  BY <1>1, <1>2, <1>3, <1>4, <1>5, <1>6, <1>7, <1>8 DEF Next, ServerStep

\* The inductive invariant holds in every reachable state.
THEOREM TablesInvariant == Spec => []TablesInv
BY TablesInit, TablesNext, PTL DEF Spec

\* Every variable keeps its type, in particular the client map, to which
\* sendResponse adds without a check, and the backlog, which accept consumes.
THEOREM TypeCorrect == Spec => []TypeOK
BY TablesInvariant, PTL DEF TablesInv

\* clientMap, read_fd and the kernel's table agree at every system call.
THEOREM TablesAgree == Spec => []TableConsistent
BY TablesInvariant, PTL DEF TablesInv

\* select is told about every watched descriptor.
THEOREM AllWatched == Spec => []WatchedBelowMaxfd
BY TablesInvariant, PTL DEF TablesInv

----------------------------------------------------------------------------
(* Every response is paid for. *)

\* The tables make Held a number.
LEMMA HeldType ==
  ASSUME TablesInv, NEW c \in Conn
  PROVE  /\ Held(c) \in Nat /\ Len(inbox[c]) \in Nat
         /\ replies[c] \in Nat /\ sent[c] \in Nat
BY DEF Held, TablesInv, TypeOK, SocketsTypeOK

\* The thread starts to hold what it takes from the inbox, holds more with
\* every turn of the upload loop, and pays for its one response with at least
\* one held item.
LEMMA RepliesNext ==
  TablesInv /\ TablesInv' /\ NoUnsolicitedReply /\ [Next]_vars => NoUnsolicitedReply'
<1> SUFFICES ASSUME TablesInv, TablesInv', NoUnsolicitedReply, [Next]_vars,
                    NEW c \in Conn
             PROVE  (replies[c] + Len(inbox[c]) + Held(c) <= sent[c])'
  BY DEF NoUnsolicitedReply
<1>1. replies[c] + Len(inbox[c]) + Held(c) <= sent[c]
  BY DEF NoUnsolicitedReply
<1>2. /\ Held(c) \in Nat /\ Len(inbox[c]) \in Nat /\ replies[c] \in Nat /\ sent[c] \in Nat
      /\ Len(pData) \in Nat /\ Held(c)' \in Nat
  BY HeldType, SMTT(30) DEF Held, TablesInv, TypeOK, SocketsTypeOK
<1>3. CASE \E fd \in Fd : ReadClient(fd)
  <2>1. PICK fd \in Fd : ReadClient(fd)
    BY <1>3
  <2>2. fdTable[fd] \in Conn /\ Held(c) = 0 /\ cur' = fd /\ pData' = inbox[fdTable[fd]]
    BY <2>1, ClientConn DEF ReadClient, ReachesClients, Held, TablesInv
  <2>3. UNCHANGED <<fdTable, replies, sent>>
          /\ inbox' = [inbox EXCEPT ![fdTable[fd]] = <<>>]
    BY <2>1 DEF ReadClient, Receive, TakeAll
  <2>4. CASE fdTable[fd] = c
    BY <1>1, <1>2, <2>2, <2>3, <2>4, EmptySeq DEF Held, TablesInv, TypeOK, SocketsTypeOK
  <2>5. CASE fdTable[fd] # c
    BY <1>1, <1>2, <2>2, <2>3, <2>5 DEF Held, TablesInv, TypeOK, SocketsTypeOK
  <2> QED
    BY <2>4, <2>5
<1>4. CASE \E fd \in Fd : DisconnectClient(fd)
  <2>1. Held(c)' = 0 /\ UNCHANGED <<replies, inbox, sent>>
    BY <1>4 DEF DisconnectClient, CloseFd, AfterErase, Held
  <2> QED
    BY <1>1, <1>2, <2>1
<1>5. CASE RecvBody
  <2> DEFINE d == fdTable[cur]
  <2>1. d \in Conn /\ pc = "body" /\ pc' \in {"body", "handle"}
          /\ UNCHANGED <<cur, fdTable, replies, sent>>
    BY <1>5, ClientConn DEF RecvBody, BodyRead, ReachesClients, TakeAll, ReportError,
         sockVars, TablesInv
  <2>2. \/ pData' = pData \o inbox[d] /\ inbox' = [inbox EXCEPT ![d] = <<>>]
        \/ pData' = pData /\ UNCHANGED inbox
    BY <1>5 DEF RecvBody, TakeAll, ReportError, sockVars
  <2>3. Len(pData \o inbox[d]) = Len(pData) + Len(inbox[d])
    BY <2>1, ConcatProperties DEF TablesInv, TypeOK, SocketsTypeOK
  <2>4. CASE d = c
    BY <1>1, <1>2, <2>1, <2>2, <2>3, <2>4, EmptySeq DEF Held, TablesInv, TypeOK, SocketsTypeOK
  <2>5. CASE d # c
    BY <1>1, <1>2, <2>1, <2>2, <2>5 DEF Held, TablesInv, TypeOK, SocketsTypeOK
  <2> QED
    BY <2>4, <2>5
<1>6. CASE HandleRequest
  <2>1. Held(c)' = 0 /\ UNCHANGED <<inbox, sent>>
    BY <1>6 DEF HandleRequest, ReadDone, Write, Held, sockVars
  <2>2. \/ replies'[c] = replies[c]
        \/ replies'[c] = replies[c] + 1 /\ c = fdTable[cur]
    <3>1. CASE UNCHANGED replies
      BY <3>1
    <3>2. CASE replies' = [replies EXCEPT ![fdTable[cur]] = @ + 1]
      BY <3>2 DEF TablesInv, TypeOK, SocketsTypeOK
    <3> QED
      BY <1>6, <3>1, <3>2 DEF HandleRequest, Write, sockVars
  <2>3. c = fdTable[cur] => Held(c) >= 1
    BY <1>6, EmptySeq DEF HandleRequest, HoldsData, Held, TablesInv, TypeOK
  <2> QED
    BY <1>1, <1>2, <2>1, <2>2, <2>3
<1>7. CASE Environment
  <2>1. Held(c)' = Held(c) /\ UNCHANGED replies
    BY <1>7, PeerStepType DEF Environment, serverVars, Held, TablesInv, TypeOK
  <2>2. PICK p \in Conn : Connect(p) \/ (\E x \in Item : PeerSend(p, x))
                            \/ PeerClose(p) \/ PeerReset(p)
    BY <1>7 DEF Environment, PeerStep
  <2>3. CASE \E x \in Item : PeerSend(p, x)
    <3>1. PICK x \in Item : PeerSend(p, x)
      BY <2>3
    <3>2. Len(Append(inbox[c], x)) = Len(inbox[c]) + 1
      BY AppendProperties DEF TablesInv, TypeOK, SocketsTypeOK
    <3>3. \/ sent'[c] = sent[c] /\ inbox'[c] = inbox[c]
          \/ sent'[c] = sent[c] + 1 /\ inbox'[c] = Append(inbox[c], x)
      BY <3>1 DEF PeerSend, TablesInv, TypeOK, SocketsTypeOK
    <3>4. \/ sent'[c] = sent[c] /\ Len(inbox'[c]) = Len(inbox[c])
          \/ sent'[c] = sent[c] + 1 /\ Len(inbox'[c]) = Len(inbox[c]) + 1
      BY <3>2, <3>3
    <3>5. replies'[c] = replies[c]
      BY <2>1
    <3> QED
      BY <1>1, <1>2, <2>1, <3>4, <3>5
  <2>4. CASE Connect(p) \/ PeerClose(p) \/ PeerReset(p)
    BY <1>1, <1>2, <2>1, <2>4 DEF Connect, PeerClose, PeerReset
  <2> QED
    BY <2>2, <2>3, <2>4
<1>8. CASE \/ AcceptConnection
           \/ Start \/ Select \/ SelectTimeout \/ SelectFails \/ Stop \/ HandlerDies
           \/ ReadDeleted \/ PassDone \/ Terminated \/ UNCHANGED vars
  <2>1. UNCHANGED <<inbox, sent, replies>>
    BY <1>8 DEF AcceptConnection, AcceptFd, Start, Select, SelectTimeout, SelectFails, Stop,
         HandlerDies, ReadDeleted, PassDone, Terminated, vars, sockVars
  <2>2. Held(c)' = Held(c) \/ Held(c)' = 0
    BY <1>8 DEF AcceptConnection, Start, Select, SelectTimeout, SelectFails, Stop,
         HandlerDies, ReadDeleted, PassDone, Terminated, vars, sockVars, serverVars, Held
  <2> QED
    BY <1>1, <1>2, <2>1, <2>2
<1> QED
  BY <1>3, <1>4, <1>5, <1>6, <1>7, <1>8 DEF Next, ServerStep

\* No response is sent twice, before its request or to another client.
THEOREM RepliesPaidFor == Spec => []NoUnsolicitedReply
<1>1. Init => NoUnsolicitedReply
  BY EmptySeq DEF Init, SocketsInit, NoUnsolicitedReply, Held
<1> QED
  BY <1>1, RepliesNext, TablesInvariant, PTL DEF Spec

----------------------------------------------------------------------------
(* An upload that was counted is long enough. *)

\* The loop has counted no more than what follows the head, and leaves with as
\* much as Content-Length asks for.
UploadCounted ==
  /\ pc = "body" => temp <= BlockLen * (Len(pData) - 1)
  /\ pc = "handle" /\ Expects(pData)
       => ContentLength(pData) <= BlockLen * (Len(pData) - 1)

\* Content-Length is a number, and what arrives later does not change it.
LEMMA LengthOfHead ==
  ASSUME NEW d \in Seq(Item), d # <<>>
  PROVE  /\ ContentLength(d) \in Int /\ Len(d) \in Nat /\ Len(d) >= 1
         /\ \A e \in Seq(Item) :
              /\ ContentLength(d \o e) = ContentLength(d)
              /\ Len(d \o e) = Len(d) + Len(e)
<1>1. Len(d) \in Nat /\ Len(d) >= 1 /\ d[1] \in Request \cup {Body}
  BY EmptySeq DEF Item
<1>2. ContentLength(d) \in Int
  BY <1>1, HTTPServerAssumption DEF ContentLength, HasLength, Parsable, Head1
<1>3. ASSUME NEW e \in Seq(Item)
      PROVE  ContentLength(d \o e) = ContentLength(d) /\ Len(d \o e) = Len(d) + Len(e)
  <2>1. (d \o e)[1] = d[1] /\ Len(d \o e) = Len(d) + Len(e)
    BY <1>1, ConcatProperties
  <2> QED
    BY <2>1 DEF ContentLength, HasLength, Parsable
<1> QED
  BY <1>1, <1>2, <1>3

\* The count starts below the bytes after the head and grows with them.
LEMMA UploadNext == TablesInv /\ UploadCounted /\ [EndlessNext]_vars => UploadCounted'
<1> SUFFICES ASSUME TablesInv, UploadCounted, [EndlessNext]_vars PROVE UploadCounted'
  OBVIOUS
<1>1. CASE \E fd \in Fd : ReadClient(fd)
  <2>1. PICK fd \in Fd : ReadClient(fd)
    BY <1>1
  <2>2. fdTable[fd] \in Conn
    BY <2>1, ClientConn DEF ReadClient, TablesInv, ReachesClients
  <2>3. pData' \in Seq(Item) /\ pData' # <<>> /\ temp' = 0
    BY <2>1, <2>2 DEF ReadClient, HasData, Counted, TablesInv, TypeOK, SocketsTypeOK
  <2>4. Len(pData') \in Nat /\ Len(pData') >= 1
    BY <2>3, LengthOfHead
  <2>5. pc' = "handle" => ~Expects(pData')
    BY <2>1 DEF ReadClient
  <2> QED
    BY <2>3, <2>4, <2>5 DEF UploadCounted, BlockLen
<1>2. CASE RecvBody
  <2> DEFINE e == inbox[fdTable[cur]]
  <2>1. /\ fdTable[cur] \in Conn /\ e \in Seq(Item) /\ Len(e) \in Nat /\ temp \in Int
        /\ pData \in Seq(Item) /\ pData # <<>> /\ temp <= BlockLen * (Len(pData) - 1)
    BY <1>2, ClientConn DEF RecvBody, TablesInv, TypeOK, SocketsTypeOK, HoldsData,
         ReachesClients, UploadCounted
  <2>2. /\ ContentLength(pData') = ContentLength(pData) /\ ContentLength(pData) \in Int
        /\ temp' <= BlockLen * (Len(pData') - 1)
    <3>1. \/ pData' = pData \o e /\ temp' = temp + BlockLen * Len(e)
          \/ pData' = pData /\ temp' \in {temp, temp - 1}
      BY <1>2 DEF RecvBody, BodyRead
    <3> HIDE DEF e
    <3>2. /\ ContentLength(pData) \in Int /\ Len(pData) \in Nat
          /\ ContentLength(pData \o e) = ContentLength(pData)
          /\ Len(pData \o e) = Len(pData) + Len(e)
      BY <2>1, LengthOfHead
    <3>3. CASE pData' = pData \o e /\ temp' = temp + BlockLen * Len(e)
      BY <2>1, <3>2, <3>3 DEF BlockLen
    <3>4. CASE pData' = pData /\ temp' \in {temp, temp - 1}
      BY <2>1, <3>2, <3>4 DEF BlockLen
    <3> QED
      BY <3>1, <3>3, <3>4
  <2>3. pc' = "handle" => temp' = ContentLength(pData)
    BY <1>2 DEF RecvBody, BodyRead
  <2> QED
    BY <2>2, <2>3 DEF UploadCounted
<1>3. CASE HandleRequest \/ HandlerDies \/ AcceptConnection \/ Start \/ Select \/ SelectFails
             \/ Stop \/ PassDone \/ ReadDeleted \/ (\E fd \in Fd : DisconnectClient(fd))
  BY <1>3 DEF HandleRequest, HandlerDies, AcceptConnection, Start, Select, SelectFails, Stop,
       PassDone, ReadDeleted, DisconnectClient, AfterErase, ReadDone, UploadCounted
<1>4. CASE \/ SelectTimeout \/ Environment \/ Terminated \/ UNCHANGED vars
           \/ \E c \in Conn : Reuse(c)
  BY <1>4 DEF SelectTimeout, Environment, Terminated, Reuse, vars, serverVars, UploadCounted
<1> QED
  BY <1>1, <1>2, <1>3, <1>4 DEF EndlessNext, Next, ServerStep

\* The tables do not depend on which connection it is.
LEMMA EndlessTables == TablesInv /\ [EndlessNext]_vars => TablesInv'
<1> SUFFICES ASSUME TablesInv, NEW c \in Conn, Reuse(c) PROVE TablesInv'
  BY TablesNext DEF EndlessNext
<1>1. SocketsTypeOK' /\ UNCHANGED <<backlog, fdTable, serverVars>>
  BY DEF Reuse, TablesInv, TypeOK, SocketsTypeOK, PeerState
<1> QED
  BY <1>1 DEF TablesInv, TypeOK, TableConsistent, WatchedBelowMaxfd, ReachesClients,
       ListenerPending, HoldsData, EmptyAtStart, Clients, serverVars

\* An upload that has gone through the loop, whose Content-Length is not
\* negative, is never refused as too short, however many clients there are.
THEOREM UploadsNotRefused == Spec \/ EndlessSpec => []UploadNotRefused
<1>1. Init => UploadCounted
  BY DEF Init, UploadCounted
<1>2. ASSUME TablesInv, UploadCounted PROVE UploadNotRefused
  <2> SUFFICES ASSUME pc = "handle", Expects(pData), HasBody(pData),
                      ContentLength(pData) >= 0
               PROVE  ~(\/ pData[1].length < 0
                        \/ pData[1].length > Following(pData, temp) + 1)
    BY DEF UploadNotRefused, BadRequest
  <2>1. pData \in Seq(Item) /\ pData # <<>>
    BY <1>2 DEF TablesInv, TypeOK, HoldsData
  <2>2. ContentLength(pData) = pData[1].length /\ ContentLength(pData) \in Int
          /\ Len(pData) \in Nat
    BY <2>1, LengthOfHead DEF HasBody, ContentLength
  <2>3. temp % BlockLen \in 0 .. 1
    BY <1>2 DEF TablesInv, TypeOK, BlockLen
  <2>4. ContentLength(pData) <= BlockLen * (Len(pData) - 1)
    BY <1>2 DEF UploadCounted
  <2> QED
    BY <2>2, <2>3, <2>4 DEF Following, BlockLen
<1>3. [Next]_vars => [EndlessNext]_vars
  BY DEF EndlessNext
<1> QED
  BY <1>1, <1>2, <1>3, UploadNext, EndlessTables, TablesInit, PTL DEF Spec, EndlessSpec
----------------------------------------------------------------------------
(* The send queues: a connection is in one place, and is sent nothing before *)
(* it has been accepted. *)

HIDE DEF Fd, ListenFd, INVALID_SOCKET

QueueInv == OnePlace /\ QueueIsOwn

\* What a step leaves of QueueIsOwn when it touches neither a client's queue nor
\* the responses, and leaves "gone" what has a descriptor.
LEMMA QueuesKept ==
  ASSUME TablesInv, TablesInv', QueueIsOwn,
         \A fd \in Fd : clientMap'[fd] \in {clientMap[fd], NoClient},
         UNCHANGED replies,
         \A fd \in Fd : fdTable'[fd] # NoConn /\ peer[fdTable'[fd]] = "gone"
                          => peer'[fdTable'[fd]] = "gone"
  PROVE  QueueIsOwn'
<1> SUFFICES ASSUME NEW fd \in Fd, clientMap'[fd] # NoClient
             PROVE  LET c == clientMap'[fd].clientAddr
                        queued == Len(clientMap'[fd].sendQueue)
                    IN queued = replies'[c] \/ (peer'[c] = "gone" /\ queued = replies'[c] + 1)
  BY DEF QueueIsOwn, Clients
<1>1. clientMap'[fd] = clientMap[fd] /\ fd \in Clients /\ fd \in Clients'
  BY DEF Clients
<1>2. clientMap'[fd].clientAddr = fdTable'[fd] /\ fdTable'[fd] \in Conn
  BY <1>1 DEF TablesInv, TableConsistent, TypeOK, SocketsTypeOK
<1>3. PICK c \in Conn : c = fdTable'[fd]
  BY <1>2
<1>4. c = clientMap[fd].clientAddr /\ c # NoConn
  BY <1>1, <1>2, <1>3, SocketsAssumption
<1>5. Len(clientMap[fd].sendQueue) = replies[c]
        \/ (peer[c] = "gone" /\ Len(clientMap[fd].sendQueue) = replies[c] + 1)
  BY <1>1, <1>4 DEF QueueIsOwn
<1>6. peer[c] = "gone" => peer'[c] = "gone"
  BY <1>3, <1>4
<1> QED
  BY <1>1, <1>4, <1>5, <1>6

\* A response is queued and sent, or queued and lost to a reset.
LEMMA QueueHandleRequest ==
  ASSUME TablesInv, TablesInv', QueueInv, HandleRequest
  PROVE  QueueInv'
<1>1. cur \in Clients /\ cur \in Fd /\ fdTable[cur] \in Conn
        /\ clientMap[cur].clientAddr = fdTable[cur]
  BY ClientConn DEF TablesInv, ReachesClients, TableConsistent, HandleRequest
<1>2. CASE UNCHANGED <<sockVars, clientMap>>
  BY <1>2 DEF QueueInv, OnePlace, Waiting, QueueIsOwn, Clients, sockVars
<1>3. CASE /\ clientMap' = [clientMap EXCEPT ![cur].sendQueue = Append(@, Response(pData, temp))]
           /\ Write(fdTable[cur])
  <2>1. PICK c \in Conn : c = fdTable[cur]
    BY <1>1
  <2>2. /\ UNCHANGED <<backlog, fdTable>>
        /\ \/ /\ peer[c] \in {"open", "fin"}
              /\ peer'[c] # "idle"
              /\ replies' = [replies EXCEPT ![c] = @ + 1]
           \/ /\ peer[c] = "reset" /\ peer'[c] = "gone"
              /\ UNCHANGED replies
        /\ \A x \in Conn : x # c => peer'[x] = peer[x] /\ replies'[x] = replies[x]
    BY <1>3, <2>1 DEF Write, TablesInv, TypeOK, SocketsTypeOK
  <2>3. ~Waiting(c)
    BY <1>1, <2>1, SocketsAssumption DEF QueueInv, OnePlace
  <2>4. OnePlace'
    <3>1. \A x \in Conn : peer'[x] = "idle" <=> peer[x] = "idle"
      BY <2>2
    <3>2. \A x \in Conn : Waiting(x) => replies'[x] = replies[x]
      BY <2>2, <2>3
    <3> QED
      BY <2>2, <3>1, <3>2, OnePlaceKept DEF QueueInv, TablesInv, TypeOK
  <2>5. \A fd \in Fd : fd # cur => clientMap'[fd] = clientMap[fd] /\ fdTable[fd] # c
    <3>1. \A fd \in Fd : fd # cur => fdTable[fd] # c
      BY <1>1, <2>1, SocketsAssumption DEF QueueInv, OnePlace
    <3> QED
      BY <1>3, <3>1 DEF TablesInv, TypeOK
  <2>6. /\ clientMap'[cur].clientAddr = c
        /\ Len(clientMap'[cur].sendQueue) = Len(clientMap[cur].sendQueue) + 1
        /\ Len(clientMap[cur].sendQueue) \in Nat
    <3> DEFINE q == Append(clientMap[cur].sendQueue, Response(pData, temp))
    <3>1. clientMap[cur] \in Client /\ clientMap \in [Fd -> Client \cup {NoClient}]
      BY <1>1 DEF TablesInv, TypeOK, Clients
    <3>2. Response(pData, temp) \in SendQueueItem
      BY DEF Response, SendQueueItem, Status
    <3>3. Len(q) = Len(clientMap[cur].sendQueue) + 1
            /\ Len(clientMap[cur].sendQueue) \in Nat
      BY <3>1, <3>2, AppendProperties DEF Client
    <3> HIDE DEF q
    <3>4. clientMap'[cur] = [clientMap[cur] EXCEPT !.sendQueue = q]
      BY <1>1, <1>3, <3>1 DEF q
    <3>5. clientMap'[cur].clientAddr = clientMap[cur].clientAddr
            /\ clientMap'[cur].sendQueue = q
      BY <3>1, <3>4 DEF Client
    <3> QED
      BY <1>1, <2>1, <3>3, <3>5
  <2>7. replies[c] \in Nat
    BY DEF TablesInv, TypeOK, SocketsTypeOK
  <2>8. QueueIsOwn'
    <3> SUFFICES ASSUME NEW fd \in Fd, clientMap'[fd] # NoClient
                 PROVE  LET x == clientMap'[fd].clientAddr
                            queued == Len(clientMap'[fd].sendQueue)
                        IN queued = replies'[x] \/ (peer'[x] = "gone" /\ queued = replies'[x] + 1)
      BY DEF QueueIsOwn, Clients
    <3>1. CASE fd = cur
      <4>1. Len(clientMap[cur].sendQueue) = replies[c]
        BY <1>1, <2>1, <2>2 DEF QueueInv, QueueIsOwn
      <4>2. \/ replies'[c] = replies[c] + 1
            \/ replies'[c] = replies[c] /\ peer'[c] = "gone"
        BY <2>2 DEF TablesInv, TypeOK, SocketsTypeOK
      <4> QED
        BY <2>6, <2>7, <3>1, <4>1, <4>2
    <3>2. CASE fd # cur
      <4>1. fd \in Clients /\ clientMap'[fd] = clientMap[fd] /\ fdTable[fd] # c
              /\ clientMap[fd].clientAddr = fdTable[fd] /\ fdTable[fd] \in Conn
        BY <2>5, <3>2, ClientConn DEF Clients, TablesInv, TableConsistent
      <4> QED
        BY <2>2, <4>1 DEF QueueInv, QueueIsOwn
    <3> QED
      BY <3>1, <3>2
  <2> QED
    BY <2>4, <2>8 DEF QueueInv
<1> QED
  BY <1>2, <1>3 DEF HandleRequest, AddToSendQueue

\* A new client starts with an empty queue, and nothing was sent to it before.
LEMMA QueueAcceptConnection ==
  ASSUME TablesInv, TablesInv', QueueInv, AcceptConnection
  PROVE  QueueInv'
<1>1. backlog # <<>>
  BY DEF AcceptConnection, TablesInv, ListenerPending
<1>2. CASE UNCHANGED <<sockVars, clientMap>>
  BY <1>2 DEF QueueInv, OnePlace, Waiting, QueueIsOwn, Clients, sockVars
<1>3. ASSUME NEW fd \in Fd, AcceptFd(fd), clientMap' = Inserted(fd, Head(backlog))
      PROVE  QueueInv'
  <2>1. OnePlace'
    BY <1>1, <1>3, OnePlaceAccept DEF QueueInv, TablesInv, TypeOK
  <2>2. PICK h \in Conn : h = Head(backlog) /\ h = backlog[1] /\ 1 \in DOMAIN backlog
    BY <1>1, SMTT(30) DEF TablesInv, TypeOK, SocketsTypeOK
  <2>3. replies[h] = 0 /\ UNCHANGED <<peer, replies>>
    BY <1>3, <2>2 DEF QueueInv, OnePlace, Waiting, AcceptFd
  <2>4. clientMap' = [clientMap EXCEPT ![fd] = NewClient(h)]
    <3>1. fdTable[fd] = NoConn
      BY <1>3 DEF AcceptFd, LowestFree, FreeFd
    <3> QED
      BY <1>3, <2>2, <3>1 DEF Inserted, TablesInv, TableConsistent
  <2>5. NewClient(h).clientAddr = h /\ Len(NewClient(h).sendQueue) = 0
    BY DEF NewClient
  <2>6. QueueIsOwn'
    <3> SUFFICES ASSUME NEW g \in Fd, clientMap'[g] # NoClient
                 PROVE  LET x == clientMap'[g].clientAddr
                            queued == Len(clientMap'[g].sendQueue)
                        IN queued = replies'[x] \/ (peer'[x] = "gone" /\ queued = replies'[x] + 1)
      BY DEF QueueIsOwn, Clients
    <3>1. CASE g = fd
      <4>1. clientMap'[g] = NewClient(h)
        BY <2>4, <3>1 DEF TablesInv, TypeOK
      <4> QED
        BY <2>3, <2>5, <4>1
    <3>2. CASE g # fd
      <4>1. clientMap'[g] = clientMap[g] /\ g \in Clients
        BY <2>4, <3>2 DEF TablesInv, TypeOK, Clients
      <4> QED
        BY <2>3, <4>1 DEF QueueInv, QueueIsOwn
    <3> QED
      BY <3>1, <3>2
  <2> QED
    BY <2>1, <2>6 DEF QueueInv
<1> QED
  BY <1>2, <1>3 DEF AcceptConnection, sockVars

\* Every step keeps the queues.
LEMMA QueueNext == TablesInv /\ TablesInv' /\ QueueInv /\ [Next]_vars => QueueInv'
<1> SUFFICES ASSUME TablesInv, TablesInv', QueueInv, [Next]_vars PROVE QueueInv'
  OBVIOUS
<1>0. SocketsTypeOK
  BY DEF TablesInv, TypeOK
<1>1. CASE HandleRequest
  BY <1>1, QueueHandleRequest
<1>2. CASE AcceptConnection
  BY <1>2, QueueAcceptConnection
<1>3. CASE \E fd \in Fd : DisconnectClient(fd)
  <2>1. PICK fd \in Fd : DisconnectClient(fd)
    BY <1>3
  <2>2. /\ fd \in Clients /\ fdTable[fd] \in Conn /\ fdTable[fd] # NoConn
        /\ peer' = [peer EXCEPT ![fdTable[fd]] = "closed"]
        /\ fdTable' = [fdTable EXCEPT ![fd] = NoConn]
        /\ clientMap' = [clientMap EXCEPT ![fd] = NoClient]
        /\ UNCHANGED <<backlog, replies>>
    BY <2>1, ClientConn, SocketsAssumption
       DEF DisconnectClient, CloseFd, Erased, ReachesClients, TablesInv
  <2>3. peer[fdTable[fd]] # "idle"
    BY <2>2 DEF QueueInv, OnePlace, Waiting
  <2>4. OnePlace'
    <3>1. \A c \in Conn : peer'[c] = "idle" <=> peer[c] = "idle"
      BY <1>0, <2>2, <2>3 DEF SocketsTypeOK
    <3>2. \A g \in Fd : fdTable'[g] \in {fdTable[g], NoConn}
      BY <1>0, <2>2 DEF SocketsTypeOK
    <3> QED
      BY <1>0, <2>2, <3>1, <3>2, OnePlaceKept DEF QueueInv
  <2>5. QueueIsOwn'
    <3>1. \A g \in Fd : clientMap'[g] \in {clientMap[g], NoClient}
      BY <2>2 DEF TablesInv, TypeOK
    <3>2. \A g \in Fd : fdTable'[g] # NoConn
                          => fdTable'[g] = fdTable[g] /\ fdTable[g] # fdTable[fd]
      BY <1>0, <2>2 DEF SocketsTypeOK, QueueInv, OnePlace
    <3>3. \A g \in Fd : fdTable'[g] # NoConn /\ peer[fdTable'[g]] = "gone"
                          => peer'[fdTable'[g]] = "gone"
      BY <1>0, <2>2, <3>2 DEF SocketsTypeOK
    <3> QED
      BY <2>2, <3>1, <3>3, QueuesKept DEF QueueInv
  <2> QED
    BY <2>4, <2>5 DEF QueueInv
<1>4. CASE RecvBody
  <2>1. /\ UNCHANGED <<backlog, replies, fdTable, clientMap>>
        /\ \A c \in Conn : \/ peer'[c] = peer[c]
                           \/ peer[c] = "reset" /\ peer'[c] = "gone"
    BY <1>0, <1>4, ClientConn DEF RecvBody, TakeAll, ReportError, HasError, sockVars, SocketsTypeOK,
         TablesInv, ReachesClients
  <2>2. OnePlace'
    BY <1>0, <2>1, OnePlaceKept DEF QueueInv
  <2>3. \A g \in Fd : fdTable'[g] # NoConn /\ peer[fdTable'[g]] = "gone"
                        => peer'[fdTable'[g]] = "gone"
    BY <1>0, <2>1 DEF SocketsTypeOK
  <2> QED
    BY <2>1, <2>2, <2>3, QueuesKept DEF QueueInv
<1>5. CASE Environment
  <2>1. PICK c \in Conn : Connect(c) \/ (\E x \in Item : PeerSend(c, x))
                            \/ PeerClose(c) \/ PeerReset(c)
    BY <1>5 DEF Environment, PeerStep
  <2>2. /\ UNCHANGED <<replies, fdTable, clientMap>>
        /\ \A x \in Conn : peer[x] = "gone" => peer'[x] = "gone"
    BY <1>0, <1>5, <2>1 DEF Environment, serverVars, Connect, PeerSend, PeerClose, PeerReset,
         SocketsTypeOK
  <2>3. OnePlace'
    <3>1. CASE Connect(c)
      BY <1>0, <3>1, OnePlaceConnect DEF QueueInv
    <3>2. CASE (\E x \in Item : PeerSend(c, x)) \/ PeerClose(c) \/ PeerReset(c)
      <4>1. UNCHANGED backlog /\ \A x \in Conn : peer'[x] = "idle" <=> peer[x] = "idle"
        BY <1>0, <3>2 DEF PeerSend, PeerClose, PeerReset, SocketsTypeOK
      <4> QED
        BY <1>0, <2>2, <4>1, OnePlaceKept DEF QueueInv
    <3> QED
      BY <2>1, <3>1, <3>2
  <2>4. \A g \in Fd : fdTable'[g] # NoConn /\ peer[fdTable'[g]] = "gone"
                        => peer'[fdTable'[g]] = "gone"
    BY <1>0, <2>2 DEF SocketsTypeOK
  <2> QED
    BY <2>2, <2>3, <2>4, QueuesKept DEF QueueInv
<1>6. CASE \/ \E fd \in Fd : ReadClient(fd)
           \/ Start \/ Select \/ SelectTimeout \/ SelectFails \/ Stop \/ HandlerDies
           \/ ReadDeleted \/ PassDone \/ Terminated \/ UNCHANGED vars
  <2>1. UNCHANGED <<peer, backlog, replies, fdTable, clientMap>>
    BY <1>6 DEF ReadClient, Receive, TakeAll, Start, Select, SelectTimeout, SelectFails, Stop,
         HandlerDies, ReadDeleted, PassDone, Terminated, vars, sockVars, serverVars
  <2> QED
    BY <2>1 DEF QueueInv, OnePlace, Waiting, QueueIsOwn, Clients
<1> QED
  BY <1>1, <1>2, <1>3, <1>4, <1>5, <1>6 DEF Next, ServerStep

\* No client inherits the queue of another one that had its descriptor before.
THEOREM QueuesAreOwn == Spec => []QueueIsOwn
<1>1. Init => QueueInv
  BY DEF Init, SocketsInit, QueueInv, OnePlace, Waiting, QueueIsOwn, Clients
<1>2. QueueInv => QueueIsOwn
  BY DEF QueueInv
<1> QED
  BY <1>1, <1>2, QueueNext, TablesInvariant, PTL DEF Spec
----------------------------------------------------------------------------
(* The refinement of ConnectionService. *)

\* A step of the service, or none.
ServiceStep == Promise!ServiceNext \/ UNCHANGED Promise!svars

AcceptedFds == {fd \in Fd : fdTable[fd] # NoConn}

\* The process has not ended, and does not end with this step.
LEMMA StaysUp ==
  ASSUME ~Dead, ~Dead'
  PROVE  (~Dead)' = (~Dead)
OBVIOUS

\* A step that changes nothing the service knows of.
LEMMA NoStep ==
  ASSUME ~Dead, ~Dead',
         UNCHANGED <<backlog, ServedConns, DroppedConns, BusyConn, replies>>
  PROVE  ServiceStep
BY StaysUp, Zenon DEF ServiceStep, Promise!svars

\* The end of the process: the service goes down.
LEMMA DownStep ==
  ASSUME ~Dead, Dead', BusyConn' = NoConn,
         UNCHANGED <<backlog, ServedConns, DroppedConns, replies>>
  PROVE  ServiceStep
<1>1. (~Dead)' = FALSE
  OBVIOUS
<1>2. Promise!GoDown
  BY <1>1, Zenon DEF Promise!GoDown
<1> QED
  BY <1>2, Zenon DEF ServiceStep, Promise!ServiceNext

\* What the service knows of the sockets, when descriptors and states stay.
LEMMA SocketsStay ==
  ASSUME UNCHANGED <<fdTable, peer>>
  PROVE  UNCHANGED <<ServedConns, DroppedConns>>
BY DEF ServedConns, DroppedConns

\* Only "closed" counts: a connection that is answered or fails is not dropped.
LEMMA NoneClosed ==
  ASSUME \A c \in Conn : peer'[c] = "closed" <=> peer[c] = "closed"
  PROVE  DroppedConns' = DroppedConns
BY DEF DroppedConns

\* The process is up in every state from which the thread goes on.
LEMMA UpWhile ==
  /\ pc \in {"start", "select", "scan", "dangling", "body", "handle", "stop"} => ~Dead
  /\ pc \notin {"body", "handle"} => BusyConn = NoConn
BY DEF Dead, BusyConn
----------------------------------------------------------------------------
\* The service begins with nobody.
LEMMA ServiceBegins == Init => Promise!ServiceInit
<1> SUFFICES ASSUME Init PROVE Promise!ServiceInit
  OBVIOUS
<1>1. backlog = <<>> /\ replies = [c \in Conn |-> 0]
  BY DEF Init, SocketsInit
<1>2. ServedConns = {}
  BY DEF Init, SocketsInit, ServedConns
<1>3. DroppedConns = {}
  BY DEF Init, SocketsInit, DroppedConns
<1>4. BusyConn = NoConn
  BY DEF Init, BusyConn
<1>5. (~Dead) = TRUE
  BY DEF Init, Dead
<1> QED
  BY <1>1, <1>2, <1>3, <1>4, <1>5, Zenon DEF Promise!ServiceInit

\* The loop itself: the service sees its end only.
LEMMA LoopStep ==
  ASSUME TablesInv,
         \/ Start \/ Select \/ SelectTimeout \/ SelectFails \/ Stop \/ PassDone
         \/ ReadDeleted /\ pc' # "crashed"
  PROVE  ServiceStep
<1>1. /\ UNCHANGED <<backlog, fdTable, peer, replies>>
      /\ pc \in {"start", "select", "scan", "dangling", "stop"}
      /\ pc' \in {"stop", "select", "scan", "stopped"}
  BY DEF Start, Select, SelectTimeout, SelectFails, Stop, PassDone, ReadDeleted, vars, sockVars, serverVars
<1>2. ~Dead /\ BusyConn = NoConn /\ BusyConn' = NoConn
  BY <1>1 DEF Dead, BusyConn
<1>3. UNCHANGED <<ServedConns, DroppedConns>>
  BY <1>1, SocketsStay
<1>4. CASE pc' = "stopped"
  BY <1>1, <1>2, <1>3, <1>4, DownStep DEF Dead
<1>5. CASE pc' # "stopped"
  BY <1>1, <1>2, <1>3, <1>5, NoStep DEF Dead
<1> QED
  BY <1>4, <1>5

\* readClient with data: the worker takes the connection, or the process ends.
LEMMA ReadStep ==
  ASSUME TablesInv, NEW fd \in Fd, ReadClient(fd)
  PROVE  ServiceStep
<1>1. fd \in Clients /\ fdTable[fd] \in Conn /\ fdTable[fd] # NoConn
  BY ClientConn, SocketsAssumption DEF TablesInv, ReachesClients, ReadClient
<1>2. /\ UNCHANGED <<backlog, fdTable, peer, replies>>
      /\ pc = "scan" /\ pc' \in {"body", "handle", "crashed"} /\ cur' = fd
  BY DEF ReadClient, Receive, TakeAll
<1>3. UNCHANGED <<ServedConns, DroppedConns>>
  BY <1>2, SocketsStay
<1>4. ~Dead /\ BusyConn = NoConn
  BY <1>2 DEF Dead, BusyConn
<1>5. CASE pc' = "crashed"
  <2>1. Dead' /\ BusyConn' = NoConn
    BY <1>5 DEF Dead, BusyConn
  <2> QED
    BY <1>2, <1>3, <1>4, <2>1, DownStep
<1>6. CASE pc' # "crashed"
  <2>1. ~Dead' /\ BusyConn' = fdTable[fd]
    BY <1>2, <1>6 DEF Dead, BusyConn
  <2>2. fdTable[fd] \in ServedConns
    BY <1>1 DEF ServedConns
  <2>3. (~Dead)' = (~Dead)
    BY <1>4, <2>1, StaysUp
  <2>4. backlog' = backlog /\ replies' = replies
    BY <1>2
  <2>5. Promise!Take(fdTable[fd])
    BY <1>3, <1>4, <2>1, <2>2, <2>3, <2>4, Zenon DEF Promise!Take
  <2> QED
    BY <1>1, <1>4, <2>5, Zenon DEF ServiceStep, Promise!ServiceNext
<1> QED
  BY <1>5, <1>6

\* disconnectClient drops a connection, which no other descriptor refers to.
LEMMA DropStep ==
  ASSUME TablesInv, OnePlace, NEW fd \in Fd, DisconnectClient(fd)
  PROVE  ServiceStep
<1> DEFINE c == fdTable[fd]
<1>1. fd \in Clients /\ c \in Conn /\ c # NoConn
  BY ClientConn, SocketsAssumption DEF TablesInv, ReachesClients, DisconnectClient
<1>2. /\ peer' = [peer EXCEPT ![c] = "closed"]
      /\ fdTable' = [fdTable EXCEPT ![fd] = NoConn]
      /\ UNCHANGED <<backlog, replies>>
      /\ pc = "scan" /\ pc' \in {"scan", "dangling", "crashed"}
  BY DEF DisconnectClient, CloseFd, AfterErase
<1>3. fdTable \in [Fd -> Conn \cup {NoConn}] /\ peer \in [Conn -> PeerState]
  BY DEF TablesInv, TypeOK, SocketsTypeOK
<1>4. ServedConns' = ServedConns \ {c} /\ c \in ServedConns
  <2>1. \A g \in Fd : fdTable'[g] = IF g = fd THEN NoConn ELSE fdTable[g]
    BY <1>2, <1>3
  <2>2. \A g \in Fd : g # fd => fdTable[g] # c
    BY <1>1 DEF OnePlace
  <2> QED
    BY <1>1, <2>1, <2>2 DEF ServedConns
<1>5. DroppedConns' = DroppedConns \cup {c}
  BY <1>1, <1>2, <1>3 DEF DroppedConns
<1>6. ~Dead /\ BusyConn = NoConn /\ BusyConn' = NoConn
  BY <1>2 DEF Dead, BusyConn
<1>7. (~Dead)' \in BOOLEAN
  OBVIOUS
<1>8. backlog' = backlog /\ replies' = replies /\ BusyConn' = BusyConn
  BY <1>2, <1>6
<1> HIDE DEF c
<1>9. Promise!Drop(c)
  BY <1>4, <1>5, <1>6, <1>7, <1>8, Zenon DEF Promise!Drop
<1> QED
  BY <1>1, <1>6, <1>9, Zenon DEF ServiceStep, Promise!ServiceNext

\* A turn of the upload loop is inside the work on one request.
LEMMA UploadStep ==
  ASSUME TablesInv, RecvBody
  PROVE  ServiceStep
<1>1. fdTable[cur] \in Conn
  BY ClientConn DEF TablesInv, ReachesClients, RecvBody
<1>2. /\ UNCHANGED <<backlog, fdTable, replies, cur>>
      /\ pc = "body" /\ pc' \in {"body", "handle"}
      /\ peer' = peer \/ (peer[fdTable[cur]] = "reset"
                           /\ peer' = [peer EXCEPT ![fdTable[cur]] = "gone"])
  BY DEF RecvBody, BodyRead, TakeAll, ReportError, HasError, sockVars
<1>3. DroppedConns' = DroppedConns
  BY <1>1, <1>2, NoneClosed DEF TablesInv, TypeOK, SocketsTypeOK
<1>4. ServedConns' = ServedConns
  BY <1>2 DEF ServedConns
<1>5. ~Dead /\ ~Dead' /\ BusyConn' = BusyConn
  BY <1>2 DEF Dead, BusyConn
<1> QED
  BY <1>2, <1>3, <1>4, <1>5, NoStep

\* The handler answers the connection it works for, and no other, or nobody.
LEMMA FinishStep ==
  ASSUME TablesInv, HandleRequest
  PROVE  ServiceStep
<1> DEFINE c == fdTable[cur]
<1>1. c \in Conn /\ c # NoConn
  BY ClientConn, SocketsAssumption DEF TablesInv, ReachesClients, HandleRequest
<1>2. /\ UNCHANGED <<backlog, fdTable>>
      /\ pc = "handle" /\ pc' = "scan"
      /\ replies' = replies \/ replies' = [replies EXCEPT ![c] = @ + 1]
      /\ peer' = peer \/ \E s \in {"broken", "gone"} :
                           peer[c] \in {"fin", "reset"} /\ peer' = [peer EXCEPT ![c] = s]
  BY DEF HandleRequest, ReadDone, Write, sockVars
<1>3. DroppedConns' = DroppedConns
  BY <1>1, <1>2, NoneClosed DEF TablesInv, TypeOK, SocketsTypeOK
<1>4. ServedConns' = ServedConns
  BY <1>2 DEF ServedConns
<1>5. ~Dead /\ ~Dead' /\ BusyConn = c /\ BusyConn' = NoConn
  BY <1>2 DEF Dead, BusyConn
<1>6. (~Dead)' = (~Dead)
  BY <1>5, StaysUp
<1>7. backlog' = backlog
      /\ (replies' = [replies EXCEPT ![BusyConn] = @ + 1] \/ replies' = replies)
  BY <1>2, <1>5
<1>8. BusyConn # NoConn
  BY <1>1, <1>5
<1>9. Promise!Finish
  BY <1>3, <1>4, <1>5, <1>6, <1>7, <1>8, Zenon DEF Promise!Finish
<1> QED
  BY <1>5, <1>9, Zenon DEF ServiceStep, Promise!ServiceNext

\* The process dies in a handler, or with a deleted client.
LEMMA DieStep ==
  ASSUME TablesInv, HandlerDies \/ ReadDeleted, pc' = "crashed"
  PROVE  ServiceStep
<1>1. /\ UNCHANGED <<backlog, fdTable, peer, replies>>
      /\ pc \in {"dangling", "handle"} /\ pc' = "crashed"
  BY DEF HandlerDies, ReadDeleted, sockVars
<1>2. ~Dead /\ Dead' /\ BusyConn' = NoConn
  BY <1>1 DEF Dead, BusyConn
<1> QED
  BY <1>1, <1>2, SocketsStay, DownStep

\* With a free descriptor fewer connections are served than there are descriptors.
LEMMA RoomLeft ==
  ASSUME TablesInv, NEW fd \in Fd, fdTable[fd] = NoConn
  PROVE  Cardinality(ServedConns) < MaxFd
<1>1. IsFiniteSet(Fd) /\ Cardinality(Fd) = MaxFd
  BY FS_Interval, SocketsAssumption DEF Fd
<1>2. IsFiniteSet(Fd \ {fd}) /\ Cardinality(Fd \ {fd}) = MaxFd - 1
  BY <1>1, FS_RemoveElement
<1>3. AcceptedFds \in SUBSET (Fd \ {fd})
  BY DEF AcceptedFds
<1>4. IsFiniteSet(AcceptedFds) /\ Cardinality(AcceptedFds) <= MaxFd - 1
  BY <1>2, <1>3, FS_Subset
<1> DEFINE f == [g \in AcceptedFds |-> fdTable[g]]
<1>5. f \in Surjection(AcceptedFds, ServedConns)
  BY DEF Surjection, ServedConns, AcceptedFds
<1>6. IsFiniteSet(ServedConns) /\ Cardinality(ServedConns) <= Cardinality(AcceptedFds)
  BY <1>4, <1>5, FS_Surjection
<1>7. Cardinality(ServedConns) \in Nat /\ Cardinality(AcceptedFds) \in Nat
  BY <1>4, <1>6, FS_CardinalityType
<1> QED
  BY <1>4, <1>6, <1>7, SocketsAssumption

\* acceptConnection admits the first of the queue, while a descriptor is free.
LEMMA AdmitStep ==
  ASSUME TablesInv, AcceptConnection
  PROVE  ServiceStep
<1>1. /\ pc = "scan" /\ pc' = "select" /\ backlog # <<>>
  BY DEF AcceptConnection, TablesInv, ListenerPending
<1>2. ~Dead /\ ~Dead' /\ BusyConn = NoConn /\ BusyConn' = NoConn
  BY <1>1 DEF Dead, BusyConn
<1>3. CASE UNCHANGED sockVars
  <2>1. UNCHANGED <<backlog, fdTable, peer, replies>>
    BY <1>3 DEF sockVars
  <2> QED
    BY <1>2, <2>1, SocketsStay, NoStep
<1>4. ASSUME NEW fd \in Fd, AcceptFd(fd) PROVE ServiceStep
  <2>1. /\ fdTable[fd] = NoConn /\ Head(backlog) \in Conn
        /\ fdTable' = [fdTable EXCEPT ![fd] = Head(backlog)]
        /\ backlog' = Tail(backlog) /\ UNCHANGED <<peer, replies>>
    BY <1>1, <1>4, AcceptType DEF AcceptFd, TablesInv, TypeOK
  <2>2. Head(backlog) # NoConn
    BY <2>1, SocketsAssumption
  <2>3. ServedConns' = ServedConns \cup {Head(backlog)}
    <3>1. \A g \in Fd : fdTable'[g] = IF g = fd THEN Head(backlog) ELSE fdTable[g]
      BY <2>1 DEF TablesInv, TypeOK, SocketsTypeOK
    <3> QED
      BY <2>1, <2>2, <3>1 DEF ServedConns
  <2>4. DroppedConns' = DroppedConns
    BY <2>1 DEF DroppedConns
  <2>5. Promise!Cardinality(ServedConns) < MaxFd
    <3>1. Promise!Cardinality(ServedConns) = Cardinality(ServedConns)
      BY Zenon DEF Promise!Cardinality, Cardinality
    <3> QED
      BY <2>1, <3>1, RoomLeft
  <2>6. (~Dead)' = (~Dead)
    BY <1>2, StaysUp
  <2>7. backlog' = Tail(backlog) /\ replies' = replies /\ BusyConn' = BusyConn
    BY <1>2, <2>1
  <2>8. Promise!Admit
    BY <1>1, <1>2, <2>3, <2>4, <2>5, <2>6, <2>7, Zenon DEF Promise!Admit
  <2> QED
    BY <1>2, <2>8, Zenon DEF ServiceStep, Promise!ServiceNext
<1> QED
  BY <1>3, <1>4 DEF AcceptConnection

\* A peer connects and waits, or does what the service does not see.
LEMMA PeerStepMaps ==
  ASSUME TablesInv, OnePlace, Environment
  PROVE  ServiceStep
<1>1. PICK c \in Conn : Connect(c) \/ (\E x \in Item : PeerSend(c, x))
                          \/ PeerClose(c) \/ PeerReset(c)
  BY DEF Environment, PeerStep
<1>2. ~Dead /\ ~Dead' /\ BusyConn' = BusyConn /\ ServedConns' = ServedConns
      /\ replies' = replies
  BY <1>1 DEF Environment, serverVars, Dead, BusyConn, ServedConns, Connect, PeerSend,
              PeerClose, PeerReset
<1>3. peer \in [Conn -> PeerState] /\ fdTable \in [Fd -> Conn \cup {NoConn}]
  BY DEF TablesInv, TypeOK, SocketsTypeOK
<1>4. CASE Connect(c)
  <2>1. peer[c] = "idle" /\ peer' = [peer EXCEPT ![c] = "open"]
        /\ backlog' = Append(backlog, c)
    BY <1>4 DEF Connect
  <2>2. DroppedConns' = DroppedConns /\ c \notin DroppedConns
    BY <1>3, <2>1 DEF DroppedConns
  <2>3. c \notin ServedConns
    BY <1>3, <2>1 DEF ServedConns, OnePlace, Waiting
  <2>4. c \notin Promise!Waiting
    BY <2>1 DEF Promise!Waiting, OnePlace
  <2>5. (~Dead)' = (~Dead)
    BY <1>2, StaysUp
  <2>6. Promise!Arrive(c)
    BY <1>2, <2>1, <2>2, <2>3, <2>4, <2>5, Zenon DEF Promise!Arrive
  <2> QED
    BY <1>2, <2>6, Zenon DEF ServiceStep, Promise!ServiceNext
<1>5. CASE (\E x \in Item : PeerSend(c, x)) \/ PeerClose(c) \/ PeerReset(c)
  <2>1. backlog' = backlog /\ \A x \in Conn : peer'[x] = "closed" <=> peer[x] = "closed"
    BY <1>3, <1>5 DEF PeerSend, PeerClose, PeerReset
  <2> QED
    BY <1>2, <2>1, NoneClosed, NoStep
<1> QED
  BY <1>1, <1>4, <1>5

\* Nothing changes, or the process has ended.
LEMMA StutterStep ==
  ASSUME UNCHANGED vars
  PROVE  ServiceStep
<1>1. UNCHANGED <<backlog, fdTable, peer, replies, pc, cur>>
  BY DEF vars, sockVars, serverVars
<1>2. UNCHANGED <<ServedConns, DroppedConns>>
  BY <1>1, SocketsStay
<1>3. BusyConn' = BusyConn
  BY <1>1 DEF BusyConn
<1>4. (~Dead)' = (~Dead)
  BY <1>1 DEF Dead
<1> QED
  BY <1>1, <1>2, <1>3, <1>4, Zenon DEF ServiceStep, Promise!svars

\* Every step is a step of the service, or none.
LEMMA StepMaps ==
  TablesInv /\ OnePlace /\ [Next]_vars => [Promise!ServiceNext]_(Promise!svars)
<1> SUFFICES ASSUME TablesInv, OnePlace, [Next]_vars PROVE ServiceStep
  BY DEF ServiceStep
<1>1. CASE \E fd \in Fd : ReadClient(fd)
  BY <1>1, ReadStep
<1>2. CASE \E fd \in Fd : DisconnectClient(fd)
  BY <1>2, DropStep
<1>3. CASE RecvBody
  BY <1>3, UploadStep
<1>4. CASE HandleRequest
  BY <1>4, FinishStep
<1>5. CASE (HandlerDies \/ ReadDeleted) /\ pc' = "crashed"
  BY <1>5, DieStep
<1>6. CASE AcceptConnection
  BY <1>6, AdmitStep
<1>7. CASE Environment
  BY <1>7, PeerStepMaps
<1>8. CASE \/ Start \/ Select \/ SelectTimeout \/ SelectFails \/ Stop \/ PassDone
           \/ ReadDeleted /\ pc' # "crashed"
  BY <1>8, LoopStep
<1>9. CASE Terminated \/ UNCHANGED vars
  BY <1>9, StutterStep DEF Terminated
<1> QED
  BY <1>1, <1>2, <1>3, <1>4, <1>5, <1>6, <1>7, <1>8, <1>9 DEF Next, ServerStep, HandlerDies

\* The tables of the event loop behave as one queue, one set of at most MaxFd
\* served connections and one worker, whatever the order of the peers' steps.
THEOREM ServerImplementsService == Spec => ImplementsService
<1>1. Init => QueueInv
  BY DEF Init, SocketsInit, QueueInv, OnePlace, Waiting, QueueIsOwn, Clients
<1>2. QueueInv => OnePlace
  BY DEF QueueInv
<1> QED
  BY <1>1, <1>2, QueueNext, TablesInvariant, ServiceBegins, StepMaps, PTL
  DEF Spec, ImplementsService, Promise!Service
=============================================================================
