---------------------------- MODULE UploadProofs ----------------------------
(***************************************************************************)
(* Proofs about the C programs.  UploadServer: the slots, the count, the   *)
(* watched set and the descriptor table agree for every number of          *)
(* connections, descriptors and slots, and the count of clients never      *)
(* leaves the table it indexes; a client that is alone is scanned, read    *)
(* and answered as it should be.  UploadClient: a post that is answered is *)
(* saved, whatever became of the posts before it.  SendInfo: the headers   *)
(* that a line names are those of its post.                                *)
(***************************************************************************)
EXTENDS UploadClient, SendInfo, SocketsProofs, FiniteSetTheorems, WellFoundedInduction

USE DEF ListenFd, Hole

\* The slot whose client is served has a client, and is below the count.
SlotServed ==
  pc \in {"continue", "upload", "respond"} => i < clientCount /\ client[i] # Hole

\* Nobody else takes the connection from the backlog that select has seen.
ListenerPending ==
  pc \in {"scan", "continue", "upload", "respond"} /\ ListenFd \in tempSet
    => backlog # <<>>

UploadInv ==
  /\ UploadTypeOK
  /\ SlotsConsistent
  /\ SlotServed
  /\ ListenerPending

OpenFds == {fd \in Fd : IsOpen(fd)}
----------------------------------------------------------------------------
\* Numbers have a least one.
LEMMA LeastNumber ==
  ASSUME NEW S, S \subseteq Nat, S # {}
  PROVE  \E n \in S : \A m \in S : n <= m
<1> DEFINE Less == OpToRel(<, Nat)
<1>1. \A m, n \in Nat : m < n => <<m, n>> \in Less
  BY DEF OpToRel
<1>2. IsWellFoundedOn(Less, Nat)
  BY NatLessThanWellFounded
<1> HIDE DEF Less
<1>3. PICK n \in S : \A m \in S : <<m, n>> \notin Less
  BY <1>2, WFMin
<1>4. \A m \in S : m \in Nat /\ ~(m < n)
  BY <1>1, <1>3
<1> QED
  BY <1>3, <1>4

\* The first head of what was received is a request.
LEMMA FirstHeadType ==
  ASSUME NEW d \in Seq(Item), Heads(d) # {}
  PROVE  FirstHead(d) \in Request
<1>1. Heads(d) \in SUBSET Nat
  BY DEF Heads
<1>2. PICK n \in Heads(d) : \A m \in Heads(d) : n <= m
  BY <1>1, LeastNumber
<1>3. \A k \in Heads(d) : d[k] \in Request
  BY DEF Heads, Item
<1> QED
  BY <1>2, <1>3 DEF FirstHead

\* A slot that select reported has an open descriptor.
LEMMA ReadyOpen ==
  ASSUME UploadInv, NEW j \in ReadySlots
  PROVE  /\ j \in SlotNo /\ j < clientCount /\ clientCount <= MaxFd
         /\ client[j] \in Fd /\ client[j] # Hole
         /\ fdTable[client[j]] \in Conn
         /\ IsOpen(client[j])
<1>1. /\ i \in Nat /\ clientCount \in Nat /\ clientCount <= MaxFd
      /\ j \in i..(clientCount - 1) /\ client[j] \in tempSet
  BY SocketsAssumption DEF UploadInv, UploadTypeOK, SlotNo, ReadySlots
<1>2. j \in SlotNo /\ j < clientCount
  BY <1>1, SocketsAssumption DEF SlotNo
<1>3. client[j] \in Fd /\ client[j] # Hole
  <2>1. client[j] \in Fd \cup {Hole} /\ client[j] \in Fd \cup {ListenFd}
    BY <1>1, <1>2 DEF UploadInv, UploadTypeOK
  <2> QED
    BY <2>1 DEF Fd
<1>4. IsOpen(client[j])
  BY <1>2, <1>3 DEF UploadInv, SlotsConsistent
<1>5. fdTable[client[j]] \in Conn
  BY <1>3, <1>4 DEF UploadInv, UploadTypeOK, SocketsTypeOK, IsOpen
<1> QED
  BY <1>1, <1>2, <1>3, <1>4, <1>5

\* The descriptors that recv uses are of connections when they are open.
LEMMA SourceConn ==
  ASSUME UploadInv, IsOpen(Source)
  PROVE  fdTable[Source] \in Conn /\ inbox[fdTable[Source]] \in Seq(Item)
BY DEF UploadInv, UploadTypeOK, SocketsTypeOK, IsOpen

\* The client that is served has a connection.
LEMMA ServedConn ==
  ASSUME UploadInv, pc \in {"continue", "upload", "respond"}
  PROVE  Slot \in Conn /\ i \in Nat /\ i < clientCount /\ clientCount \in 0..MaxFd
<1>1. i \in SlotNo /\ clientCount \in SlotNo /\ i < clientCount /\ client[i] # Hole
  BY DEF UploadInv, UploadTypeOK, SlotServed
<1>2. IsOpen(client[i])
  BY <1>1 DEF UploadInv, SlotsConsistent
<1>3. fdTable[client[i]] \in Conn
  BY <1>2 DEF UploadInv, UploadTypeOK, SocketsTypeOK, IsOpen
<1> QED
  BY <1>1, <1>3, SocketsAssumption DEF Slot, SlotNo

\* What recv reports keeps the states of the connections.
LEMMA ReportedType ==
  ASSUME UploadInv
  PROVE  Reported \in [Conn -> PeerState]
BY DEF Reported, UploadInv, UploadTypeOK, SocketsTypeOK, PeerState

\* The tables that SlotsConsistent is about do not change.
LEMMA SlotsQuiet ==
  ASSUME SlotsConsistent, UNCHANGED <<fdTable, readFd, client, clientCount>>
  PROVE  SlotsConsistent'
BY DEF SlotsConsistent, IsOpen
----------------------------------------------------------------------------
\* A client is closed: its slot, its place in the watched set, its descriptor
\* and one of the count go together.
LEMMA CloseKeepsSlots ==
  ASSUME UploadInv, CloseSlot
  PROVE  SlotsConsistent' /\ clientCount' \in SlotNo
<1>1. PICK j \in ReadySlots :
        /\ fdTable' = [fdTable EXCEPT ![client[j]] = NoConn]
        /\ readFd' = readFd \ {client[j]}
        /\ client' = [client EXCEPT ![j] = Hole]
        /\ clientCount' = clientCount - 1
  BY DEF CloseSlot, Discounted
<1>2. /\ j \in SlotNo /\ j < clientCount /\ clientCount <= MaxFd
      /\ client[j] \in Fd /\ client[j] # Hole /\ IsOpen(client[j])
  BY ReadyOpen
<1> DEFINE gone == client[j]
<1>3. /\ fdTable \in [Fd -> Conn \cup {NoConn}] /\ client \in [SlotNo -> Fd \cup {Hole}]
      /\ clientCount \in Nat
  BY DEF UploadInv, UploadTypeOK, SocketsTypeOK, SlotNo
<1>4. \A fd \in Fd : IsOpen(fd)' <=> IsOpen(fd) /\ fd # gone
  BY <1>1, <1>2, <1>3 DEF IsOpen
<1>5. (\A fd \in Fd : fd \in readFd <=> IsOpen(fd))'
  BY <1>1, <1>4 DEF UploadInv, SlotsConsistent
<1>6. clientCount' = Cardinality(OpenFds')
  <2>1. OpenFds' = OpenFds \ {gone}
    BY <1>4 DEF OpenFds
  <2>2. IsFiniteSet(OpenFds) /\ clientCount = Cardinality(OpenFds)
    <3>1. IsFiniteSet(Fd)
      BY FS_Interval, SocketsAssumption DEF Fd
    <3> QED
      BY <3>1, FS_Subset DEF OpenFds, UploadInv, SlotsConsistent
  <2>3. gone \in OpenFds
    BY <1>2 DEF OpenFds
  <2> QED
    BY <1>1, <2>1, <2>2, <2>3, FS_RemoveElement
<1>7. (\A k \in SlotNo :
         client[k] # Hole =>
           /\ IsOpen(client[k])
           /\ \A m \in SlotNo : client[m] = client[k] => m = k)'
  <2>1. \A k \in SlotNo : client'[k] = IF k = j THEN Hole ELSE client[k]
    BY <1>1, <1>2, <1>3
  <2> SUFFICES ASSUME NEW k \in SlotNo, client'[k] # Hole
               PROVE  /\ client'[k] \in Fd /\ fdTable'[client'[k]] # NoConn
                      /\ \A m \in SlotNo : client'[m] = client'[k] => m = k
    BY DEF IsOpen
  <2>2. k # j /\ client'[k] = client[k] /\ client[k] # Hole
    BY <2>1
  <2>3. client[k] # gone /\ IsOpen(client[k]) /\ client[k] \in Fd
    BY <1>2, <1>3, <2>2 DEF UploadInv, SlotsConsistent
  <2>4. \A m \in SlotNo : client'[m] = client'[k] => m = k
    BY <2>1, <2>2 DEF UploadInv, SlotsConsistent
  <2>5. client[k] \in Fd /\ fdTable'[client[k]] # NoConn
    BY <1>4, <2>3 DEF IsOpen
  <2> QED
    BY <2>2, <2>4, <2>5
<1>8. clientCount' \in SlotNo
  BY <1>1, <1>2, <1>3, SocketsAssumption DEF SlotNo
<1> QED
  BY <1>5, <1>6, <1>7, <1>8 DEF SlotsConsistent, OpenFds

\* A client is accepted: whatever was in its slot, it is the only one with its
\* descriptor, and the descriptors leave room in the table.
LEMMA AcceptKeepsSlots ==
  ASSUME UploadInv, NEW fd \in Fd, AcceptFd(fd), backlog # <<>>,
         client' = [client EXCEPT ![SlotFor(clientCount)] = fd],
         clientCount' = clientCount + 1,
         readFd' = readFd \cup {fd}
  PROVE  SlotsConsistent' /\ clientCount' \in SlotNo
<1>1. /\ fdTable \in [Fd -> Conn \cup {NoConn}] /\ client \in [SlotNo -> Fd \cup {Hole}]
      /\ clientCount \in Nat /\ clientCount \in SlotNo /\ SocketsTypeOK
  BY DEF UploadInv, UploadTypeOK, SocketsTypeOK, SlotNo
<1>2. /\ fdTable[fd] = NoConn /\ Head(backlog) \in Conn
      /\ fdTable' = [fdTable EXCEPT ![fd] = Head(backlog)]
  BY <1>1, AcceptType
<1>3. fd # Hole
  BY DEF Fd
<1>4. \A g \in Fd : IsOpen(g)' <=> IsOpen(g) \/ g = fd
  BY <1>1, <1>2, SocketsAssumption DEF IsOpen
<1>5. (\A g \in Fd : g \in readFd <=> IsOpen(g))'
  BY <1>4 DEF UploadInv, SlotsConsistent
<1>6. clientCount' = Cardinality(OpenFds') /\ clientCount' \in SlotNo
  <2>1. OpenFds' = OpenFds \cup {fd}
    BY <1>4 DEF OpenFds
  <2>2. IsFiniteSet(Fd) /\ Cardinality(Fd) = MaxFd
    BY FS_Interval, SocketsAssumption DEF Fd
  <2>3. IsFiniteSet(OpenFds) /\ clientCount = Cardinality(OpenFds)
    BY <2>2, FS_Subset DEF OpenFds, UploadInv, SlotsConsistent
  <2>4. fd \notin OpenFds
    BY <1>2 DEF OpenFds, IsOpen
  <2>5. clientCount' = Cardinality(OpenFds')
    BY <2>1, <2>3, <2>4, FS_AddElement
  <2>6. OpenFds' \in SUBSET Fd
    BY DEF OpenFds
  <2>7. Cardinality(OpenFds') <= MaxFd
    BY <2>2, <2>6, FS_Subset
  <2> QED
    BY <1>1, <2>5, <2>7, SocketsAssumption DEF SlotNo
<1>7. (\A k \in SlotNo :
         client[k] # Hole =>
           /\ IsOpen(client[k])
           /\ \A m \in SlotNo : client[m] = client[k] => m = k)'
  <2>1. \A k \in SlotNo : client'[k] = IF k = clientCount THEN fd ELSE client[k]
    BY <1>1 DEF SlotFor
  <2>2. \A k \in SlotNo : client[k] # fd
    BY <1>2, <1>3 DEF UploadInv, SlotsConsistent, IsOpen
  <2> SUFFICES ASSUME NEW k \in SlotNo, client'[k] # Hole
               PROVE  /\ client'[k] \in Fd /\ fdTable'[client'[k]] # NoConn
                      /\ \A m \in SlotNo : client'[m] = client'[k] => m = k
    BY DEF IsOpen
  <2>3. \A m \in SlotNo : client'[m] = client'[k] => m = k
    BY <2>1, <2>2 DEF UploadInv, SlotsConsistent
  <2>4. client'[k] \in Fd /\ (client'[k] = fd \/ IsOpen(client'[k]))
    BY <1>1, <2>1 DEF UploadInv, SlotsConsistent
  <2>5. fdTable'[client'[k]] # NoConn
    BY <1>4, <2>4 DEF IsOpen
  <2> QED
    BY <2>3, <2>4, <2>5
<1> QED
  BY <1>5, <1>6, <1>7 DEF SlotsConsistent, OpenFds
----------------------------------------------------------------------------
\* The server starts with no client.
LEMMA UploadInit == Init => UploadInv
<1> SUFFICES ASSUME Init PROVE UploadInv
  OBVIOUS
<1>1. SocketsTypeOK
  <2>1. <<>> \in Seq(Item) /\ <<>> \in Seq(Conn)
    OBVIOUS
  <2> QED
    BY <2>1 DEF Init, SocketsInit, SocketsTypeOK, PeerState
<1>2. \A fd \in Fd : ~IsOpen(fd) /\ fd # ListenFd
  BY DEF Init, SocketsInit, IsOpen, Fd
<1>3. UploadTypeOK
  <2>1. <<>> \in Seq(Conn) /\ 0 \in SlotNo
    BY SocketsAssumption DEF SlotNo
  <2>2. client \in [SlotNo -> Fd \cup {Hole}]
    BY DEF Init
  <2> QED
    BY <1>1, <2>1, <2>2 DEF Init, UploadTypeOK, PcValues
<1>4. SlotsConsistent
  <2>1. {fd \in Fd : IsOpen(fd)} = {}
    BY <1>2
  <2>2. Cardinality({}) = 0
    BY FS_EmptySet
  <2>3. readFd = {ListenFd} /\ clientCount = 0 /\ \A j \in SlotNo : client[j] = Hole
    BY DEF Init
  <2>4. clientCount = Cardinality({fd \in Fd : IsOpen(fd)})
    BY <2>1, <2>2, <2>3, Zenon
  <2>5. \A fd \in Fd : fd \in readFd <=> IsOpen(fd)
    BY <1>2, <2>3
  <2> QED
    BY <2>3, <2>4, <2>5 DEF SlotsConsistent
<1>5. SlotServed /\ ListenerPending
  BY DEF Init, SlotServed, ListenerPending
<1> QED
  BY <1>3, <1>4, <1>5 DEF UploadInv

\* What the peers do keeps the invariant: they have no part in the server's tables.
LEMMA PeersKeep ==
  ASSUME UploadInv, PeerStep, UNCHANGED serverVars, alone' \in BOOLEAN
  PROVE  UploadInv'
<1>1. /\ SocketsTypeOK' /\ fdTable' = fdTable
      /\ backlog # <<>> => backlog' # <<>>
  BY PeerStepType DEF UploadInv, UploadTypeOK
<1>2. UploadTypeOK'
  BY <1>1 DEF UploadInv, UploadTypeOK, serverVars, loopVars, requestVars
<1>3. SlotsConsistent'
  BY <1>1, SlotsQuiet DEF UploadInv, serverVars, loopVars
<1>4. SlotServed' /\ ListenerPending'
  BY <1>1 DEF UploadInv, SlotServed, ListenerPending, serverVars, loopVars
<1> QED
  BY <1>2, <1>3, <1>4 DEF UploadInv

\* A step that leaves the tables of descriptors and slots alone keeps the invariant
\* if it keeps the types and the two facts about where the server is.
LEMMA QuietKeeps ==
  ASSUME UploadInv, UNCHANGED loopVars, UNCHANGED <<alone, fdTable, backlog>>,
         SocketsTypeOK', pc' \in PcValues, i' \in SlotNo,
         res' \in Request \cup {NoRequest}, totalLen' \in Nat, file' \in Seq(Conn),
         SlotServed', ListenerPending'
  PROVE  UploadInv'
<1>1. UploadTypeOK'
  BY DEF UploadInv, UploadTypeOK, loopVars
<1>2. SlotsConsistent'
  BY SlotsQuiet DEF UploadInv, loopVars
<1> QED
  BY <1>1, <1>2 DEF UploadInv

\* Nothing is served any more: the process has ended.
LEMMA EndKeeps ==
  ASSUME UploadInv, pc' \in {"exited", "crashed"}, UNCHANGED loopVars, UNCHANGED alone,
         UNCHANGED <<sockVars, i, requestVars>>
  PROVE  UploadInv'
BY SlotsQuiet DEF UploadInv, UploadTypeOK, SlotServed, ListenerPending, loopVars,
   requestVars, sockVars, SocketsTypeOK, PcValues

\* select reports what is ready, the listening socket only when somebody waits.
LEMMA SelectKeeps ==
  ASSUME UploadInv, Select, UNCHANGED alone
  PROVE  UploadInv'
<1>1. tempSet' \in SUBSET (Fd \cup {ListenFd}) /\ (ListenFd \in tempSet' => backlog # <<>>)
  BY DEF Select, Ready, UploadInv, UploadTypeOK
<1>2. 0 \in SlotNo
  BY SocketsAssumption DEF SlotNo
<1>3. UploadTypeOK'
  BY <1>1, <1>2 DEF Select, UploadInv, UploadTypeOK, SocketsTypeOK, sockVars, requestVars, PcValues
<1>4. SlotsConsistent'
  BY SlotsQuiet DEF Select, UploadInv, sockVars
<1>5. SlotServed' /\ ListenerPending'
  BY <1>1 DEF Select, SlotServed, ListenerPending, sockVars
<1> QED
  BY <1>3, <1>4, <1>5 DEF UploadInv

\* The head is read on behalf of a slot that select reported.
LEMMA RecvHeadKeeps ==
  ASSUME UploadInv, RecvHead, UNCHANGED alone
  PROVE  UploadInv'
<1>1. IsOpen(Source) /\ pc = "scan"
  BY DEF RecvHead, RecvData
<1>2. /\ fdTable[Source] \in Conn /\ inbox[fdTable[Source]] \in Seq(Item)
  BY <1>1, SourceConn
<1>3. SocketsTypeOK' /\ UNCHANGED <<fdTable, backlog>>
  BY <1>2, CallType DEF RecvHead, UploadInv, UploadTypeOK
<1>4. PICK j \in ReadySlots : i' = j
  BY DEF RecvHead
<1>5. j \in SlotNo /\ j < clientCount /\ client[j] # Hole
  BY ReadyOpen
<1>6. /\ pc' \in {"continue", "respond", "crashed"}
      /\ res' \in Request \cup {NoRequest}
  <2>1. res \in Request \cup {NoRequest}
    BY DEF UploadInv, UploadTypeOK
  <2>2. Heads(inbox[fdTable[Source]]) # {} => FirstHead(inbox[fdTable[Source]]) \in Request
    BY <1>2, FirstHeadType
  <2> QED
    BY <2>1, <2>2 DEF RecvHead
<1>7. UNCHANGED loopVars /\ UNCHANGED <<totalLen, file>>
  BY DEF RecvHead
<1>8. SlotServed' /\ ListenerPending'
  BY <1>1, <1>3, <1>4, <1>5, <1>7 DEF SlotServed, ListenerPending, UploadInv, loopVars
<1> QED
  BY <1>3, <1>4, <1>5, <1>6, <1>7, <1>8, QuietKeeps DEF UploadInv, UploadTypeOK, PcValues

\* The client of a slot is closed.
LEMMA CloseSlotKeeps ==
  ASSUME UploadInv, CloseSlot, UNCHANGED alone
  PROVE  UploadInv'
<1>1. SlotsConsistent' /\ clientCount' \in SlotNo
  BY CloseKeepsSlots
<1>2. PICK j \in ReadySlots :
        /\ peer' = [Reported EXCEPT ![fdTable[client[j]]] = "closed"]
        /\ fdTable' = [fdTable EXCEPT ![client[j]] = NoConn]
        /\ readFd' = readFd \ {client[j]}
        /\ client' = [client EXCEPT ![j] = Hole]
        /\ i' = j + 1
  BY DEF CloseSlot
<1>3. /\ j \in SlotNo /\ j < clientCount /\ clientCount <= MaxFd /\ clientCount \in SlotNo
  BY ReadyOpen DEF UploadInv, UploadTypeOK
<1>4. pc' = "scan" /\ pc = "scan"
      /\ UNCHANGED <<inbox, sent, backlog, replies, maxfd, clientFd, tempSet, requestVars>>
  BY DEF CloseSlot
<1>5. peer' \in [Conn -> PeerState]
  BY <1>2, ReportedType DEF PeerState
<1>6. i' \in SlotNo
  BY <1>2, <1>3, SocketsAssumption DEF SlotNo
<1>7. SocketsTypeOK'
  BY <1>2, <1>4, <1>5 DEF UploadInv, UploadTypeOK, SocketsTypeOK
<1>8. UploadTypeOK'
  BY <1>1, <1>2, <1>4, <1>6, <1>7 DEF UploadInv, UploadTypeOK, requestVars
<1>9. SlotServed' /\ ListenerPending'
  BY <1>4 DEF UploadInv, SlotServed, ListenerPending
<1> QED
  BY <1>1, <1>8, <1>9 DEF UploadInv

\* The interim response goes to the client of the slot.
LEMMA SendContinueKeeps ==
  ASSUME UploadInv, SendContinue, UNCHANGED alone
  PROVE  UploadInv'
<1>1. pc = "continue" /\ pc' \in {"upload", "crashed"} /\ totalLen' = 0 /\ file' = <<>>
      /\ UNCHANGED loopVars /\ i' = i /\ res' = res
  BY DEF SendContinue
<1>2. SocketsTypeOK' /\ UNCHANGED <<fdTable, backlog>>
  BY <1>1, ServedConn, CallType DEF SendContinue, UploadInv, UploadTypeOK
<1>3. SlotServed' /\ ListenerPending'
  BY <1>1, <1>2 DEF UploadInv, SlotServed, ListenerPending, loopVars
<1>4. <<>> \in Seq(Conn)
  OBVIOUS
<1> QED
  BY <1>1, <1>2, <1>3, <1>4, QuietKeeps DEF UploadInv, UploadTypeOK, PcValues

\* The blocks of the upload are counted and written, whoever sent them.
LEMMA RecvUploadKeeps ==
  ASSUME UploadInv, RecvUpload, UNCHANGED alone
  PROVE  UploadInv'
<1>1. pc = "upload" /\ UNCHANGED loopVars /\ i' = i /\ res' = res
  BY DEF RecvUpload
<1>2. /\ SocketsTypeOK' /\ UNCHANGED <<fdTable, backlog>>
      /\ pc' \in {"crashed", "respond", "upload"}
      /\ totalLen' \in Nat /\ file' \in Seq(Conn)
  <2>1. CASE RecvData
    <3>1. fdTable[Source] \in Conn /\ inbox[fdTable[Source]] \in Seq(Item)
      BY <2>1, SourceConn DEF RecvData
    <3> DEFINE c == fdTable[Source]
               more == [n \in DOMAIN inbox[c] |-> c]
    <3>2. more \in Seq(Conn)
      BY <3>1
    <3>3. HasData(c) /\ ~AtEnd(c) /\ ~HasError(c)
      BY <2>1 DEF RecvData, HasData, AtEnd, HasError
    <3>4. ~RecvNothing
      BY <2>1, <3>3 DEF RecvNothing, RecvData
    <3>5. /\ TakeAll(c) /\ file' = file \o more /\ totalLen' = totalLen + Len(inbox[c])
          /\ pc' \in {"crashed", "respond", "upload"}
      BY <3>4 DEF RecvUpload
    <3>6. SocketsTypeOK' /\ UNCHANGED <<fdTable, backlog>>
      BY <3>1, <3>5, CallType DEF UploadInv, UploadTypeOK
    <3>7. file \in Seq(Conn) /\ totalLen \in Nat /\ Len(inbox[c]) \in Nat
      BY <3>1 DEF UploadInv, UploadTypeOK
    <3> HIDE DEF c, more
    <3>8. file' \in Seq(Conn) /\ totalLen' \in Nat
      BY <3>2, <3>5, <3>7
    <3> QED
      BY <3>5, <3>6, <3>8
  <2>2. CASE ~RecvData
    <3>1. /\ peer' = Reported /\ pc' = "respond"
          /\ UNCHANGED <<inbox, sent, backlog, fdTable, replies, totalLen, file>>
      BY <2>2 DEF RecvUpload
    <3> QED
      BY <3>1, ReportedType DEF UploadInv, UploadTypeOK, SocketsTypeOK
  <2> QED
    BY <2>1, <2>2
<1>3. SlotServed' /\ ListenerPending'
  BY <1>1, <1>2 DEF UploadInv, SlotServed, ListenerPending, loopVars
<1> QED
  BY <1>1, <1>2, <1>3, QuietKeeps DEF UploadInv, UploadTypeOK, PcValues

\* The response goes to the client of the slot, and the loop to the next slot.
LEMMA RespondKeeps ==
  ASSUME UploadInv, Respond, UNCHANGED alone
  PROVE  UploadInv'
<1>1. pc = "respond" /\ pc' = "scan" /\ i' = i + 1
      /\ UNCHANGED loopVars /\ UNCHANGED requestVars
  BY DEF Respond
<1>2. SocketsTypeOK' /\ UNCHANGED <<fdTable, backlog>>
  BY <1>1, ServedConn, CallType DEF Respond, UploadInv, UploadTypeOK
<1>3. i' \in SlotNo
  BY <1>1, ServedConn, SocketsAssumption DEF SlotNo
<1>4. SlotServed' /\ ListenerPending'
  BY <1>1, <1>2 DEF UploadInv, SlotServed, ListenerPending, loopVars
<1> QED
  BY <1>1, <1>2, <1>3, <1>4, QuietKeeps DEF UploadInv, UploadTypeOK, PcValues, requestVars

\* A client is accepted, or there is no descriptor left and the process ends.
LEMMA AcceptKeeps ==
  ASSUME UploadInv, AcceptConnection, UNCHANGED alone
  PROVE  UploadInv'
<1>1. pc = "scan" /\ backlog # <<>> /\ UNCHANGED <<tempSet, i, requestVars>>
  BY DEF AcceptConnection, UploadInv, ListenerPending
<1>2. ASSUME NEW fd \in Fd, AcceptFd(fd), clientFd' = Remembered(fd),
             client' = [client EXCEPT ![SlotFor(clientCount)] = fd],
             clientCount' = clientCount + 1,
             readFd' = readFd \cup {fd},
             maxfd' = IF fd > maxfd THEN fd ELSE maxfd,
             pc' = "select" \/ (clientCount >= Slots /\ pc' = "crashed")
      PROVE  UploadInv'
  <2>1. SlotsConsistent' /\ clientCount' \in SlotNo
    BY <1>1, <1>2, AcceptKeepsSlots
  <2>2. SocketsTypeOK'
    BY <1>1, <1>2, AcceptType DEF UploadInv, UploadTypeOK
  <2>3. /\ client' \in [SlotNo -> Fd \cup {Hole}] /\ clientFd' \in Fd \cup {Hole}
        /\ maxfd' \in Fd \cup {ListenFd} /\ readFd' \in SUBSET (Fd \cup {ListenFd})
        /\ pc' \in {"select", "crashed"}
    BY <1>2 DEF UploadInv, UploadTypeOK, Remembered
  <2>4. UploadTypeOK'
    BY <1>1, <2>1, <2>2, <2>3 DEF UploadInv, UploadTypeOK, requestVars, PcValues
  <2>5. SlotServed' /\ ListenerPending'
    BY <2>3 DEF SlotServed, ListenerPending
  <2> QED
    BY <2>1, <2>4, <2>5 DEF UploadInv
<1>3. CASE /\ FreeFd = {} /\ pc' = "exited"
           /\ UNCHANGED <<sockVars, readFd, maxfd, client, clientCount, clientFd>>
  BY <1>1, <1>3, EndKeeps DEF loopVars
<1> QED
  BY <1>2, <1>3 DEF AcceptConnection

\* The pass ends without an accept.
LEMMA PassDoneKeeps ==
  ASSUME UploadInv, PassDone, UNCHANGED alone
  PROVE  UploadInv'
<1>1. pc' = "select" /\ UNCHANGED <<sockVars, loopVars, i, requestVars>>
  BY DEF PassDone
<1>2. SlotServed' /\ ListenerPending'
  BY <1>1 DEF SlotServed, ListenerPending
<1> QED
  BY <1>1, <1>2, QuietKeeps
  DEF UploadInv, UploadTypeOK, SocketsTypeOK, PcValues, sockVars, requestVars
----------------------------------------------------------------------------
\* Nothing changes but what is remembered of the past.
LEMMA StutterKeeps ==
  ASSUME UploadInv, UNCHANGED <<sockVars, serverVars>>, alone' \in BOOLEAN
  PROVE  UploadInv'
<1>1. UploadTypeOK'
  BY DEF UploadInv, UploadTypeOK, SocketsTypeOK, serverVars, loopVars, requestVars, sockVars
<1>2. SlotsConsistent'
  BY SlotsQuiet DEF UploadInv, serverVars, loopVars, sockVars
<1>3. SlotServed' /\ ListenerPending'
  BY DEF UploadInv, SlotServed, ListenerPending, serverVars, loopVars, sockVars
<1> QED
  BY <1>1, <1>2, <1>3 DEF UploadInv

\* Every step of the server keeps the invariant.
LEMMA ServerKeeps ==
  ASSUME UploadInv, ServerStep, UNCHANGED alone
  PROVE  UploadInv'
<1>1. CASE Select
  BY <1>1, SelectKeeps
<1>2. CASE SelectTimeout
  BY <1>2, StutterKeeps DEF SelectTimeout, UploadInv, UploadTypeOK
<1>3. CASE SelectFails
  BY <1>3, EndKeeps DEF SelectFails
<1>4. CASE RecvHead
  BY <1>4, RecvHeadKeeps
<1>5. CASE CloseSlot
  BY <1>5, CloseSlotKeeps
<1>6. CASE SendContinue
  BY <1>6, SendContinueKeeps
<1>7. CASE RecvUpload
  BY <1>7, RecvUploadKeeps
<1>8. CASE Respond
  BY <1>8, RespondKeeps
<1>9. CASE SendDies
  BY <1>9, EndKeeps DEF SendDies
<1>10. CASE AcceptConnection
  BY <1>10, AcceptKeeps
<1>11. CASE PassDone
  BY <1>11, PassDoneKeeps
<1> QED
  BY <1>1, <1>2, <1>3, <1>4, <1>5, <1>6, <1>7, <1>8, <1>9, <1>10, <1>11 DEF ServerStep

\* Every step keeps the invariant.
LEMMA UploadNext == UploadInv /\ [Next]_vars => UploadInv'
<1>1. ASSUME UploadInv, PeerStep, alone' = (alone /\ Cardinality(Alive') <= 1),
             UNCHANGED serverVars
      PROVE  UploadInv'
  <2>1. alone' \in BOOLEAN
    BY <1>1, Zenon
  <2> QED
    BY <1>1, <2>1, PeersKeep
<1>2. ASSUME UploadInv, UNCHANGED vars PROVE UploadInv'
  BY <1>2, StutterKeeps DEF vars, UploadInv, UploadTypeOK
<1> QED
  BY <1>1, <1>2, ServerKeeps DEF Next

\* The invariant holds in every interleaving.
THEOREM UploadAlways == Spec => []UploadInv
BY UploadInit, UploadNext, PTL DEF Spec

\* Every variable keeps its type: the count of clients and the slot in hand never
\* leave the table that holds a slot for each descriptor.
THEOREM UploadTypeCorrect == Spec => []UploadTypeOK
<1>1. UploadInv => UploadTypeOK
  BY DEF UploadInv
<1> QED
  BY <1>1, UploadAlways, PTL

\* A slot never refers to a descriptor that was closed and handed out again, and
\* the count is the number of open clients (server.c).
THEOREM SlotsAgree == Spec => []SlotsConsistent
<1>1. UploadInv => SlotsConsistent
  BY DEF UploadInv
<1> QED
  BY <1>1, UploadAlways, PTL
----------------------------------------------------------------------------
(* One client at a time. *)

\* An accepted connection, and one that waits, is alive.  As long as there were
\* never two, any two that are alive are the same.
OneAlive ==
  /\ IsFiniteSet(Alive)
  /\ \A fd \in Fd : IsOpen(fd) => fdTable[fd] \in Alive
  /\ \A k \in DOMAIN backlog : backlog[k] \in Alive
  /\ alone => \A c, d \in Alive : c = d

\* The one client has the first slot, and is the one that recv reads.
FirstSlot == alone => \A fd \in Fd : IsOpen(fd) => client[0] = fd /\ clientFd = fd

\* Every block that was written came from the client that is served.
OwnBlocks == alone /\ pc = "upload" => \A n \in DOMAIN file : file[n] = Slot

AloneInv == UploadInv /\ OnePlace /\ OneAlive /\ FirstSlot /\ OwnBlocks

\* The first client to be accepted gets the descriptor of the loop.
LEMMA AloneAtInit == Init => AloneInv
<1> SUFFICES ASSUME Init PROVE AloneInv
  OBVIOUS
<1>1. Alive = {} /\ DOMAIN backlog = {} /\ \A fd \in Fd : ~IsOpen(fd)
  BY DEF Init, SocketsInit, Alive, IsOpen
<1>2. OneAlive
  BY <1>1, FS_EmptySet DEF OneAlive
<1>3. OnePlace
  BY DEF Init, SocketsInit, OnePlace, Waiting
<1>4. FirstSlot /\ OwnBlocks
  BY <1>1 DEF FirstSlot, OwnBlocks, Init
<1> QED
  BY <1>2, <1>3, <1>4, UploadInit DEF AloneInv

\* A step that neither makes, accepts nor closes a connection leaves the client
\* alone, if what it writes to the file came from the client that is served.
LEMMA AloneKept ==
  ASSUME AloneInv, UploadInv', UNCHANGED <<backlog, fdTable, client, clientFd>>,
         \A c \in Conn : peer'[c] = "idle" <=> peer[c] = "idle",
         \A c \in Conn : peer'[c] = "closed" <=> peer[c] = "closed",
         \A c \in Conn : Waiting(c) => replies'[c] = replies[c],
         alone' => alone,
         OwnBlocks'
  PROVE  AloneInv'
<1>1. SocketsTypeOK
  BY DEF AloneInv, UploadInv, UploadTypeOK
<1>2. \A fd \in Fd : fdTable'[fd] \in {fdTable[fd], NoConn}
  OBVIOUS
<1>3. OnePlace'
  BY <1>1, <1>2, OnePlaceKept DEF AloneInv
<1>4. Alive' = Alive /\ \A fd \in Fd : IsOpen(fd)' <=> IsOpen(fd)
  BY DEF Alive, IsOpen
<1>5. OneAlive'
  BY <1>4 DEF AloneInv, OneAlive
<1>6. FirstSlot'
  BY <1>4 DEF AloneInv, FirstSlot
<1> QED
  BY <1>3, <1>5, <1>6 DEF AloneInv

\* As long as there was one client at a time, the client of an open slot is the
\* one that recv reads.
LEMMA SlotIsSource ==
  ASSUME AloneInv, alone, NEW k \in SlotNo, client[k] # Hole
  PROVE  client[k] \in Fd /\ IsOpen(client[k]) /\ client[k] = Source
BY DEF AloneInv, FirstSlot, UploadInv, UploadTypeOK, SlotsConsistent, IsOpen, Source

\* The response is written to a connection that was accepted.
LEMMA AloneWrite ==
  ASSUME AloneInv, UploadInv', pc \in {"continue", "respond"}, Write(Slot),
         UNCHANGED <<client, clientFd, alone>>, OwnBlocks'
  PROVE  AloneInv'
<1>1. PICK c \in Conn : c = Slot
  BY ServedConn DEF AloneInv
<1>2. ~Waiting(c)
  <2>1. IsOpen(client[i]) /\ c = fdTable[client[i]]
    BY <1>1 DEF AloneInv, UploadInv, UploadTypeOK, SlotServed, SlotsConsistent, Slot
  <2> QED
    BY <2>1 DEF AloneInv, OnePlace, IsOpen
<1>3. /\ UNCHANGED <<backlog, fdTable>>
      /\ peer[c] \in {"open", "fin", "reset"} /\ peer'[c] \in {"open", "fin", "broken", "gone"}
      /\ \A x \in Conn : x # c => peer'[x] = peer[x] /\ replies'[x] = replies[x]
  BY <1>1 DEF Write, AloneInv, UploadInv, UploadTypeOK, SocketsTypeOK
<1>4. \A x \in Conn : /\ peer'[x] = "idle" <=> peer[x] = "idle"
                      /\ peer'[x] = "closed" <=> peer[x] = "closed"
                      /\ Waiting(x) => replies'[x] = replies[x]
  BY <1>2, <1>3
<1> QED
  BY <1>3, <1>4, AloneKept

\* recv reports a reset, and changes nothing else.
LEMMA ReportedPeers ==
  ASSUME UploadInv, NEW c \in Conn
  PROVE  Reported[c] = peer[c] \/ (peer[c] = "reset" /\ Reported[c] = "gone")
BY DEF Reported, HasError, UploadInv, UploadTypeOK, SocketsTypeOK, IsOpen

\* The upload of the one client is read from that client.
LEMMA AloneRecvUpload ==
  ASSUME AloneInv, UploadInv', RecvUpload, UNCHANGED alone
  PROVE  /\ AloneInv'
         /\ alone => \A n \in DOMAIN file' : file'[n] = Slot
<1>1. pc = "upload" /\ UNCHANGED <<client, clientFd, i>> /\ i \in SlotNo /\ client[i] # Hole
  BY DEF RecvUpload, loopVars, AloneInv, UploadInv, UploadTypeOK, SlotServed
<1>2. /\ UNCHANGED <<backlog, fdTable, replies>>
      /\ \A c \in Conn : peer'[c] = peer[c] \/ (peer[c] = "reset" /\ peer'[c] = "gone")
  <2>1. CASE peer' = Reported
    BY <2>1, ReportedPeers DEF RecvUpload, AloneInv, TakeAll
  <2>2. CASE peer' # Reported
    BY <2>2 DEF RecvUpload, TakeAll
  <2> QED
    BY <2>1, <2>2
<1>3. ASSUME alone PROVE \A n \in DOMAIN file' : file'[n] = Slot
  <2>1. \A n \in DOMAIN file : file[n] = Slot
    BY <1>1, <1>3 DEF AloneInv, OwnBlocks
  <2>2. fdTable[Source] = Slot
    BY <1>1, <1>3, SlotIsSource DEF Slot
  <2>3. CASE UNCHANGED file
    BY <2>1, <2>3
  <2>4. CASE file' # file
    <3> DEFINE c == fdTable[Source]
               more == [n \in DOMAIN inbox[c] |-> c]
    <3>1. file' = file \o more /\ RecvData
      BY <2>4 DEF RecvUpload
    <3>2. c \in Conn /\ inbox[c] \in Seq(Item) /\ file \in Seq(Conn)
      BY <3>1, SourceConn DEF RecvData, AloneInv, UploadInv, UploadTypeOK
    <3>3. more \in Seq(Conn) /\ \A n \in DOMAIN more : more[n] = c
      BY <3>2
    <3>4. \A n \in 1..Len(file) : file[n] = c
      BY <2>1, <2>2, <3>2
    <3>5. \A n \in 1..Len(more) : more[n] = c
      BY <3>3
    <3> HIDE DEF c, more
    <3>6. \A n \in 1..Len(file \o more) :
            (file \o more)[n] = IF n <= Len(file) THEN file[n] ELSE more[n - Len(file)]
      BY <3>2, <3>3
    <3>7. \A n \in 1..Len(file \o more) : (file \o more)[n] = c
      BY <3>2, <3>3, <3>4, <3>5, <3>6
    <3> QED
      BY <2>2, <3>1, <3>2, <3>3, <3>7 DEF c
  <2> QED
    BY <2>3, <2>4
<1>4. OwnBlocks'
  BY <1>1, <1>2, <1>3 DEF OwnBlocks, Slot
<1>5. \A c \in Conn : /\ peer'[c] = "idle" <=> peer[c] = "idle"
                      /\ peer'[c] = "closed" <=> peer[c] = "closed"
                      /\ Waiting(c) => replies'[c] = replies[c]
  BY <1>2
<1> QED
  BY <1>1, <1>2, <1>3, <1>4, <1>5, AloneKept

\* The one client is closed when it is the one that recv reported at its end.
LEMMA AloneCloseSlot ==
  ASSUME AloneInv, UploadInv', CloseSlot, UNCHANGED alone
  PROVE  /\ AloneInv'
         /\ alone => \A c \in Conn : peer[c] # "closed" /\ peer'[c] = "closed"
                                       => inbox[c] = <<>> /\ peer[c] # "open"
<1>1. PICK j \in ReadySlots :
        /\ peer' = [Reported EXCEPT ![fdTable[client[j]]] = "closed"]
        /\ fdTable' = [fdTable EXCEPT ![client[j]] = NoConn]
        /\ client' = [client EXCEPT ![j] = Hole]
  BY DEF CloseSlot
<1>2. /\ pc = "scan" /\ pc' = pc /\ RecvNothing
      /\ UNCHANGED <<inbox, sent, backlog, replies, clientFd, file>>
  BY DEF CloseSlot, requestVars
<1>3. j \in SlotNo /\ client[j] \in Fd /\ client[j] # Hole /\ IsOpen(client[j])
  BY ReadyOpen DEF AloneInv
<1>4. PICK c \in Conn : c = fdTable[client[j]]
  BY ReadyOpen DEF AloneInv
<1>5. peer[c] # "idle" /\ peer'[c] = "closed" /\ c \in Alive
        /\ \A x \in Conn : x # c => peer'[x] = peer[x] \/ (peer[x] = "reset" /\ peer'[x] = "gone")
  <2>1. Reported \in [Conn -> PeerState]
    BY ReportedType DEF AloneInv
  <2>2. c \in Alive
    BY <1>3, <1>4 DEF AloneInv, OneAlive
  <2> QED
    BY <1>1, <1>4, <2>1, <2>2, ReportedPeers DEF AloneInv, Alive
<1>6. \A fd \in Fd : fdTable'[fd] = IF fd = client[j] THEN NoConn ELSE fdTable[fd]
  BY <1>1, <1>3 DEF AloneInv, UploadInv, UploadTypeOK, SocketsTypeOK
<1>7. OnePlace'
  <2>1. \A x \in Conn : peer'[x] = "idle" <=> peer[x] = "idle"
    BY <1>5
  <2>2. \A fd \in Fd : fdTable'[fd] \in {fdTable[fd], NoConn}
    BY <1>6
  <2> QED
    BY <1>2, <2>1, <2>2, OnePlaceKept DEF AloneInv, UploadInv, UploadTypeOK
<1>8. Alive' = Alive \ {c}
  BY <1>5 DEF Alive
<1>9. \A fd \in Fd : IsOpen(fd)' => IsOpen(fd) /\ fdTable'[fd] = fdTable[fd] /\ fdTable[fd] # c
  BY <1>3, <1>4, <1>6, SocketsAssumption DEF IsOpen, AloneInv, OnePlace
<1>10. OneAlive'
  <2>1. IsFiniteSet(Alive') /\ Alive' \subseteq Alive
    BY <1>8, FS_Subset DEF AloneInv, OneAlive
  <2>2. \A fd \in Fd : IsOpen(fd)' => fdTable'[fd] \in Alive'
    BY <1>8, <1>9 DEF AloneInv, OneAlive
  <2>3. \A k \in DOMAIN backlog : backlog[k] # c
    BY <1>3, <1>4 DEF AloneInv, OnePlace, Waiting, IsOpen
  <2>4. \A k \in DOMAIN backlog' : backlog'[k] \in Alive'
    BY <1>2, <1>8, <2>3 DEF AloneInv, OneAlive
  <2>5. alone' => \A x, y \in Alive' : x = y
    BY <2>1 DEF AloneInv, OneAlive
  <2> QED
    BY <2>1, <2>2, <2>4, <2>5 DEF OneAlive
<1>11. FirstSlot'
  <2> SUFFICES ASSUME alone', NEW fd \in Fd, IsOpen(fd)' PROVE FALSE
    BY DEF FirstSlot
  <2>1. fdTable[fd] \in Alive /\ c \in Alive /\ fdTable[fd] # c
    BY <1>5, <1>9 DEF AloneInv, OneAlive
  <2> QED
    BY <2>1 DEF AloneInv, OneAlive
<1>12. OwnBlocks'
  BY <1>2 DEF OwnBlocks
<1>13. ASSUME alone, NEW x \in Conn, peer[x] # "closed", peer'[x] = "closed"
       PROVE  inbox[x] = <<>> /\ peer[x] # "open"
  <2>1. x = c
    BY <1>5, <1>13
  <2>2. client[j] = Source
    BY <1>3, <1>13, SlotIsSource
  <2>3. AtEnd(c) \/ HasError(c)
    BY <1>2, <1>3, <1>4, <2>2 DEF RecvNothing
  <2> QED
    BY <2>1, <2>3 DEF AtEnd, HasError
<1> QED
  BY <1>7, <1>10, <1>11, <1>12, <1>13 DEF AloneInv

\* The one client is accepted when no other has a descriptor: the count is 0.
LEMMA AloneAccept ==
  ASSUME AloneInv, UploadInv', AcceptConnection, UNCHANGED alone
  PROVE  AloneInv'
<1>1. backlog # <<>> /\ pc' # "upload"
  BY DEF AcceptConnection, AloneInv, UploadInv, ListenerPending
<1>2. CASE UNCHANGED <<sockVars, client, clientFd>>
  <2>1. OwnBlocks'
    BY <1>1 DEF OwnBlocks
  <2> QED
    BY <1>2, <2>1, AloneKept DEF sockVars
<1>3. ASSUME NEW fd \in Fd, AcceptFd(fd), clientFd' = Remembered(fd),
             client' = [client EXCEPT ![SlotFor(clientCount)] = fd]
      PROVE  AloneInv'
  <2>1. OnePlace'
    BY <1>1, <1>3, OnePlaceAccept DEF AloneInv, UploadInv, UploadTypeOK
  <2>2. PICK h \in Conn : h = Head(backlog) /\ h = backlog[1] /\ 1 \in DOMAIN backlog
    BY <1>1, SMTT(30) DEF AloneInv, UploadInv, UploadTypeOK, SocketsTypeOK
  <2>3. /\ fdTable[fd] = NoConn /\ UNCHANGED peer /\ backlog' = Tail(backlog)
        /\ fdTable' = [fdTable EXCEPT ![fd] = h]
    BY <1>3, <2>2 DEF AcceptFd, LowestFree, FreeFd
  <2>4. Alive' = Alive /\ h \in Alive /\ Waiting(h)
    BY <2>2, <2>3 DEF Alive, AloneInv, OneAlive, Waiting
  <2>5. \A g \in Fd : fdTable'[g] = IF g = fd THEN h ELSE fdTable[g]
    BY <2>3 DEF AloneInv, UploadInv, UploadTypeOK, SocketsTypeOK
  <2>6. OneAlive'
    <3>1. \A g \in Fd : IsOpen(g)' => fdTable'[g] \in Alive'
      BY <2>4, <2>5 DEF IsOpen, AloneInv, OneAlive
    <3>2. \A k \in DOMAIN backlog' : k + 1 \in DOMAIN backlog /\ backlog'[k] = backlog[k + 1]
      BY <1>1, <2>3 DEF AloneInv, UploadInv, UploadTypeOK, SocketsTypeOK
    <3>3. \A k \in DOMAIN backlog' : backlog'[k] \in Alive'
      BY <2>4, <3>2 DEF AloneInv, OneAlive
    <3> QED
      BY <2>4, <3>1, <3>3 DEF AloneInv, OneAlive
  <2>7. ASSUME alone PROVE /\ \A g \in Fd : g # fd => ~IsOpen(g)'
                           /\ clientCount = 0
    <3>1. ASSUME NEW g \in Fd, IsOpen(g) PROVE FALSE
      <4>1. fdTable[g] \in Alive /\ ~Waiting(fdTable[g])
        BY <3>1 DEF AloneInv, OneAlive, OnePlace, IsOpen
      <4>2. fdTable[g] = h
        BY <2>4, <2>7, <4>1 DEF AloneInv, OneAlive
      <4> QED
        BY <2>4, <4>1, <4>2
    <3>2. {g \in Fd : IsOpen(g)} = {}
      BY <3>1
    <3>3. clientCount = Cardinality({g \in Fd : IsOpen(g)})
      BY DEF AloneInv, UploadInv, SlotsConsistent
    <3>4. clientCount = 0
      BY <3>2, <3>3, FS_EmptySet
    <3>5. \A g \in Fd : g # fd => ~IsOpen(g)'
      BY <2>5, <3>1 DEF IsOpen
    <3> QED
      BY <3>4, <3>5
  <2>8. FirstSlot'
    <3> SUFFICES ASSUME alone, NEW g \in Fd, IsOpen(g)'
                 PROVE  client'[0] = g /\ clientFd' = g
      BY DEF FirstSlot
    <3>1. g = fd /\ clientCount = 0
      BY <2>7
    <3>2. 0 \in SlotNo /\ client \in [SlotNo -> Fd \cup {Hole}]
      BY SocketsAssumption DEF SlotNo, AloneInv, UploadInv, UploadTypeOK
    <3> QED
      BY <1>3, <3>1, <3>2 DEF SlotFor, Remembered
  <2>9. OwnBlocks'
    BY <1>1 DEF OwnBlocks
  <2> QED
    BY <2>1, <2>6, <2>8, <2>9 DEF AloneInv
<1> QED
  BY <1>2, <1>3 DEF AcceptConnection

\* A peer: the history variable drops as soon as two connections are alive.
LEMMA AlonePeers ==
  ASSUME AloneInv, UploadInv', PeerStep, UNCHANGED serverVars,
         alone' = (alone /\ Cardinality(Alive') <= 1)
  PROVE  /\ AloneInv'
         /\ \A c \in Conn : peer[c] # "closed" => peer'[c] # "closed"
<1>0. /\ SocketsTypeOK /\ UNCHANGED <<fdTable, replies>>
      /\ UNCHANGED <<pc, client, clientFd, i, file>>
  BY PeerStepType DEF AloneInv, UploadInv, UploadTypeOK, serverVars, loopVars, requestVars
<1>1. alone' => alone
  BY Zenon
<1>2. alone' => Cardinality(Alive') <= 1
  BY Zenon
<1>3. OwnBlocks'
  BY <1>0, <1>1 DEF AloneInv, OwnBlocks, Slot
<1>4. PICK c \in Conn : Connect(c) \/ (\E x \in Item : PeerSend(c, x))
                          \/ PeerClose(c) \/ PeerReset(c)
  BY DEF PeerStep
<1>5. CASE ~Connect(c)
  <2>1. /\ UNCHANGED backlog
        /\ \A x \in Conn : /\ peer'[x] = "idle" <=> peer[x] = "idle"
                           /\ peer'[x] = "closed" <=> peer[x] = "closed"
    BY <1>0, <1>4, <1>5 DEF PeerSend, PeerClose, PeerReset, SocketsTypeOK
  <2> QED
    BY <1>0, <1>1, <1>3, <2>1, AloneKept
<1>6. CASE Connect(c)
  <2>1. /\ peer[c] = "idle" /\ peer'[c] = "open" /\ \A x \in Conn : x # c => peer'[x] = peer[x]
        /\ backlog' = Append(backlog, c)
    BY <1>0, <1>6 DEF Connect, SocketsTypeOK
  <2>2. OnePlace'
    BY <1>0, <1>6, OnePlaceConnect DEF AloneInv
  <2>3. Alive' = Alive \cup {c} /\ c \notin Alive
    BY <2>1 DEF Alive
  <2>4. IsFiniteSet(Alive') /\ IsFiniteSet(Alive)
    BY <2>3, FS_AddElement DEF AloneInv, OneAlive
  <2>5. \A fd \in Fd : IsOpen(fd)' => fdTable'[fd] \in Alive'
    BY <1>0, <2>3 DEF AloneInv, OneAlive, IsOpen
  <2>6. \A k \in DOMAIN backlog' : backlog'[k] \in Alive'
    <3>1. \A k \in DOMAIN backlog' : backlog'[k] = c \/ (k \in DOMAIN backlog /\ backlog'[k] = backlog[k])
      BY <1>0, <2>1 DEF SocketsTypeOK
    <3> QED
      BY <2>3, <3>1 DEF AloneInv, OneAlive
  <2>7. alone' => \A x, y \in Alive' : x = y
    <3> SUFFICES ASSUME alone', NEW x \in Alive', NEW y \in Alive', x # y
                 PROVE  FALSE
      OBVIOUS
    <3>1. IsFiniteSet({x}) /\ Cardinality({x}) = 1
      BY FS_Singleton
    <3>2. IsFiniteSet({x} \cup {y}) /\ Cardinality({x} \cup {y}) = 2
      BY <3>1, FS_AddElement
    <3>3. Cardinality({x} \cup {y}) <= Cardinality(Alive')
      BY <2>4, FS_Subset
    <3>4. Cardinality(Alive') <= 1 /\ Cardinality(Alive') \in Nat
      BY <1>2, <2>4, FS_CardinalityType
    <3> QED
      BY <3>2, <3>3, <3>4
  <2>8. OneAlive'
    BY <2>4, <2>5, <2>6, <2>7 DEF OneAlive
  <2>9. FirstSlot'
    BY <1>0, <1>1 DEF AloneInv, FirstSlot, IsOpen
  <2> QED
    BY <1>3, <2>1, <2>2, <2>8, <2>9 DEF AloneInv
<1> QED
  BY <1>5, <1>6

\* The steps that read, and those that only wait or answer, leave every connection
\* open that was open.
LEMMA AloneOthers ==
  ASSUME AloneInv, UploadInv', UNCHANGED alone,
         \/ Select \/ SelectTimeout \/ SelectFails \/ RecvHead \/ SendContinue
         \/ Respond \/ SendDies \/ PassDone
  PROVE  /\ AloneInv'
         /\ pc # "upload"
         /\ \A c \in Conn : peer[c] # "closed" => peer'[c] # "closed"
<1>0. pc # "upload" /\ UNCHANGED <<client, clientFd>>
  BY DEF Select, SelectTimeout, SelectFails, RecvHead, SendContinue, Respond, SendDies,
         PassDone, serverVars, loopVars
<1>1. CASE UNCHANGED <<peer, backlog, fdTable, replies>> /\ pc' # "upload"
  <2>1. OwnBlocks'
    BY <1>1 DEF OwnBlocks
  <2> QED
    BY <1>0, <1>1, <2>1, AloneKept
<1>2. CASE pc \in {"continue", "respond"} /\ Write(Slot) /\ (pc' = "upload" => file' = <<>>)
  <2>1. OwnBlocks'
    BY <1>2 DEF OwnBlocks
  <2>2. Slot \in Conn
    BY <1>2, ServedConn DEF AloneInv
  <2>3. \A c \in Conn : peer[c] # "closed" => peer'[c] # "closed"
    BY <1>2, <2>2 DEF Write, AloneInv, UploadInv, UploadTypeOK, SocketsTypeOK
  <2> QED
    BY <1>0, <1>2, <2>1, <2>3, AloneWrite
<1>3. CASE Select \/ SelectTimeout \/ SelectFails \/ RecvHead \/ SendDies \/ PassDone
  <2>1. UNCHANGED <<peer, backlog, fdTable, replies>> /\ pc' # "upload"
    BY <1>0, <1>3 DEF Select, SelectTimeout, SelectFails, RecvHead, SendDies, PassDone,
                      sockVars, serverVars, TakeAll
  <2> QED
    BY <1>1, <2>1
<1>4. CASE SendContinue \/ Respond
  BY <1>2, <1>4 DEF SendContinue, Respond
<1> QED
  BY <1>3, <1>4

\* Every step keeps the one client alone, and serves it.
LEMMA AloneNext ==
  ASSUME AloneInv, UploadInv', [Next]_vars
  PROVE  /\ AloneInv'
         /\ alone =>
              /\ pc' = "respond" /\ pc = "upload"
                   => \A n \in DOMAIN file' : file'[n] = Slot
              /\ \A c \in Conn :
                   peer[c] # "closed" /\ peer'[c] = "closed"
                     => inbox[c] = <<>> /\ peer[c] # "open"
<1>1. CASE PeerStep /\ alone' = (alone /\ Cardinality(Alive') <= 1) /\ UNCHANGED serverVars
  <2>1. AloneInv' /\ \A c \in Conn : peer[c] # "closed" => peer'[c] # "closed"
    BY <1>1, AlonePeers
  <2>2. pc' = pc
    BY <1>1 DEF serverVars
  <2> QED
    BY <2>1, <2>2
<1>2. CASE RecvUpload /\ UNCHANGED alone
  <2>1. AloneInv' /\ (alone => \A n \in DOMAIN file' : file'[n] = Slot)
    BY <1>2, AloneRecvUpload
  <2>2. \A c \in Conn : peer[c] # "closed" => peer'[c] # "closed"
    BY <1>2, ReportedPeers DEF RecvUpload, TakeAll, AloneInv
  <2> QED
    BY <2>1, <2>2
<1>3. CASE CloseSlot /\ UNCHANGED alone
  BY <1>3, AloneCloseSlot DEF CloseSlot
<1>4. CASE AcceptConnection /\ UNCHANGED alone
  <2>1. AloneInv' /\ pc # "upload" /\ UNCHANGED peer
    BY <1>4, AloneAccept DEF AcceptConnection, AcceptFd, sockVars
  <2> QED
    BY <2>1
<1>5. CASE ServerStep /\ UNCHANGED alone
  BY <1>2, <1>3, <1>4, <1>5, AloneOthers DEF ServerStep
<1>6. CASE UNCHANGED vars
  <2>1. OwnBlocks'
    BY <1>6 DEF AloneInv, OwnBlocks, Slot, vars, serverVars, loopVars, requestVars, sockVars
  <2>2. UNCHANGED <<sockVars, client, clientFd, alone, pc>>
    BY <1>6 DEF vars, serverVars, loopVars
  <2> QED
    BY <2>1, <2>2, AloneKept DEF sockVars
<1> QED
  BY <1>1, <1>5, <1>6 DEF Next

\* The invariant of one client at a time holds in every interleaving.
THEOREM AloneAlways == Spec => []AloneInv
<1>1. AloneInv /\ UploadInv' /\ [Next]_vars => AloneInv'
  BY AloneNext
<1> QED
  BY <1>1, AloneAtInit, UploadAlways, PTL DEF Spec

\* With one client at a time the loop over client[] reaches every open client, in
\* spite of the holes that clients leave behind (server.c).
THEOREM AloneReached == Spec => []AloneScanned
<1>1. AloneInv => AloneScanned
  <2> SUFFICES ASSUME AloneInv, alone, NEW fd \in Fd, IsOpen(fd)
               PROVE  \E j \in 0..(clientCount - 1) : client[j] = fd
    BY DEF AloneScanned
  <2>1. client[0] = fd
    BY DEF AloneInv, FirstSlot
  <2>2. clientCount = Cardinality(OpenFds) /\ clientCount \in 0..MaxFd
    BY DEF AloneInv, UploadInv, UploadTypeOK, SlotsConsistent, OpenFds, SlotNo
  <2>3. clientCount # 0
    <3>1. IsFiniteSet(Fd)
      BY FS_Interval, SocketsAssumption DEF Fd
    <3>2. IsFiniteSet(OpenFds) /\ fd \in OpenFds
      BY <3>1, FS_Subset DEF OpenFds
    <3> QED
      BY <2>2, <3>2, FS_EmptySet
  <2>4. 0 \in 0..(clientCount - 1)
    BY <2>2, <2>3, SocketsAssumption
  <2> QED
    BY <2>1, <2>4
<1> QED
  BY <1>1, AloneAlways, PTL

\* With one client at a time file.txt holds blocks of the client that gets the
\* response, and nobody is closed who has not ended the connection or of whom
\* something is left to read (server.c).
THEOREM AloneIsServed == Spec => AloneServed
<1>1. AloneInv /\ UploadInv' /\ [Next]_vars =>
        [alone =>
           /\ pc' = "respond" /\ pc = "upload"
                => \A n \in DOMAIN file' : file'[n] = Slot
           /\ \A c \in Conn :
                peer[c] # "closed" /\ peer'[c] = "closed"
                  => inbox[c] = <<>> /\ peer[c] # "open"]_vars
  BY AloneNext
<1> QED
  BY <1>1, AloneAlways, UploadAlways, PTL DEF Spec, AloneServed
----------------------------------------------------------------------------
(* The client. *)

Transferring == cpc \in {"head", "body", "await"}
Serving == pc \in {"continue", "upload", "respond"}

\* file.txt is what the post in hand has to be.
Saved == file = [n \in 1..uploadsize |-> curl]

\* The connection in hand was made last: it is the last of the backlog, or nobody
\* waits any more and it is the one that recv reads.
Latest ==
  \/ backlog # <<>> /\ backlog[Len(backlog)] = curl
  \/ backlog = <<>> /\ clientFd \in Fd /\ fdTable[clientFd] = curl

\* The head of the post has not been read.  The server may still be busy with a
\* post that was given up, but only as long as this one waits for accept.
Unread ==
  /\ replies[curl] = 0
  /\ Serving => backlog # <<>>
  /\ IF cpc = "head"
     THEN inbox[curl] = <<>>
     ELSE /\ Len(inbox[curl]) = read + 1
          /\ inbox[curl][1] = HeadFor(uploadsize)
          /\ \A n \in 2..Len(inbox[curl]) : inbox[curl][n] = Body

\* The head has been read, and only blocks are left.  The client is answered if the
\* slot in hand is its own, and then nothing but its blocks was counted and saved.
HeadRead ==
  /\ cpc # "head"
  /\ backlog = <<>>
  /\ Len(inbox[curl]) <= read
  /\ \A n \in DOMAIN inbox[curl] : inbox[curl][n] = Body
  /\ Serving /\ Slot = curl => replies[curl] = IF pc = "continue" THEN 0 ELSE 1
  /\ Serving /\ Slot # curl => replies[curl] = 0
  /\ pc = "continue" /\ Slot = curl => res = HeadFor(uploadsize)
  /\ pc = "upload" /\ Slot = curl =>
       /\ res.length = uploadsize
       /\ file = [n \in 1..totalLen |-> curl]
       /\ totalLen + Len(inbox[curl]) <= read
  /\ pc = "respond" /\ Slot = curl => Saved
  /\ ~Serving /\ replies[curl] >= 2 => Saved

Transfer ==
  Transferring => peer[curl] = "open" /\ Latest /\ (Unread \/ HeadRead)

\* A connection is left for the post that was chosen, and nothing was sent on it.
Spare ==
  /\ cpc \in {"stat", "open", "connect"} => Unused # {}
  /\ \A c \in Conn : peer[c] = "idle" => inbox[c] = <<>>

\* How much of the body was sent.
Progress ==
  /\ cpc \in {"connect", "head"} => read = 0
  /\ cpc = "body" => read < uploadsize

ClientInv ==
  /\ UploadInv
  /\ OnePlace
  /\ ClientTypeOK
  /\ Spare
  /\ Progress
  /\ Transfer
----------------------------------------------------------------------------
\* What a step of the server leaves of the connections: each has its place, nobody
\* is made or forgotten, and items are only taken.
LEMMA ServerSockets ==
  ASSUME UploadInv, OnePlace, ServerStep
  PROVE  /\ OnePlace'
         /\ \A c \in Conn : peer'[c] = "idle" <=> peer[c] = "idle"
         /\ \A c \in Conn : inbox'[c] = inbox[c] \/ inbox'[c] = <<>>
<1>0. SocketsTypeOK
  BY DEF UploadInv, UploadTypeOK
<1>1. CASE UNCHANGED sockVars
  <2>1. UNCHANGED <<peer, inbox, backlog, fdTable, replies>>
    BY <1>1 DEF sockVars
  <2> QED
    BY <1>0, <2>1, OnePlaceKept
<1>2. CASE \E c \in Conn : TakeAll(c)
  <2>1. PICK c \in Conn : TakeAll(c)
    BY <1>2
  <2>2. UNCHANGED <<peer, backlog, fdTable, replies>> /\ inbox' = [inbox EXCEPT ![c] = <<>>]
    BY <2>1 DEF TakeAll
  <2>3. \A x \in Conn : inbox'[x] = inbox[x] \/ inbox'[x] = <<>>
    BY <1>0, <2>2 DEF SocketsTypeOK
  <2> QED
    BY <1>0, <2>2, <2>3, OnePlaceKept
<1>3. CASE Serving /\ Write(Slot)
  <2>1. PICK c \in Conn : c = Slot
    BY <1>3, ServedConn DEF Serving
  <2>2. IsOpen(client[i]) /\ c = fdTable[client[i]]
    BY <1>3, <2>1 DEF UploadInv, UploadTypeOK, SlotServed, SlotsConsistent, Slot, Serving
  <2>3. ~Waiting(c)
    BY <2>2 DEF OnePlace, IsOpen
  <2>4. /\ UNCHANGED <<inbox, backlog, fdTable>>
        /\ peer[c] # "idle" /\ peer'[c] # "idle"
        /\ \A x \in Conn : x # c => peer'[x] = peer[x] /\ replies'[x] = replies[x]
    BY <1>0, <1>3, <2>1 DEF Write, SocketsTypeOK
  <2>5. \A x \in Conn : (peer'[x] = "idle" <=> peer[x] = "idle")
                        /\ (Waiting(x) => replies'[x] = replies[x])
    BY <2>3, <2>4
  <2> QED
    BY <1>0, <2>4, <2>5, OnePlaceKept
<1>4. CASE peer' = Reported /\ UNCHANGED <<inbox, backlog, fdTable, replies>>
  <2>1. \A x \in Conn : peer'[x] = "idle" <=> peer[x] = "idle"
    BY <1>4, ReportedPeers
  <2> QED
    BY <1>0, <1>4, <2>1, OnePlaceKept
<1>5. CASE CloseSlot
  <2>1. PICK j \in ReadySlots :
          /\ peer' = [Reported EXCEPT ![fdTable[client[j]]] = "closed"]
          /\ fdTable' = [fdTable EXCEPT ![client[j]] = NoConn]
    BY <1>5 DEF CloseSlot
  <2>2. UNCHANGED <<inbox, backlog, replies>>
    BY <1>5 DEF CloseSlot
  <2>3. client[j] \in Fd /\ IsOpen(client[j])
    BY ReadyOpen
  <2>4. PICK c \in Conn : c = fdTable[client[j]]
    BY ReadyOpen
  <2>5. ~Waiting(c) /\ peer[c] # "idle"
    BY <2>3, <2>4 DEF OnePlace, IsOpen, Waiting
  <2>6. \A x \in Conn : peer'[x] = "idle" <=> peer[x] = "idle"
    BY <2>1, <2>4, <2>5, ReportedPeers, ReportedType
  <2>7. \A fd \in Fd : fdTable'[fd] \in {fdTable[fd], NoConn}
    BY <1>0, <2>1, <2>3 DEF SocketsTypeOK
  <2> QED
    BY <1>0, <2>2, <2>6, <2>7, OnePlaceKept
<1>6. CASE \E fd \in Fd : AcceptFd(fd) /\ backlog # <<>>
  <2>1. OnePlace'
    BY <1>0, <1>6, OnePlaceAccept
  <2> QED
    BY <1>6, <2>1 DEF AcceptFd
<1>7. CASE Select \/ SelectTimeout \/ SelectFails \/ SendDies \/ PassDone
  BY <1>1, <1>7 DEF Select, SelectTimeout, SelectFails, SendDies, PassDone, sockVars
<1>8. CASE RecvHead
  <2>1. fdTable[Source] \in Conn /\ TakeAll(fdTable[Source])
    BY <1>8, SourceConn DEF RecvHead, RecvData
  <2> QED
    BY <1>2, <2>1
<1>9. CASE SendContinue \/ Respond
  BY <1>3, <1>9 DEF SendContinue, Respond, Serving
<1>10. CASE RecvUpload
  <2>1. CASE RecvData /\ TakeAll(fdTable[Source])
    BY <1>2, <2>1, SourceConn DEF RecvData
  <2>2. CASE peer' = Reported /\ UNCHANGED <<inbox, backlog, fdTable, replies>>
    BY <1>4, <2>2
  <2> QED
    BY <1>10, <2>1, <2>2 DEF RecvUpload
<1>11. CASE AcceptConnection
  <2>1. backlog # <<>>
    BY <1>11 DEF AcceptConnection, UploadInv, ListenerPending
  <2> QED
    BY <1>1, <1>6, <1>11, <2>1 DEF AcceptConnection
<1> QED
  BY <1>5, <1>7, <1>8, <1>9, <1>10, <1>11 DEF ServerStep
----------------------------------------------------------------------------
(* What the server does while a post is in hand. *)

\* Where the connection in hand is.
LEMMA InHand ==
  ASSUME ClientInv, Transferring
  PROVE  /\ curl \in Conn /\ peer[curl] = "open" /\ Latest /\ (Unread \/ HeadRead)
         /\ backlog # <<>> => Waiting(curl) /\ \A fd \in Fd : fdTable[fd] # curl
         /\ backlog = <<>> => IsOpen(Source) /\ fdTable[Source] = curl
         /\ inbox[curl] \in Seq(Item) /\ Len(inbox[curl]) \in Nat /\ backlog \in Seq(Conn)
<1>1. SocketsTypeOK /\ curl \in Conn
  BY DEF ClientInv, UploadInv, UploadTypeOK, ClientTypeOK, Transferring
<1>2. peer[curl] = "open" /\ Latest /\ (Unread \/ HeadRead)
  BY DEF ClientInv, Transfer
<1>3. ASSUME backlog # <<>> PROVE Waiting(curl) /\ \A fd \in Fd : fdTable[fd] # curl
  <2>1. Len(backlog) \in DOMAIN backlog /\ backlog[Len(backlog)] = curl
    BY <1>1, <1>2, <1>3 DEF Latest, SocketsTypeOK
  <2>2. Waiting(curl)
    BY <2>1 DEF Waiting
  <2> QED
    BY <1>1, <2>2, SocketsAssumption DEF ClientInv, OnePlace
<1>4. ASSUME backlog = <<>> PROVE IsOpen(Source) /\ fdTable[Source] = curl
  BY <1>1, <1>2, <1>4, SocketsAssumption DEF Latest, IsOpen, Source
<1>5. inbox[curl] \in Seq(Item) /\ Len(inbox[curl]) \in Nat /\ backlog \in Seq(Conn)
  BY <1>1 DEF SocketsTypeOK
<1> QED
  BY <1>1, <1>2, <1>3, <1>4, <1>5

\* The client that is served, if it is not the one in hand, is another connection.
LEMMA ServedOpen ==
  ASSUME ClientInv, Serving
  PROVE  Slot \in Conn /\ IsOpen(client[i]) /\ client[i] \in Fd
<1>1. Slot \in Conn
  BY ServedConn DEF ClientInv, Serving
<1> QED
  BY <1>1 DEF ClientInv, UploadInv, UploadTypeOK, SlotServed, SlotsConsistent, Serving, IsOpen

\* A step that ends what the server was doing, or only waits, leaves the post as it is.
LEMMA TransferRests ==
  ASSUME ClientInv, Transferring, UNCHANGED clientVars, UNCHANGED <<sockVars, clientFd, file>>,
         ~Serving'
  PROVE  Transfer'
<1>1. curl \in Conn /\ peer[curl] = "open" /\ Latest /\ (Unread \/ HeadRead)
  BY InHand
<1>2. /\ UNCHANGED <<cpc, curl, read, uploadsize, inbox, replies, peer, backlog, fdTable>>
  BY DEF clientVars, sockVars
<1>3. Latest'
  BY <1>1, <1>2 DEF Latest
<1>4. CASE Unread
  BY <1>1, <1>2, <1>3, <1>4 DEF Unread, Transfer
<1>5. CASE HeadRead
  <2>1. replies[curl] >= 2 => ~Serving
    BY <1>5 DEF HeadRead
  <2>2. Saved' <=> Saved
    BY <1>2 DEF Saved
  <2>3. HeadRead'
    BY <1>2, <1>5, <2>1, <2>2 DEF HeadRead, Serving
  <2> QED
    BY <1>1, <1>2, <1>3, <2>3 DEF Transfer
<1> QED
  BY <1>1, <1>4, <1>5

\* The head that is read next is the head of the post in hand, or of another one
\* while this one waits; without a head the server ends.
LEMMA TransferRecvHead ==
  ASSUME ClientInv, Transferring, UNCHANGED clientVars, RecvHead
  PROVE  Transfer'
<1>1. /\ curl \in Conn /\ peer[curl] = "open" /\ Latest /\ (Unread \/ HeadRead)
      /\ inbox[curl] \in Seq(Item) /\ Len(inbox[curl]) \in Nat
      /\ backlog # <<>> => \A fd \in Fd : fdTable[fd] # curl
      /\ backlog = <<>> => fdTable[Source] = curl
  BY InHand
<1>2. /\ UNCHANGED <<cpc, curl, read, uploadsize>>
      /\ UNCHANGED <<replies, peer, backlog, fdTable, clientFd, client, file>>
      /\ pc = "scan" /\ IsOpen(Source) /\ inbox[fdTable[Source]] # <<>>
      /\ pc' \in {"continue", "respond", "crashed"}
  BY DEF clientVars, RecvHead, TakeAll, loopVars, RecvData, HasData
<1>3. PICK d \in Conn : d = fdTable[Source]
  BY <1>2, SourceConn DEF ClientInv
<1>4. \A c \in Conn : inbox'[c] = IF c = d THEN <<>> ELSE inbox[c]
  BY <1>3 DEF RecvHead, TakeAll, ClientInv, UploadInv, UploadTypeOK, SocketsTypeOK
<1>5. Latest' /\ peer'[curl'] = "open"
  BY <1>1, <1>2 DEF Latest
<1>6. CASE d # curl
  <2>1. backlog # <<>> /\ Unread
    BY <1>1, <1>3, <1>6 DEF HeadRead
  <2>2. Unread'
    BY <1>1, <1>2, <1>4, <1>6, <2>1 DEF Unread
  <2> QED
    BY <1>5, <2>2 DEF Transfer
<1>7. CASE d = curl
  <2>1. IsOpen(Source) /\ Source \in Fd
    BY <1>2 DEF IsOpen
  <2>2. backlog = <<>>
    BY <1>1, <1>3, <1>7, <2>1
  <2>3. inbox'[curl'] = <<>> /\ Len(<<>>) = 0 /\ read \in Nat
    <3>1. inbox'[curl'] = <<>>
      BY <1>1, <1>2, <1>4, <1>7
    <3>2. read \in Nat
      BY UploadClientAssumption DEF ClientInv, ClientTypeOK, Blocks
    <3> QED
      BY <3>1, <3>2
  <2>4. CASE Unread
    <3>1. /\ cpc # "head" /\ Len(inbox[curl]) = read + 1
          /\ inbox[curl][1] = HeadFor(uploadsize)
          /\ \A n \in 2..Len(inbox[curl]) : inbox[curl][n] = Body
      BY <1>2, <1>3, <1>7, <2>4 DEF Unread
    <3>2. HeadFor(uploadsize) \in Request /\ HeadFor(uploadsize) # Body
      BY UploadClientAssumption, SocketsAssumption DEF ClientInv, ClientTypeOK
    <3>3. Heads(inbox[curl]) = {1}
      <4>1. 1 \in DOMAIN inbox[curl] /\ DOMAIN inbox[curl] = 1..Len(inbox[curl])
        BY <1>1, <2>3, <3>1
      <4>2. \A n \in DOMAIN inbox[curl] : n # 1 => n \in 2..Len(inbox[curl])
        BY <1>1, <4>1
      <4> QED
        BY <3>1, <3>2, <4>1, <4>2 DEF Heads
    <3>4. FirstHead(inbox[curl]) = HeadFor(uploadsize)
      BY <3>1, <3>3 DEF FirstHead
    <3>5. res' = HeadFor(uploadsize) /\ pc' = "continue"
      <4>1. ~HeadFor(uploadsize).long /\ HeadFor(uploadsize).expect
        BY DEF HeadFor
      <4>2. /\ Heads(inbox[curl]) # {}
            /\ ~(Heads(inbox[curl]) # {} => FirstHead(inbox[curl]).long)
        BY <3>3, <3>4, <4>1
      <4> QED
        BY <1>3, <1>7, <3>4, <4>1, <4>2 DEF RecvHead
    <3>6. replies'[curl'] = 0 /\ cpc' # "head" /\ backlog' = <<>>
      BY <1>2, <2>2, <2>4, <3>1 DEF Unread
    <3>7. HeadRead'
      BY <1>2, <2>3, <3>5, <3>6 DEF HeadRead, Serving
    <3> QED
      BY <1>5, <3>7 DEF Transfer
  <2>5. CASE HeadRead
    <3>1. Heads(inbox[curl]) = {}
      BY <2>5 DEF HeadRead, Heads
    <3>2. pc' = "crashed"
      BY <1>3, <1>7, <3>1 DEF RecvHead
    <3>3. ~Serving /\ ~Serving'
      BY <1>2, <3>2 DEF Serving
    <3>4. Saved' <=> Saved
      BY <1>2 DEF Saved
    <3>5. HeadRead'
      BY <1>2, <2>2, <2>3, <2>5, <3>2, <3>3, <3>4 DEF HeadRead
    <3> QED
      BY <1>5, <3>5 DEF Transfer
  <2> QED
    BY <1>1, <2>4, <2>5
<1> QED
  BY <1>6, <1>7

\* The client that is closed is another one: the one in hand has not ended.
LEMMA TransferCloseSlot ==
  ASSUME ClientInv, Transferring, UNCHANGED clientVars, CloseSlot
  PROVE  Transfer'
<1>1. /\ curl \in Conn /\ peer[curl] = "open" /\ Latest /\ (Unread \/ HeadRead)
      /\ backlog # <<>> => \A fd \in Fd : fdTable[fd] # curl
      /\ backlog = <<>> => IsOpen(Source) /\ fdTable[Source] = curl
  BY InHand
<1>2. /\ UNCHANGED <<cpc, curl, read, uploadsize>>
      /\ UNCHANGED <<pc, inbox, backlog, replies, clientFd>> /\ pc = "scan"
      /\ RecvNothing
  BY DEF clientVars, CloseSlot
<1>3. backlog # <<>>
  BY <1>1, <1>2 DEF RecvNothing, AtEnd, HasError
<1>4. Unread
  BY <1>1, <1>3 DEF HeadRead
<1>5. peer'[curl] = "open"
  <2>1. PICK j \in ReadySlots : peer' = [Reported EXCEPT ![fdTable[client[j]]] = "closed"]
    BY DEF CloseSlot
  <2>2. client[j] \in Fd /\ fdTable[client[j]] # curl
    BY <1>1, <1>3, ReadyOpen DEF ClientInv
  <2> QED
    BY <1>1, <2>1, <2>2, ReportedPeers, ReportedType DEF ClientInv
<1>6. Latest'
  BY <1>1, <1>2, <1>3 DEF Latest
<1>7. Unread'
  BY <1>2, <1>4 DEF Unread, Serving
<1> QED
  BY <1>2, <1>5, <1>6, <1>7 DEF Transfer

\* What the server writes while the post in hand has not been read goes elsewhere.
LEMMA TransferWrites ==
  ASSUME ClientInv, Transferring, Serving, Write(Slot)
  PROVE  /\ UNCHANGED <<inbox, backlog, fdTable>> /\ peer'[curl] = "open"
         /\ replies'[curl] = IF Slot = curl THEN replies[curl] + 1 ELSE replies[curl]
         /\ backlog # <<>> => Slot # curl
<1>1. /\ curl \in Conn /\ peer[curl] = "open"
      /\ backlog # <<>> => \A fd \in Fd : fdTable[fd] # curl
  BY InHand
<1>2. PICK c \in Conn : c = Slot
  BY ServedOpen
<1>3. backlog # <<>> => c # curl
  BY <1>1, <1>2, ServedOpen DEF Slot
<1>4. SocketsTypeOK
  BY DEF ClientInv, UploadInv, UploadTypeOK
<1> QED
  BY <1>1, <1>2, <1>3, <1>4 DEF Write, SocketsTypeOK

\* The interim answer to the post in hand, or to another one.
LEMMA TransferContinue ==
  ASSUME ClientInv, Transferring, UNCHANGED clientVars, SendContinue
  PROVE  Transfer'
<1>1. /\ curl \in Conn /\ Latest /\ (Unread \/ HeadRead)
      /\ inbox[curl] \in Seq(Item) /\ Len(inbox[curl]) \in Nat
  BY InHand
<1>2. /\ UNCHANGED <<cpc, curl, read, uploadsize>> /\ UNCHANGED <<client, clientFd, i, res>>
      /\ pc = "continue" /\ Write(Slot) /\ totalLen' = 0 /\ file' = <<>>
      /\ pc' \in {"upload", "crashed"} /\ Serving
  BY DEF clientVars, SendContinue, loopVars, Serving
<1>3. /\ UNCHANGED <<inbox, backlog, fdTable>> /\ peer'[curl] = "open"
      /\ replies'[curl] = IF Slot = curl THEN replies[curl] + 1 ELSE replies[curl]
      /\ backlog # <<>> => Slot # curl
  BY <1>2, TransferWrites
<1>4. Latest' /\ peer'[curl'] = "open"
  BY <1>1, <1>2, <1>3 DEF Latest
<1>5. CASE Unread
  <2>1. Unread'
    BY <1>2, <1>3, <1>5 DEF Unread, Serving
  <2> QED
    BY <1>4, <2>1 DEF Transfer
<1>6. CASE HeadRead
  <2>1. Slot' = Slot
    BY <1>2, <1>3 DEF Slot
  <2>2. replies'[curl'] = IF Slot = curl THEN 1 ELSE 0
    BY <1>2, <1>3, <1>6 DEF HeadRead
  <2>3. Slot = curl => /\ res'.length = uploadsize'
                       /\ file' = [n \in 1..totalLen' |-> curl']
                       /\ totalLen' + Len(inbox'[curl']) <= read'
    <3> SUFFICES ASSUME Slot = curl
                 PROVE  /\ res'.length = uploadsize'
                        /\ file' = [n \in 1..totalLen' |-> curl']
                        /\ totalLen' + Len(inbox'[curl']) <= read'
      OBVIOUS
    <3>1. res = HeadFor(uploadsize)
      BY <1>2, <1>6 DEF HeadRead
    <3>2. res'.length = uploadsize'
      BY <1>2, <3>1 DEF HeadFor
    <3>3. file' = [n \in 1..0 |-> curl']
      BY <1>2
    <3>4. Len(inbox[curl]) <= read
      BY <1>6 DEF HeadRead
    <3> QED
      BY <1>1, <1>2, <1>3, <3>2, <3>3, <3>4
  <2>4. HeadRead'
    BY <1>2, <1>3, <1>6, <2>1, <2>2, <2>3 DEF HeadRead, Serving
  <2> QED
    BY <1>4, <2>4 DEF Transfer
<1> QED
  BY <1>1, <1>5, <1>6

\* The response to the post in hand, or to another one.
LEMMA TransferRespond ==
  ASSUME ClientInv, Transferring, UNCHANGED clientVars, Respond
  PROVE  Transfer'
<1>1. /\ curl \in Conn /\ Latest /\ (Unread \/ HeadRead)
  BY InHand
<1>2. /\ UNCHANGED <<cpc, curl, read, uploadsize>> /\ UNCHANGED <<client, clientFd, file>>
      /\ pc = "respond" /\ Write(Slot) /\ Serving /\ pc' = "scan"
  BY DEF clientVars, Respond, loopVars, requestVars, Serving
<1>3. /\ UNCHANGED <<inbox, backlog, fdTable>> /\ peer'[curl] = "open"
      /\ replies'[curl] = IF Slot = curl THEN replies[curl] + 1 ELSE replies[curl]
      /\ backlog # <<>> => Slot # curl
  BY <1>2, TransferWrites
<1>4. Latest' /\ peer'[curl'] = "open"
  BY <1>1, <1>2, <1>3 DEF Latest
<1>5. CASE Unread
  <2>1. Unread'
    BY <1>2, <1>3, <1>5 DEF Unread, Serving
  <2> QED
    BY <1>4, <2>1 DEF Transfer
<1>6. CASE HeadRead
  <2>1. Saved' <=> Saved
    BY <1>2 DEF Saved
  <2>2. replies'[curl'] >= 2 => Saved
    BY <1>2, <1>3, <1>6 DEF HeadRead
  <2>3. HeadRead'
    BY <1>2, <1>3, <1>6, <2>1, <2>2 DEF HeadRead, Serving
  <2> QED
    BY <1>4, <2>3 DEF Transfer
<1> QED
  BY <1>1, <1>5, <1>6

\* Blocks of one connection that follow blocks of the same.
LEMMA MoreBlocks ==
  ASSUME NEW c \in Conn, NEW m \in Nat, NEW d \in Seq(Item)
  PROVE  [n \in 1..m |-> c] \o [n \in DOMAIN d |-> c] = [n \in 1..(m + Len(d)) |-> c]
<1> DEFINE s == [n \in 1..m |-> c]
           t == [n \in DOMAIN d |-> c]
<1>1. PICK k \in Nat : k = Len(d)
  OBVIOUS
<1>2. s \in Seq(Conn) /\ Len(s) = m /\ \A n \in 1..m : s[n] = c
  OBVIOUS
<1>3. t \in Seq(Conn) /\ Len(t) = k /\ \A n \in 1..k : t[n] = c
  BY <1>1
<1> HIDE DEF s, t
<1>4. s \o t \in Seq(Conn) /\ Len(s \o t) = m + k
  BY <1>1, <1>2, <1>3
<1>5. \A n \in 1..(m + k) : (s \o t)[n] = IF n <= m THEN s[n] ELSE t[n - m]
  BY <1>1, <1>2, <1>3
<1>6. \A n \in 1..(m + k) : (s \o t)[n] = c
  BY <1>1, <1>2, <1>3, <1>5
<1>7. s \o t = [n \in 1..(m + k) |-> c]
  <2> DEFINE r == [n \in 1..(m + k) |-> c]
  <2>1. r \in Seq(Conn) /\ Len(r) = m + k /\ \A n \in 1..(m + k) : r[n] = c
    BY <1>1
  <2> HIDE DEF r
  <2>2. s \o t = r
    BY <1>4, <1>6, <2>1, SeqEqual
  <2> QED
    BY <2>2 DEF r
<1> QED
  BY <1>1, <1>7 DEF s, t

\* The blocks that the loop counts and writes are those of the post in hand, once
\* its head was read; before that they are of a post that was given up.
LEMMA TransferRecvUpload ==
  ASSUME ClientInv, Transferring, UNCHANGED clientVars, RecvUpload
  PROVE  Transfer'
<1>1. /\ curl \in Conn /\ peer[curl] = "open" /\ Latest /\ (Unread \/ HeadRead)
      /\ inbox[curl] \in Seq(Item) /\ Len(inbox[curl]) \in Nat
      /\ backlog # <<>> => \A fd \in Fd : fdTable[fd] # curl
      /\ backlog = <<>> => IsOpen(Source) /\ fdTable[Source] = curl
  BY InHand
<1>2. /\ UNCHANGED <<cpc, curl, read, uploadsize>>
      /\ UNCHANGED <<client, clientFd, i, res>> /\ pc = "upload" /\ Serving
  BY DEF clientVars, RecvUpload, loopVars, Serving
<1>3. /\ UNCHANGED <<backlog, fdTable, replies>> /\ peer'[curl] = "open"
      /\ \A c \in Conn : inbox'[c] = IF IsOpen(Source) /\ c = fdTable[Source] /\ RecvData
                                     THEN <<>> ELSE inbox[c]
  <2>1. CASE RecvData /\ TakeAll(fdTable[Source])
    BY <1>1, <2>1, SourceConn
    DEF TakeAll, RecvData, ClientInv, UploadInv, UploadTypeOK, SocketsTypeOK
  <2>2. CASE ~RecvData /\ peer' = Reported /\ UNCHANGED <<inbox, backlog, fdTable, replies>>
    BY <1>1, <2>2, ReportedPeers DEF ClientInv
  <2>3. RecvNothing => ~RecvData
    BY DEF RecvNothing, RecvData, AtEnd, HasError, HasData
  <2> QED
    BY <2>1, <2>2, <2>3 DEF RecvUpload
<1>4. Latest' /\ peer'[curl'] = "open"
  BY <1>1, <1>2, <1>3 DEF Latest
<1>5. CASE backlog # <<>>
  <2>1. Unread /\ inbox'[curl'] = inbox[curl]
    BY <1>1, <1>2, <1>3, <1>5 DEF HeadRead, IsOpen
  <2>2. Unread'
    BY <1>2, <1>3, <1>5, <2>1 DEF Unread
  <2> QED
    BY <1>4, <2>2 DEF Transfer
<1>6. CASE backlog = <<>>
  <2>1. HeadRead /\ fdTable[Source] = curl
    BY <1>1, <1>2, <1>6 DEF Unread
  <2>2. /\ RecvData /\ totalLen' = totalLen + Len(inbox[curl])
        /\ file' = file \o [n \in DOMAIN inbox[curl] |-> curl]
        /\ pc' = IF res.length = NoLength THEN "crashed"
                 ELSE IF totalLen' = res.length THEN "respond" ELSE "upload"
    BY <1>1, <1>6, <2>1 DEF RecvUpload, RecvNothing, AtEnd, HasError
  <2>3. inbox'[curl'] = <<>>
    BY <1>1, <1>2, <1>3, <1>6, <2>1, <2>2
  <2>4. totalLen \in Nat /\ read \in Nat /\ uploadsize \in Nat
    BY UploadClientAssumption
    DEF ClientInv, ClientTypeOK, Blocks, UploadInv, UploadTypeOK
  <2>5. Slot' = Slot /\ replies'[curl'] = IF Slot = curl THEN 1 ELSE 0
    BY <1>2, <1>3, <2>1 DEF HeadRead, Slot
  <2>6. Slot = curl => /\ res'.length = uploadsize'
                       /\ file' = [n \in 1..totalLen' |-> curl']
                       /\ totalLen' \in Nat /\ totalLen' <= read'
    <3> SUFFICES ASSUME Slot = curl
                 PROVE  /\ res'.length = uploadsize'
                        /\ file' = [n \in 1..totalLen' |-> curl']
                        /\ totalLen' \in Nat /\ totalLen' <= read'
      OBVIOUS
    <3>1. /\ res.length = uploadsize /\ file = [n \in 1..totalLen |-> curl]
          /\ totalLen + Len(inbox[curl]) <= read
      BY <1>2, <2>1 DEF HeadRead
    <3>2. file' = [n \in 1..(totalLen + Len(inbox[curl])) |-> curl]
      BY <1>1, <2>2, <2>4, <3>1, MoreBlocks
    <3>3. res'.length = uploadsize'
      BY <1>2, <3>1
    <3>4. file' = [n \in 1..totalLen' |-> curl']
      BY <1>2, <2>2, <3>2
    <3>5. totalLen' \in Nat /\ totalLen' <= read'
      BY <1>1, <1>2, <2>2, <2>4, <3>1
    <3> QED
      BY <3>3, <3>4, <3>5
  <2>7. pc' = "respond" /\ Slot = curl => Saved'
    <3> SUFFICES ASSUME pc' = "respond", Slot = curl PROVE Saved'
      OBVIOUS
    <3>1. totalLen' = uploadsize'
      BY <1>2, <2>2, <2>6
    <3> QED
      BY <2>6, <3>1 DEF Saved
  <2>8. pc' \in {"crashed", "respond", "upload"}
    BY <2>2
  <2>9. HeadRead'
    <3>1. cpc' # "head" /\ backlog' = <<>>
      BY <1>2, <1>3, <1>6, <2>1 DEF HeadRead
    <3>2. Len(inbox'[curl']) = 0 /\ DOMAIN inbox'[curl'] = {} /\ 0 <= read'
      BY <1>2, <2>3, <2>4
    <3>3. Slot' = curl' <=> Slot = curl
      BY <1>2, <2>5
    <3>4. \A n \in Nat : n + Len(inbox'[curl']) = n
      BY <3>2
    <3> QED
      BY <2>5, <2>6, <2>7, <2>8, <3>1, <3>2, <3>3, <3>4 DEF HeadRead, Serving
  <2> QED
    BY <1>4, <2>9 DEF Transfer
<1> QED
  BY <1>5, <1>6

\* accept takes the connection in hand when it is the last that waits; what recv
\* reads next is then its head.
LEMMA TransferAccept ==
  ASSUME ClientInv, Transferring, UNCHANGED clientVars, AcceptConnection
  PROVE  Transfer'
<1>1. /\ curl \in Conn /\ peer[curl] = "open" /\ Latest /\ (Unread \/ HeadRead)
      /\ backlog \in Seq(Conn)
  BY InHand
<1>2. pc = "scan" /\ backlog # <<>> /\ UNCHANGED <<file, cpc, curl, read, uploadsize>>
  BY DEF AcceptConnection, ClientInv, UploadInv, ListenerPending, clientVars, requestVars
<1>3. ASSUME NEW fd \in Fd, AcceptFd(fd), clientFd' = Remembered(fd),
             pc' = "select" \/ pc' = "crashed"
      PROVE  Transfer'
  <2>1. /\ backlog' = Tail(backlog) /\ UNCHANGED <<peer, inbox, replies>>
        /\ fdTable' = [fdTable EXCEPT ![fd] = Head(backlog)]
        /\ clientFd' = fd
    BY <1>3 DEF AcceptFd, Remembered
  <2>2. Unread /\ backlog[Len(backlog)] = curl
    BY <1>1, <1>2 DEF HeadRead, Latest
  <2>3. Latest'
    <3>1. CASE Len(backlog) = 1
      <4>1. backlog' = <<>> /\ Head(backlog) = curl
        BY <1>1, <1>2, <2>1, <2>2, <3>1
      <4>2. fdTable'[fd] = curl
        BY <2>1, <4>1 DEF ClientInv, UploadInv, UploadTypeOK, SocketsTypeOK
      <4> QED
        BY <1>2, <2>1, <4>1, <4>2 DEF Latest
    <3>2. CASE Len(backlog) # 1
      <4>1. PICK k \in Nat : k = Len(backlog) /\ k > 1
        <5>1. Len(backlog) \in Nat /\ 1 \in 1..Len(backlog)
          BY <1>1, <1>2
        <5> QED
          BY <3>2, <5>1
      <4>2. Len(Tail(backlog)) = k - 1 /\ Tail(backlog)[k - 1] = backlog[k]
        BY <1>1, <4>1
      <4>3. Tail(backlog) # <<>>
        <5>1. Len(<<>>) = 0 /\ k - 1 # 0
          BY <4>1
        <5> QED
          BY <4>2, <5>1, Zenon
      <4> QED
        BY <1>2, <2>1, <2>2, <4>1, <4>2, <4>3 DEF Latest
    <3> QED
      BY <3>1, <3>2
  <2>4. Unread'
    BY <1>2, <1>3, <2>1, <2>2 DEF Unread, Serving
  <2> QED
    BY <1>1, <1>2, <2>1, <2>3, <2>4 DEF Transfer
<1>4. CASE pc' = "exited" /\ UNCHANGED <<sockVars, clientFd>>
  <2>1. ~Serving'
    BY <1>4 DEF Serving
  <2> QED
    BY <1>2, <1>4, <2>1, TransferRests
<1> QED
  BY <1>3, <1>4 DEF AcceptConnection

\* Whatever the server does, the post in hand stays where it should be.
LEMMA TransferServer ==
  ASSUME ClientInv, UNCHANGED clientVars, ServerStep
  PROVE  Transfer'
<1>1. CASE ~Transferring
  <2>1. ~Transferring'
    BY <1>1 DEF Transferring, clientVars
  <2> QED
    BY <2>1 DEF Transfer
<1>2. CASE Transferring
  <2>1. CASE Select \/ SelectFails \/ SendDies \/ PassDone
    <3>1. UNCHANGED <<sockVars, clientFd, file>> /\ ~Serving'
      BY <2>1
      DEF Select, SelectFails, SendDies, PassDone, Serving, loopVars, requestVars
    <3> QED
      BY <1>2, <3>1, TransferRests
  <2>2. CASE SelectTimeout
    <3>1. UNCHANGED <<sockVars, clientFd, file>> /\ ~Serving'
      BY <2>2 DEF SelectTimeout, Serving, serverVars, loopVars, requestVars
    <3> QED
      BY <1>2, <3>1, TransferRests
  <2> QED
    BY <1>2, <2>1, <2>2, TransferRecvHead, TransferCloseSlot, TransferContinue,
       TransferRecvUpload, TransferRespond, TransferAccept DEF ServerStep
<1> QED
  BY <1>1, <1>2

\* Every step of the server keeps the invariant of both programs.
LEMMA ServerActsKeep ==
  ASSUME ClientInv, ServerStep, UNCHANGED clientVars, UNCHANGED alone
  PROVE  ClientInv'
<1>1. UploadInv'
  BY ServerKeeps DEF ClientInv
<1>2. /\ OnePlace'
      /\ \A c \in Conn : peer'[c] = "idle" <=> peer[c] = "idle"
      /\ \A c \in Conn : inbox'[c] = inbox[c] \/ inbox'[c] = <<>>
  BY ServerSockets DEF ClientInv
<1>3. ClientTypeOK' /\ Progress'
  BY <1>1 DEF ClientInv, ClientTypeOK, UploadInv, Progress, clientVars
<1>4. Spare'
  BY <1>2 DEF ClientInv, Spare, Unused, clientVars
<1> QED
  BY <1>1, <1>2, <1>3, <1>4, TransferServer DEF ClientInv
----------------------------------------------------------------------------
(* What the client does. *)

\* Nothing was sent on a connection that was not made.
UnusedEmpty == \A c \in Conn : peer[c] = "idle" => inbox[c] = <<>>

\* A step that leaves the sockets and the server alone.
LEMMA ClientRests ==
  ASSUME ClientInv, UNCHANGED <<sockVars, serverVars>>, alone' \in BOOLEAN
  PROVE  UploadInv' /\ OnePlace' /\ UnusedEmpty' /\ Unused' = Unused
<1>1. UploadInv'
  BY StutterKeeps DEF ClientInv
<1>2. SocketsTypeOK /\ UNCHANGED <<peer, inbox, backlog, fdTable, replies>>
  BY DEF ClientInv, UploadInv, UploadTypeOK, sockVars
<1>3. OnePlace'
  BY <1>2, OnePlaceKept DEF ClientInv
<1> QED
  BY <1>1, <1>2, <1>3 DEF UnusedEmpty, Unused, ClientInv, Spare

\* The client is one of the peers that the server was made for.
LEMMA ClientIsPeer ==
  ASSUME ClientInv, UNCHANGED serverVars, alone' \in BOOLEAN, NEW c \in Conn,
         \/ Connect(c)
         \/ \E x \in Item : PeerSend(c, x)
         \/ PeerClose(c)
  PROVE  UploadInv' /\ OnePlace' /\ UnusedEmpty'
<1>1. UploadInv'
  BY PeersKeep DEF PeerStep, ClientInv
<1>2. SocketsTypeOK
  BY DEF ClientInv, UploadInv, UploadTypeOK
<1>3. OnePlace'
  <2>1. CASE Connect(c)
    BY <1>2, <2>1, OnePlaceConnect DEF ClientInv
  <2>2. CASE ~Connect(c)
    <3>1. /\ UNCHANGED <<backlog, fdTable, replies>>
          /\ \A x \in Conn : peer'[x] = "idle" <=> peer[x] = "idle"
      BY <1>2, <2>2 DEF PeerSend, PeerClose, SocketsTypeOK
    <3> QED
      BY <1>2, <3>1, OnePlaceKept DEF ClientInv
  <2> QED
    BY <2>1, <2>2
<1>4. UnusedEmpty'
  BY <1>2 DEF UnusedEmpty, ClientInv, Spare, Connect, PeerSend, PeerClose, SocketsTypeOK
<1> QED
  BY <1>1, <1>3, <1>4

\* A step that leaves the sockets, the server and the post in hand alone.
LEMMA TransferKept ==
  ASSUME ClientInv, Transferring, UNCHANGED <<sockVars, serverVars, curl, read, uploadsize>>,
         cpc' = "head" <=> cpc = "head"
  PROVE  Transfer'
<1>1. peer[curl] = "open" /\ Latest /\ (Unread \/ HeadRead)
  BY InHand
<1>2. UNCHANGED <<peer, inbox, backlog, fdTable, replies>>
      /\ UNCHANGED <<pc, i, client, clientFd, file, totalLen, res>>
  BY DEF sockVars, serverVars, loopVars, requestVars
<1>3. Latest' /\ peer'[curl'] = "open"
  BY <1>1, <1>2 DEF Latest
<1>4. ASSUME Unread PROVE Unread'
  BY <1>2, <1>4 DEF Unread, Serving
<1>5. ASSUME HeadRead PROVE HeadRead'
  BY <1>2, <1>5 DEF HeadRead, Serving, Slot, Saved
<1> QED
  BY <1>1, <1>3, <1>4, <1>5 DEF Transfer

\* Steps of the client that leave the sockets alone.
LEMMA QuietClientKeeps ==
  ASSUME ClientInv, UNCHANGED <<sockVars, serverVars>>, alone' \in BOOLEAN,
         \/ Choose \/ StatFile \/ OpenFile \/ Answered \/ Timeout \/ Lost \/ Shrink
         \/ UNCHANGED clientVars
  PROVE  ClientInv'
<1>1. UploadInv' /\ OnePlace' /\ UnusedEmpty' /\ Unused' = Unused
  BY ClientRests
<1>2. ClientTypeOK
  BY DEF ClientInv
<1>3. UploadTypeOK'
  BY <1>1 DEF UploadInv
<1>4. ASSUME Choose \/ StatFile PROVE ClientInv'
  <2>1. cpc' \in {"stat", "exited", "open"} /\ UNCHANGED <<opened, uploadsize, curl, read, outcome>>
        /\ disk' \in Blocks \cup {NoFile}
    BY <1>2, <1>4 DEF Choose, StatFile, ClientTypeOK
  <2>2. ClientTypeOK' /\ Progress' /\ Transfer'
    BY <1>2, <1>3, <2>1 DEF ClientTypeOK, Ended, Progress, Transfer, Transferring
  <2>3. Spare'
    BY <1>1, <1>4 DEF Choose, StatFile, ClientInv, Spare, UnusedEmpty
  <2> QED
    BY <1>1, <2>2, <2>3 DEF ClientInv
<1>5. ASSUME OpenFile PROVE ClientInv'
  <2>1. cpc = "open" /\ cpc' = "connect" /\ UNCHANGED <<disk, curl, outcome>> /\ read' = 0
        /\ uploadsize' \in Blocks /\ opened' \in BOOLEAN
    BY <1>2, <1>5 DEF OpenFile, ClientTypeOK
  <2>2. 0 \in 0..uploadsize'
    BY <2>1, UploadClientAssumption DEF Blocks
  <2>3. ClientTypeOK' /\ Progress' /\ Transfer'
    BY <1>2, <1>3, <2>1, <2>2 DEF ClientTypeOK, Performing, Progress, Transfer, Transferring
  <2>4. Spare'
    BY <1>1, <2>1 DEF ClientInv, Spare, UnusedEmpty
  <2> QED
    BY <1>1, <2>3, <2>4 DEF ClientInv
<1>6. ASSUME Answered \/ Timeout \/ Lost PROVE ClientInv'
  <2>1. cpc' = "cleanup" /\ UNCHANGED <<disk, opened, uploadsize, curl, read>>
        /\ outcome' \in CURLcode
    BY <1>6 DEF Answered, Timeout, Lost, Return, CURLcode
  <2>2. ClientTypeOK' /\ Progress' /\ Transfer'
    BY <1>2, <1>3, <2>1 DEF ClientTypeOK, Progress, Transfer, Transferring
  <2>3. Spare'
    BY <1>1, <2>1 DEF Spare, UnusedEmpty
  <2> QED
    BY <1>1, <2>2, <2>3 DEF ClientInv
<1>7. ASSUME Shrink \/ UNCHANGED clientVars PROVE ClientInv'
  <2>1. UNCHANGED <<cpc, opened, uploadsize, curl, read, outcome>>
        /\ disk' \in Blocks \cup {NoFile}
    BY <1>2, <1>7 DEF Shrink, clientVars, ClientTypeOK
  <2>2. ClientTypeOK' /\ Progress'
    BY <1>2, <1>3, <2>1 DEF ClientTypeOK, Progress, ClientInv
  <2>3. Spare'
    BY <1>1, <2>1 DEF ClientInv, Spare, UnusedEmpty
  <2>4. Transfer'
    <3>1. CASE Transferring
      BY <2>1, <3>1, TransferKept
    <3>2. CASE ~Transferring
      BY <2>1, <3>2 DEF Transferring, Transfer
    <3> QED
      BY <3>1, <3>2
  <2> QED
    BY <1>1, <2>2, <2>3, <2>4 DEF ClientInv
<1> QED
  BY <1>4, <1>5, <1>6, <1>7

\* A connection that nothing was ever sent on is made for the post.
LEMMA ConnectKeeps ==
  ASSUME ClientInv, ConnectServer, UNCHANGED serverVars, alone' \in BOOLEAN
  PROVE  ClientInv'
<1>1. cpc = "connect" /\ UNCHANGED <<disk, opened, uploadsize, read>> /\ ClientTypeOK
  BY DEF ConnectServer, ClientInv
<1>2. ASSUME curl' = CHOOSE c \in Unused : TRUE, Connect(curl'), cpc' = "head",
             UNCHANGED outcome
      PROVE  ClientInv'
  <2>1. PICK c \in Conn : c = curl' /\ c \in Unused
    <3>1. Unused # {}
      BY <1>1 DEF ClientInv, Spare
    <3> QED
      BY <1>2, <3>1 DEF Unused
  <2>2. /\ peer[c] = "idle" /\ peer' = [peer EXCEPT ![c] = "open"]
        /\ backlog' = Append(backlog, c) /\ UNCHANGED <<inbox, fdTable, replies>>
    BY <1>2, <2>1 DEF Connect
  <2>3. UploadInv' /\ OnePlace' /\ UnusedEmpty'
    BY <1>2, <2>1, ClientIsPeer
  <2>4. ClientTypeOK'
    BY <1>1, <1>2, <2>1, <2>3, SocketsAssumption DEF ClientTypeOK, UploadInv, Performing
  <2>5. Spare' /\ Progress'
    BY <1>1, <1>2, <2>3 DEF Spare, Progress, UnusedEmpty, ClientInv
  <2>6. /\ backlog \in Seq(Conn) /\ peer'[c] = "open"
        /\ inbox[c] = <<>> /\ replies[c] = 0
    BY <2>1, <2>2 DEF ClientInv, Spare, OnePlace, Waiting, UploadInv, UploadTypeOK, SocketsTypeOK
  <2>7. backlog' # <<>> /\ backlog'[Len(backlog')] = c
    BY <2>2, <2>6
  <2>8. Latest' /\ Unread'
    BY <1>2, <2>1, <2>2, <2>6, <2>7 DEF Latest, Unread
  <2>9. Transfer'
    BY <2>1, <2>6, <2>8 DEF Transfer
  <2> QED
    BY <2>3, <2>4, <2>5, <2>9 DEF ClientInv
<1>3. ASSUME Return("CURLE_COULDNT_CONNECT"), UNCHANGED <<sockVars, curl>>
      PROVE  ClientInv'
  <2>1. cpc' = "cleanup" /\ outcome' \in CURLcode
    BY <1>3 DEF Return, CURLcode
  <2>2. UploadInv' /\ OnePlace' /\ UnusedEmpty'
    BY <1>3, ClientRests
  <2>3. ClientTypeOK' /\ Spare' /\ Progress' /\ Transfer'
    BY <1>1, <1>3, <2>1, <2>2
    DEF ClientTypeOK, UploadInv, Spare, Progress, Transfer, Transferring, UnusedEmpty
  <2> QED
    BY <2>2, <2>3 DEF ClientInv
<1> QED
  BY <1>2, <1>3 DEF ConnectServer

\* The head goes before everything else on its connection.
LEMMA SendHeadKeeps ==
  ASSUME ClientInv, SendHead, UNCHANGED serverVars, alone' \in BOOLEAN
  PROVE  ClientInv'
<1>1. /\ cpc = "head" /\ UNCHANGED <<disk, opened, uploadsize, curl, read, outcome>>
      /\ cpc' = IF uploadsize = 0 THEN "await" ELSE "body"
      /\ ClientTypeOK /\ curl \in Conn /\ read = 0 /\ uploadsize \in Nat
  BY UploadClientAssumption
  DEF SendHead, ClientInv, ClientTypeOK, Progress, Blocks
<1>2. HeadFor(uploadsize) \in Item
  BY UploadClientAssumption DEF ClientInv, ClientTypeOK, Item
<1>3. UploadInv' /\ OnePlace' /\ UnusedEmpty'
  BY <1>1, <1>2, ClientIsPeer DEF SendHead
<1>4. ClientTypeOK' /\ Spare' /\ Progress'
  BY <1>1, <1>3
  DEF ClientTypeOK, UploadInv, Performing, Spare, Progress, UnusedEmpty
<1>5. peer[curl] = "open" /\ Latest /\ Unread
  BY <1>1, InHand DEF Transferring, HeadRead
<1>6. /\ inbox' = [inbox EXCEPT ![curl] = Append(@, HeadFor(uploadsize))]
      /\ UNCHANGED <<peer, backlog, fdTable, replies, clientFd, pc>>
  BY DEF SendHead, PeerSend, serverVars, loopVars
<1>7. inbox'[curl] = <<HeadFor(uploadsize)>>
  <2>1. inbox[curl] = <<>> /\ inbox \in [Conn -> Seq(Item)]
    BY <1>1, <1>5 DEF Unread, ClientInv, UploadInv, UploadTypeOK, SocketsTypeOK
  <2>2. inbox'[curl] = Append(<<>>, HeadFor(uploadsize))
    BY <1>1, <1>6, <2>1, Zenon
  <2> QED
    BY <2>2
<1>8. Latest' /\ peer'[curl'] = "open"
  BY <1>1, <1>5, <1>6 DEF Latest
<1>9. Unread'
  <2>1. Len(inbox'[curl']) = read' + 1 /\ inbox'[curl'][1] = HeadFor(uploadsize')
    BY <1>1, <1>7
  <2>2. \A n \in 2..Len(inbox'[curl']) : inbox'[curl'][n] = Body
    BY <1>1, <2>1
  <2> QED
    BY <1>1, <1>5, <1>6, <2>1, <2>2 DEF Unread, Serving
<1> QED
  BY <1>3, <1>4, <1>8, <1>9 DEF ClientInv, Transfer

\* A block goes behind the head, or behind the blocks that were not read yet.
LEMMA SendBlockKeeps ==
  ASSUME ClientInv, UNCHANGED serverVars, alone' \in BOOLEAN,
         cpc = "body", PeerSend(curl, Body), read' = read + 1,
         cpc' = IF BodySent(read') THEN "await" ELSE "body",
         UNCHANGED <<disk, opened, uploadsize, curl, outcome>>
  PROVE  ClientInv'
<1>1. /\ ClientTypeOK /\ curl \in Conn /\ uploadsize \in Nat /\ read \in Nat
      /\ read < uploadsize
  BY UploadClientAssumption DEF ClientInv, ClientTypeOK, Progress, Blocks
<1>2. UploadInv' /\ OnePlace' /\ UnusedEmpty'
  BY <1>1, ClientIsPeer DEF Item
<1>3. ClientTypeOK' /\ Spare' /\ Progress'
  BY <1>1, <1>2
  DEF ClientTypeOK, UploadInv, Performing, Spare, Progress, UnusedEmpty, BodySent
<1>4. /\ peer[curl] = "open" /\ Latest /\ (Unread \/ HeadRead)
      /\ inbox[curl] \in Seq(Item) /\ Len(inbox[curl]) \in Nat
  BY InHand DEF Transferring
<1>5. /\ inbox' = [inbox EXCEPT ![curl] = Append(@, Body)]
      /\ UNCHANGED <<peer, backlog, fdTable, replies>>
      /\ UNCHANGED <<pc, i, client, clientFd, file, totalLen, res>>
  BY DEF PeerSend, serverVars, loopVars, requestVars
<1>6. inbox'[curl'] = Append(inbox[curl], Body)
  BY <1>1, <1>5 DEF ClientInv, UploadInv, UploadTypeOK, SocketsTypeOK
<1>7. PICK m \in Nat : m = Len(inbox[curl])
  BY <1>4
<1>8. /\ Len(inbox'[curl']) = m + 1 /\ DOMAIN inbox'[curl'] = 1..(m + 1)
      /\ inbox'[curl'][m + 1] = Body
      /\ \A n \in 1..m : inbox'[curl'][n] = inbox[curl][n]
  BY <1>4, <1>6, <1>7, Body \in Item DEF Item
<1>9. Latest' /\ peer'[curl'] = "open" /\ cpc' # "head"
  BY <1>4, <1>5 DEF Latest
<1>10. ASSUME Unread PROVE Unread'
  <2>1. m = read + 1 /\ inbox[curl][1] = HeadFor(uploadsize)
        /\ \A n \in 2..m : inbox[curl][n] = Body
    BY <1>7, <1>10 DEF Unread
  <2>2. Len(inbox'[curl']) = read' + 1 /\ inbox'[curl'][1] = HeadFor(uploadsize')
    BY <1>1, <1>8, <2>1
  <2>3. \A n \in 2..Len(inbox'[curl']) : inbox'[curl'][n] = Body
    <3>1. \A n \in 2..(m + 1) : (n \in 1..m /\ n \in 2..m) \/ n = m + 1
      OBVIOUS
    <3>2. \A n \in 2..(m + 1) : inbox'[curl'][n] = Body
      BY <1>8, <2>1, <3>1, Zenon
    <3> QED
      BY <1>8, <3>2, Zenon
  <2> QED
    BY <1>5, <1>9, <1>10, <2>2, <2>3 DEF Unread, Serving
<1>11. ASSUME HeadRead PROVE HeadRead'
  <2>1. m <= read /\ \A n \in 1..m : inbox[curl][n] = Body
    BY <1>4, <1>7, <1>11 DEF HeadRead
  <2>2. Len(inbox'[curl']) <= read' /\ \A n \in DOMAIN inbox'[curl'] : inbox'[curl'][n] = Body
    BY <1>1, <1>8, <2>1
  <2>3. totalLen + Len(inbox[curl]) <= read => totalLen' + Len(inbox'[curl']) <= read'
    <3>1. totalLen \in Nat /\ totalLen' = totalLen
      BY <1>5 DEF ClientInv, UploadInv, UploadTypeOK
    <3> QED
      BY <1>1, <1>7, <1>8, <3>1
  <2>4. Slot' = Slot /\ (Saved' <=> Saved) /\ (Serving' <=> Serving)
    BY <1>5 DEF Slot, Saved, Serving
  <2> QED
    BY <1>5, <1>9, <1>11, <2>2, <2>3, <2>4 DEF HeadRead
<1> QED
  BY <1>2, <1>3, <1>4, <1>9, <1>10, <1>11 DEF ClientInv, Transfer

\* The rest of the body: the file has ended early, or cannot be read.
LEMMA SendBodyKeeps ==
  ASSUME ClientInv, SendBody, UNCHANGED serverVars, alone' \in BOOLEAN
  PROVE  ClientInv'
<1>1. cpc = "body" /\ UNCHANGED <<disk, opened, uploadsize, curl, outcome>>
      /\ ClientTypeOK /\ Transferring
  BY DEF SendBody, ClientInv, Transferring
<1>2. ASSUME PeerSend(curl, Body), read' = read + 1,
             cpc' = IF BodySent(read') THEN "await" ELSE "body"
      PROVE  ClientInv'
  BY <1>1, <1>2, SendBlockKeeps
<1>3. ASSUME cpc' = "await", UNCHANGED <<sockVars, read>> PROVE ClientInv'
  <2>1. UploadInv' /\ OnePlace' /\ UnusedEmpty'
    BY <1>3, ClientRests
  <2>2. Transfer'
    BY <1>1, <1>3, TransferKept
  <2> QED
    BY <1>1, <1>3, <2>1, <2>2
    DEF ClientInv, ClientTypeOK, UploadInv, Performing, Spare, Progress, UnusedEmpty
<1>4. ASSUME PeerClose(curl), cpc' = "aborted", UNCHANGED read PROVE ClientInv'
  <2>1. curl \in Conn
    BY <1>1 DEF ClientTypeOK
  <2>2. UploadInv' /\ OnePlace' /\ UnusedEmpty'
    BY <1>4, <2>1, ClientIsPeer
  <2> QED
    BY <1>1, <1>4, <2>2
    DEF ClientInv, ClientTypeOK, UploadInv, Ended, Spare, Progress, UnusedEmpty,
        Transfer, Transferring
<1> QED
  BY <1>2, <1>3, <1>4 DEF SendBody

\* The connection of the post is closed.
LEMMA CleanupKeeps ==
  ASSUME ClientInv, Cleanup, UNCHANGED serverVars, alone' \in BOOLEAN
  PROVE  ClientInv'
<1>1. /\ cpc' \in {"menu", "aborted"} /\ curl' = NoConn
      /\ UNCHANGED <<disk, opened, uploadsize, read, outcome>>
      /\ ClientTypeOK
  BY DEF Cleanup, ClientInv
<1>2. UploadInv' /\ OnePlace' /\ UnusedEmpty'
  <2>1. CASE curl # NoConn /\ peer[curl] = "open"
    BY <1>1, <2>1, ClientIsPeer DEF Cleanup, CloseConnection, ClientTypeOK
  <2>2. CASE ~(curl # NoConn /\ peer[curl] = "open")
    BY <2>2, ClientRests DEF Cleanup, CloseConnection
  <2> QED
    BY <2>1, <2>2
<1> QED
  BY <1>1, <1>2
  DEF ClientInv, ClientTypeOK, UploadInv, Ended, Spare, Progress, UnusedEmpty,
      Transfer, Transferring

\* Every step of the client keeps the invariant of both programs.
LEMMA ClientActsKeep ==
  ASSUME ClientInv, ClientStep, UNCHANGED serverVars, alone' \in BOOLEAN
  PROVE  ClientInv'
<1>1. Choose \/ StatFile \/ OpenFile \/ Answered \/ Timeout \/ Lost => UNCHANGED sockVars
  BY DEF Choose, StatFile, OpenFile, Answered, Timeout, Lost
<1> QED
  BY <1>1, QuietClientKeeps, ConnectKeeps, SendHeadKeeps, SendBodyKeeps, CleanupKeeps
  DEF ClientStep

\* The client starts with no post in hand.
LEMMA ClientAtInit == ClientInit => ClientInv
<1> SUFFICES ASSUME ClientInit PROVE ClientInv
  OBVIOUS
<1>1. UploadInv
  BY UploadInit DEF ClientInit
<1>2. OnePlace /\ \A c \in Conn : inbox[c] = <<>>
  BY DEF ClientInit, Init, SocketsInit, OnePlace, Waiting
<1>3. 0 \in Blocks /\ 0 \in 0..0
  BY UploadClientAssumption DEF Blocks
<1> QED
  BY <1>1, <1>2, <1>3
  DEF ClientInit, ClientInv, ClientTypeOK, UploadInv, CURLcode, Spare, Progress, Transfer,
      Transferring

\* Every step of the two programs, and of whoever changes the file, keeps it.
LEMMA ClientKeeps == ClientInv /\ [ClientNext]_allVars => ClientInv'
<1> SUFFICES ASSUME ClientInv, [ClientNext]_allVars PROVE ClientInv'
  OBVIOUS
<1>0. alone \in BOOLEAN
  BY DEF ClientInv, UploadInv, UploadTypeOK
<1>1. CASE ServerActs
  BY <1>1, ServerActsKeep DEF ServerActs
<1>2. CASE ClientActs
  <2>1. alone' \in BOOLEAN
    BY <1>2, Zenon DEF ClientActs, Remember
  <2> QED
    BY <1>2, <2>1, ClientActsKeep DEF ClientActs
<1>3. CASE Shrink /\ UNCHANGED <<serverVars, alone>>
  BY <1>0, <1>3, QuietClientKeeps DEF Shrink
<1>4. CASE UNCHANGED allVars
  BY <1>0, <1>4, QuietClientKeeps DEF allVars, vars
<1> QED
  BY <1>1, <1>2, <1>3, <1>4 DEF ClientNext, ClientWaits

\* The invariant of the two programs holds in every interleaving.
THEOREM ClientAlways == ClientSpec => []ClientInv
BY ClientAtInit, ClientKeeps, PTL DEF ClientSpec

\* Every variable of the client keeps its type: no more of the body is sent than
\* the size that the head announced, and a transfer has a connection (client.c).
THEOREM ClientTypeCorrect == ClientSpec => []ClientTypeOK
<1>1. ClientInv => ClientTypeOK
  BY DEF ClientInv
<1> QED
  BY <1>1, ClientAlways, PTL

\* When curl_easy_perform returns CURLE_OK the server's file.txt holds what was
\* posted, all of it and nothing else, whatever became of earlier posts (client.c
\* with the upload loop of server.c).
THEOREM AnsweredSaved == ClientSpec => AnsweredIsSaved
<1>1. ClientInv /\ [ClientNext]_allVars =>
        [outcome' = "CURLE_OK" /\ cpc = "await" /\ cpc' = "cleanup"
           => file = [n \in 1..uploadsize |-> curl]]_allVars
  <2> SUFFICES ASSUME ClientInv, [ClientNext]_allVars,
                      outcome' = "CURLE_OK", cpc = "await", cpc' = "cleanup"
               PROVE  file = [n \in 1..uploadsize |-> curl]
    OBVIOUS
  <2>1. Answered
    <3>1. ClientStep
      BY DEF ClientNext, ServerActs, ClientActs, Shrink, ClientWaits, Ended, allVars, clientVars
    <3> QED
      BY <3>1 DEF ClientStep, Choose, StatFile, OpenFile, ConnectServer, SendHead, SendBody,
                  Timeout, Lost, Cleanup, Return
  <2>2. Transferring /\ replies[curl] >= 2
    BY <2>1 DEF Answered, ResponseReceived, Transferring
  <2>3. HeadRead
    BY <2>2, InHand DEF Unread
  <2>4. ~Serving
    BY <2>2, <2>3 DEF HeadRead
  <2> QED
    BY <2>2, <2>3, <2>4 DEF HeadRead, Saved
<1> QED
  BY <1>1, ClientAlways, PTL DEF ClientSpec, AnsweredIsSaved
----------------------------------------------------------------------------
(* What a post says about its file. *)

\* The words that strtok has returned so far, and that name the header.
ReadWords(key) == {n \in WordsOf(key) : n < token}

\* What the words read so far have left in the memory, and what the last post has.
LastWord ==
  AuthorsFit =>
    \A key \in Key : \A n \in ReadWords(key) :
      (\A m \in ReadWords(key) : m <= n) => sInfo[key] = chosen.info[n].value

\* An author that has been read does not reach into the age.
AuthorInside ==
  AuthorsFit /\ ReadWords("author") # {} => sInfo["author"] \notin Long

LeftOver ==
  \A key \in Key : ReadWords(key) = {} => sInfo[key] \in {posted.info[key], Garbage}

InfoInv ==
  /\ InfoTypeOK
  /\ AnswerIsHtml
  /\ at \in {"words", "sent"} => chosen \in Line
  /\ at = "menu" => \A key \in Key : sInfo[key] \in {posted.info[key], Garbage}
  /\ at = "words" => LastWord /\ AuthorInside /\ LeftOver
  /\ at = "sent" => posted.info = sInfo
  /\ HeadersOfLine

\* getFileType returns one of its descriptions.
LEMMA TypeReturned ==
  ASSUME NEW rows \in SUBSET (DOMAIN Table)
  PROVE  TypeOfRows(rows) \in Types
<1>1. DOMAIN Table \subseteq Nat
  BY DEF Table
<1>2. CASE rows = {}
  BY <1>2 DEF TypeOfRows, Types
<1>3. CASE rows # {}
  <2>1. \E n \in rows : \A m \in rows : n <= m
    BY <1>1, <1>3, LeastNumber
  <2>2. (CHOOSE n \in rows : \A m \in rows : n <= m) \in DOMAIN Table
    BY <2>1
  <2> QED
    BY <1>3, <2>2 DEF TypeOfRows, Types
<1> QED
  BY <1>2, <1>3

LEMMA FileTypeReturned ==
  ASSUME NEW name
  PROVE  GetFileType(name) \in Types
<1>1. {n \in DOMAIN Table : Len(name) > 1 /\ Table[n].ext = First3[name[2]]}
        \in SUBSET (DOMAIN Table)
  OBVIOUS
<1> QED
  BY <1>1, TypeReturned DEF GetFileType

\* A type is taken for the name of a file without a known extension.
LEMMA TypeHasNoType ==
  ASSUME NEW type \in Types
  PROVE  GetFileType(type) = Html
<1>1. \A n \in DOMAIN Table : Table[n].ext # "ms-"
  BY SMTT(30) DEF Table, Row
<1>2. Len(type) > 1 => First3[type[2]] = "ms-"
  <2>1. CASE type = Html
    BY <2>1 DEF Html
  <2>2. CASE \E n \in DOMAIN Table : type = Table[n].type
    <3>1. PICK n \in DOMAIN Table : type = Table[n].type
      BY <2>2
    <3>2. Len(type) > 1 => type[2] \in {"ms-powerpoint", "ms-excel"}
      BY <3>1, SMTT(30) DEF Table, Row
    <3> QED
      BY <3>2, SendInfoAssumption
  <2> QED
    BY <2>1, <2>2 DEF Types
<1>3. {n \in DOMAIN Table : Len(type) > 1 /\ Table[n].ext = First3[type[2]]} = {}
  BY <1>1, <1>2
<1> QED
  BY <1>3 DEF GetFileType, TypeOfRows

LEMMA InfoAtInit == InfoInit => InfoInv
<1> SUFFICES ASSUME InfoInit PROVE InfoInv
  OBVIOUS
<1>1. InfoTypeOK
  BY DEF InfoInit, InfoTypeOK, NoLine, Types, Unset
<1>2. \A key \in Key : sInfo[key] \in {posted.info[key], Garbage}
  BY DEF InfoInit, Unset
<1> QED
  BY <1>1, <1>2 DEF InfoInit, InfoInv, AnswerIsHtml, HeadersOfLine

\* A choice leaves the memory with what it held, or loses it.
LEMMA ChoiceKeeps ==
  ASSUME InfoInv, ChooseLine
  PROVE  InfoInv'
<1>1. PICK lost \in SUBSET Key :
        sInfo' = [k \in Key |-> IF k \in lost THEN Garbage ELSE sInfo[k]]
  BY DEF ChooseLine
<1>2. /\ chosen' \in Line /\ chosen'.info \in Seq(Info) /\ token' = 1 /\ at' = "words"
      /\ posted' = posted /\ answer' = answer /\ at = "menu"
  BY SendInfoAssumption DEF ChooseLine
<1>3. InfoTypeOK'
  BY <1>1, <1>2 DEF InfoInv, InfoTypeOK
<1>4. \A key \in Key : sInfo'[key] \in {posted.info[key], Garbage}
  BY <1>1, <1>2 DEF InfoInv
<1>5. \A key \in Key : ReadWords(key)' = {}
  BY <1>2 DEF ReadWords, WordsOf
<1>6. LastWord' /\ AuthorInside' /\ LeftOver'
  BY <1>2, <1>4, <1>5 DEF LastWord, AuthorInside, LeftOver, Key
<1> QED
  BY <1>2, <1>3, <1>6 DEF InfoInv, AnswerIsHtml, HeadersOfLine

\* A word replaces the header that it names, and leaves the other alone unless an
\* author runs over.
LEMMA WordKeeps ==
  ASSUME InfoInv, GetSendInfo
  PROVE  InfoInv'
<1> DEFINE w == chosen.info[token]
<1>1. /\ at = "words" /\ at' = "words" /\ chosen' = chosen /\ posted' = posted
      /\ answer' = answer /\ token' = token + 1 /\ token \in DOMAIN chosen.info
      /\ sInfo' = [k \in Key |-> IF w.key = k THEN w.value
                                ELSE IF w.key \in Key /\ RunsOver(w.key, w.value)
                                THEN Garbage ELSE sInfo[k]]
  <2>1. sInfo \in [Key -> Value \cup {Garbage}]
    BY DEF InfoInv, InfoTypeOK
  <2>2. sInfo' = IF w.key \in Key THEN Filled(w.key, w.value) ELSE sInfo
    BY DEF GetSendInfo, KeyOf
  <2>3. sInfo' = [k \in Key |-> IF w.key = k THEN w.value
                               ELSE IF w.key \in Key /\ RunsOver(w.key, w.value)
                               THEN Garbage ELSE sInfo[k]]
    <3> HIDE DEF w
    <3> QED
      BY <2>1, <2>2 DEF Filled
  <2> QED
    BY <2>3 DEF GetSendInfo
<1>2. /\ chosen \in Line /\ chosen.info \in Seq(Info) /\ token \in Nat
      /\ w \in Info /\ w.value \in Value
  <2>1. chosen \in Line
    BY <1>1 DEF InfoInv
  <2>2. chosen.info \in Seq(Info)
    BY <2>1, SendInfoAssumption
  <2>3. token \in Nat /\ w \in Info
    BY <1>1, <2>2
  <2> QED
    BY <2>1, <2>2, <2>3 DEF Info
<1>3. InfoTypeOK'
  <2>1. token' \in 1..(Len(chosen'.info) + 1)
    BY <1>1, <1>2
  <2>2. sInfo' \in [Key -> Value \cup {Garbage}]
    BY <1>1, <1>2 DEF InfoInv, InfoTypeOK
  <2> QED
    BY <1>1, <1>2, <2>1, <2>2 DEF InfoInv, InfoTypeOK
<1>4. \A key \in Key :
        /\ w.key = key => token \in ReadWords(key)' /\ sInfo'[key] = w.value
        /\ w.key # key => ReadWords(key)' = ReadWords(key)
        /\ w.key # key =>
             sInfo'[key] = IF w.key \in Key /\ RunsOver(w.key, w.value)
                           THEN Garbage ELSE sInfo[key]
        /\ \A n \in ReadWords(key)' : n <= token
  <2> SUFFICES ASSUME NEW key \in Key
               PROVE  /\ w.key = key => token \in ReadWords(key)' /\ sInfo'[key] = w.value
                      /\ w.key # key => ReadWords(key)' = ReadWords(key)
                      /\ w.key # key =>
                           sInfo'[key] = IF w.key \in Key /\ RunsOver(w.key, w.value)
                                         THEN Garbage ELSE sInfo[key]
                      /\ \A n \in ReadWords(key)' : n <= token
    OBVIOUS
  <2>1. DOMAIN chosen.info \subseteq Nat
    BY <1>2
  <2>2. /\ ReadWords(key) = {n \in DOMAIN chosen.info : chosen.info[n].key = key /\ n < token}
        /\ ReadWords(key)' =
             {n \in DOMAIN chosen.info : chosen.info[n].key = key /\ n < token + 1}
    BY <1>1 DEF ReadWords, WordsOf
  <2>3. \A n \in DOMAIN chosen.info : n < token + 1 <=> n < token \/ n = token
    BY <1>2, <2>1
  <2>4. \A n \in ReadWords(key)' : n <= token
    BY <1>2, <2>1, <2>2
  <2>5. w.key = key => token \in ReadWords(key)'
    BY <1>1, <2>2, <2>3
  <2>6. w.key # key => ReadWords(key)' = ReadWords(key)
    BY <2>2, <2>3
  <2>7. sInfo'[key] = IF w.key = key THEN w.value
                      ELSE IF w.key \in Key /\ RunsOver(w.key, w.value)
                      THEN Garbage ELSE sInfo[key]
    BY <1>1
  <2> QED
    BY <2>4, <2>5, <2>6, <2>7
<1>5. AuthorsFit' <=> AuthorsFit
  BY <1>1 DEF AuthorsFit, WordsOf
<1>6. ASSUME AuthorsFit, w.key = "author" PROVE w.value \notin Long
  BY <1>1, <1>6 DEF AuthorsFit, WordsOf
<1>7. LastWord'
  <2> SUFFICES ASSUME AuthorsFit, NEW key \in Key, NEW n \in ReadWords(key)',
                      \A m \in ReadWords(key)' : m <= n
               PROVE  sInfo'[key] = chosen.info[n].value
    BY <1>1, <1>5 DEF LastWord
  <2>1. n \in Nat
    BY <1>1, <1>2 DEF ReadWords, WordsOf
  <2>2. CASE w.key = key
    <3>1. n = token
      BY <1>2, <1>4, <2>1, <2>2
    <3> QED
      BY <1>4, <2>2, <3>1
  <2>3. CASE w.key # key
    <3>1. sInfo[key] = chosen.info[n].value
      BY <1>1, <1>4, <2>3 DEF InfoInv, LastWord
    <3>2. ~(w.key \in Key /\ RunsOver(w.key, w.value))
      <4>1. w.key = "age" => key = "author" /\ ReadWords("author") # {}
        BY <1>4, <2>3 DEF Key
      <4>2. w.key = "age" => sInfo["author"] \notin Long
        BY <1>1, <4>1 DEF InfoInv, AuthorInside
      <4> QED
        BY <1>6, <4>2 DEF RunsOver, Key
    <3> QED
      BY <1>4, <2>3, <3>1, <3>2
  <2> QED
    BY <2>2, <2>3
<1>8. AuthorInside'
  <2> SUFFICES ASSUME AuthorsFit, ReadWords("author")' # {}
               PROVE  sInfo'["author"] \notin Long
    BY <1>5 DEF AuthorInside
  <2>1. "author" \in Key /\ Garbage \notin Long
    BY SendInfoAssumption DEF Key
  <2>2. CASE w.key = "author"
    BY <1>4, <1>6, <2>1, <2>2
  <2>3. CASE w.key # "author"
    <3>1. sInfo["author"] \notin Long
      BY <1>1, <1>4, <2>1, <2>3 DEF InfoInv, AuthorInside
    <3> QED
      BY <1>4, <2>1, <2>3, <3>1
  <2> QED
    BY <2>2, <2>3
<1>9. LeftOver'
  <2> SUFFICES ASSUME NEW key \in Key, ReadWords(key)' = {}
               PROVE  sInfo'[key] \in {posted.info[key], Garbage}
    BY <1>1 DEF LeftOver
  <2>1. w.key # key /\ ReadWords(key) = {}
    BY <1>4
  <2>2. sInfo[key] \in {posted.info[key], Garbage}
    BY <1>1, <2>1 DEF InfoInv, LeftOver
  <2> QED
    BY <1>4, <2>1, <2>2
<1> QED
  BY <1>1, <1>2, <1>3, <1>7, <1>8, <1>9 DEF InfoInv, AnswerIsHtml, HeadersOfLine

\* Behind the last word every word that names a header has been read.
LEMMA AllRead ==
  ASSUME InfoInv, at = "words", token = Len(chosen.info) + 1, NEW key
  PROVE  ReadWords(key) = WordsOf(key)
<1>1. chosen.info \in Seq(Info)
  BY SendInfoAssumption DEF InfoInv
<1>2. \A n \in DOMAIN chosen.info : n < token
  BY <1>1
<1> QED
  BY <1>2 DEF ReadWords, WordsOf

LEMMA PostKeeps ==
  ASSUME InfoInv, PostUrl
  PROVE  InfoInv'
<1>1. /\ at = "words" /\ token = Len(chosen.info) + 1
      /\ chosen' = chosen /\ token' = token /\ sInfo' = sInfo /\ answer' = answer
  BY DEF PostUrl
<1>2. InfoTypeOK
  BY DEF InfoInv
<1>3. CASE at' = "ended" /\ posted' = posted
  BY <1>1, <1>2, <1>3 DEF InfoInv, InfoTypeOK, AnswerIsHtml, HeadersOfLine
<1>4. CASE /\ \E type \in IF PathCut THEN Types ELSE {GetFileType(chosen.path)} :
                posted' = [type |-> type, info |-> sInfo]
           /\ at' = "sent"
  <2>1. PICK type \in Types : posted' = [type |-> type, info |-> sInfo]
    BY <1>4, FileTypeReturned
  <2>2. InfoTypeOK' /\ posted'.info = sInfo
    BY <1>1, <1>2, <1>4, <2>1 DEF InfoTypeOK
  <2>3. HeadersOfLine'
    <3>1. \A key \in Key : ReadWords(key) = WordsOf(key)
      BY <1>1, AllRead
    <3>2. \A key : WordsOf(key)' = WordsOf(key)
      BY <1>1 DEF WordsOf
    <3>3. AuthorsFit => \A key \in Key : \A n \in WordsOf(key) :
            (\A m \in WordsOf(key) : m <= n) => sInfo[key] = chosen.info[n].value
      BY <1>1, <3>1 DEF InfoInv, LastWord
    <3>4. AuthorsFit' <=> AuthorsFit
      BY <1>1, <3>2 DEF AuthorsFit
    <3> QED
      BY <1>1, <2>2, <3>2, <3>3, <3>4 DEF HeadersOfLine
  <2> QED
    BY <1>1, <1>4, <2>2, <2>3 DEF InfoInv, AnswerIsHtml
<1> QED
  BY <1>3, <1>4 DEF PostUrl

LEMMA ReplyKeeps ==
  ASSUME InfoInv, Reply
  PROVE  InfoInv'
<1>1. /\ at = "sent" /\ at' = "menu" /\ answer' = GetFileType(posted.type)
      /\ UNCHANGED <<chosen, token, sInfo, posted>>
  BY DEF Reply, TypeAnswered
<1>2. answer' = Html
  <2>1. posted.type \in Types
    BY DEF InfoInv, InfoTypeOK, Types
  <2> QED
    BY <1>1, <2>1, TypeHasNoType
<1> QED
  BY <1>1, <1>2 DEF InfoInv, InfoTypeOK, AnswerIsHtml, HeadersOfLine

LEMMA InfoKeeps == InfoInv /\ [InfoNext]_infoVars => InfoInv'
<1> SUFFICES ASSUME InfoInv, [InfoNext]_infoVars PROVE InfoInv'
  OBVIOUS
<1>1. CASE UNCHANGED infoVars
  BY <1>1 DEF infoVars, InfoInv, InfoTypeOK, AnswerIsHtml, HeadersOfLine, LastWord, LeftOver,
              AuthorInside, AuthorsFit, ReadWords, WordsOf
<1>2. CASE ChooseLine
  BY <1>2, ChoiceKeeps
<1>3. CASE GetSendInfo
  BY <1>3, WordKeeps
<1>4. CASE PostUrl
  BY <1>4, PostKeeps
<1>5. CASE Reply
  BY <1>5, ReplyKeeps
<1> QED
  BY <1>1, <1>2, <1>3, <1>4, <1>5 DEF InfoNext

THEOREM InfoAlways == InfoSpec => []InfoInv
  BY InfoAtInit, InfoKeeps, PTL DEF InfoSpec

\* The two programs, the memory and the header lines keep their types.
THEOREM InfoTypeCorrect == InfoSpec => []InfoTypeOK
<1>1. InfoInv => InfoTypeOK
  BY DEF InfoInv
<1> QED
  BY <1>1, InfoAlways, PTL

\* A post has the author and the age of its line when the line names them and its
\* authors fit, whatever the memory held before, also when a path or an author was
\* too long for its field (getSendInfo in the loop of main of client.c).
THEOREM LineNamesHeaders == InfoSpec => []HeadersOfLine
<1>1. InfoInv => HeadersOfLine
  BY DEF InfoInv
<1> QED
  BY <1>1, InfoAlways, PTL

\* The answer to every post names HTML, for every name and every line (getFileType in
\* response of server.c).
THEOREM AnsweredAsHtml == InfoSpec => []AnswerIsHtml
<1>1. InfoInv => AnswerIsHtml
  BY DEF InfoInv
<1> QED
  BY <1>1, InfoAlways, PTL

\* What a line does not name comes from the post before, or is garbage, if only
\* what ran over from the path or the author (malloc and free in main of client.c).
THEOREM HeadersLeftOver == InfoSpec => HeadersLeft
<1>1. InfoInv /\ [InfoNext]_infoVars =>
        [at = "words" /\ at' = "sent" =>
           \A key \in Key :
             WordsOf(key) = {} => posted'.info[key] \in {posted.info[key], Garbage}]_infoVars
  <2> SUFFICES ASSUME InfoInv, [InfoNext]_infoVars, at = "words", at' = "sent",
                      NEW key \in Key, WordsOf(key) = {}
               PROVE  posted'.info[key] \in {posted.info[key], Garbage}
    OBVIOUS
  <2>1. PostUrl
    BY DEF InfoNext, infoVars, ChooseLine, GetSendInfo, Reply
  <2>2. posted'.info = sInfo /\ token = Len(chosen.info) + 1
    BY <2>1 DEF PostUrl
  <2>3. ReadWords(key) = {}
    BY <2>2, AllRead
  <2> QED
    BY <2>2, <2>3 DEF InfoInv, LeftOver
<1> QED
  BY <1>1, InfoAlways, PTL DEF InfoSpec, HeadersLeft
=============================================================================
