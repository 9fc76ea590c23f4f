---------------------------- MODULE SocketsProofs ----------------------------
(***************************************************************************)
(* What the peers and the system calls leave of the type invariant of the  *)
(* sockets, and of the place a connection has: idle, in the backlog or     *)
(* behind one descriptor.  For the proofs about both servers.              *)
(***************************************************************************)
EXTENDS Sockets, SequenceTheorems, TLAPS

\* A step of a peer keeps the sockets well typed and can only add to the
\* backlog; it touches neither a descriptor nor what has been sent to peers.
LEMMA PeerStepType ==
  ASSUME SocketsTypeOK, PeerStep
  PROVE  /\ SocketsTypeOK'
         /\ UNCHANGED <<fdTable, replies>>
         /\ backlog # <<>> => backlog' # <<>>
<1>1. PICK c \in Conn : Connect(c) \/ (\E x \in Item : PeerSend(c, x))
                          \/ PeerClose(c) \/ PeerReset(c)
  BY DEF PeerStep
<1>2. CASE Connect(c)
  <2>1. Append(backlog, c) \in Seq(Conn) /\ Append(backlog, c) # <<>>
    <3>1. backlog \in Seq(Conn)
      BY DEF SocketsTypeOK
    <3> QED
      BY <3>1, AppendProperties
  <2>2. /\ peer' = [peer EXCEPT ![c] = "open"] /\ backlog' = Append(backlog, c)
        /\ UNCHANGED <<inbox, sent, fdTable, replies>>
    BY <1>2 DEF Connect
  <2>3. peer' \in [Conn -> PeerState]
    BY <2>2 DEF SocketsTypeOK, PeerState
  <2>4. backlog' \in Seq(Conn) /\ backlog' # <<>>
    BY <2>1, <2>2, Zenon
  <2>5. SocketsTypeOK'
    BY <2>2, <2>3, <2>4 DEF SocketsTypeOK
  <2> QED
    BY <2>2, <2>4, <2>5
<1>3. CASE \E x \in Item : PeerSend(c, x)
  BY <1>3 DEF PeerSend, SocketsTypeOK
<1>4. CASE PeerClose(c)
  BY <1>4 DEF PeerClose, SocketsTypeOK, PeerState
<1>5. CASE PeerReset(c)
  BY <1>5 DEF PeerReset, SocketsTypeOK, PeerState
<1> QED
  BY <1>1, <1>2, <1>3, <1>4, <1>5

\* recv, the report of an error, and send keep the sockets well typed.
LEMMA CallType ==
  ASSUME SocketsTypeOK, NEW c \in Conn,
         TakeAll(c) \/ ReportError(c) \/ Write(c)
  PROVE  SocketsTypeOK' /\ UNCHANGED <<fdTable, backlog>>
<1>1. CASE TakeAll(c)
  BY <1>1 DEF TakeAll, SocketsTypeOK
<1>2. CASE ReportError(c)
  BY <1>2 DEF ReportError, SocketsTypeOK, PeerState
<1>3. CASE Write(c)
  <2>1. peer' \in [Conn -> PeerState]
    BY <1>3 DEF Write, SocketsTypeOK, PeerState
  <2>2. replies' \in [Conn -> Nat]
    BY <1>3 DEF Write, SocketsTypeOK
  <2> QED
    BY <1>3, <2>1, <2>2 DEF Write, SocketsTypeOK
<1> QED
  BY <1>1, <1>2, <1>3

\* close keeps the sockets well typed and frees one descriptor.
LEMMA CloseType ==
  ASSUME SocketsTypeOK, NEW fd \in Fd, CloseFd(fd)
  PROVE  SocketsTypeOK' /\ UNCHANGED backlog
                        /\ fdTable' = [fdTable EXCEPT ![fd] = NoConn]
BY DEF CloseFd, SocketsTypeOK, PeerState

\* accept keeps the sockets well typed and gives the descriptor it returns to
\* the first connection of the backlog.
LEMMA AcceptType ==
  ASSUME SocketsTypeOK, NEW fd \in Fd, AcceptFd(fd), backlog # <<>>
  PROVE  /\ SocketsTypeOK'
         /\ Head(backlog) \in Conn
         /\ fdTable[fd] = NoConn
         /\ fdTable' = [fdTable EXCEPT ![fd] = Head(backlog)]
BY DEF AcceptFd, LowestFree, FreeFd, SocketsTypeOK
----------------------------------------------------------------------------
(* Where a connection is. *)

\* A connection that has not been accepted: not made yet, or in the backlog.
Waiting(c) == peer[c] = "idle" \/ \E i \in DOMAIN backlog : backlog[i] = c

\* A connection waits once, or has one descriptor, but never both; until then
\* nothing was sent to it.
OnePlace ==
  /\ \A i \in DOMAIN backlog : peer[backlog[i]] # "idle"
  /\ \A i, j \in DOMAIN backlog : backlog[i] = backlog[j] => i = j
  /\ \A fd \in Fd : fdTable[fd] # NoConn => ~Waiting(fdTable[fd])
  /\ \A fd, g \in Fd : fdTable[fd] # NoConn /\ fdTable[fd] = fdTable[g] => fd = g
  /\ \A c \in Conn : Waiting(c) => replies[c] = 0

\* What a step leaves of OnePlace when it accepts nobody and makes no connection.
LEMMA OnePlaceKept ==
  ASSUME OnePlace, UNCHANGED backlog,
         \A c \in Conn : peer'[c] = "idle" <=> peer[c] = "idle",
         \A fd \in Fd : fdTable'[fd] \in {fdTable[fd], NoConn},
         \A c \in Conn : Waiting(c) => replies'[c] = replies[c],
         SocketsTypeOK
  PROVE  OnePlace'
<1>1. \A c \in Conn : Waiting(c)' <=> Waiting(c)
  BY DEF Waiting
<1>2. \A i \in DOMAIN backlog : backlog[i] \in Conn
  BY DEF SocketsTypeOK
<1>3. \A fd \in Fd : fdTable[fd] # NoConn => fdTable[fd] \in Conn
  BY DEF SocketsTypeOK
<1>4. (\A i \in DOMAIN backlog : peer[backlog[i]] # "idle")'
  BY <1>2 DEF OnePlace
<1>5. (\A i, j \in DOMAIN backlog : backlog[i] = backlog[j] => i = j)'
  BY DEF OnePlace
<1>6. (\A fd \in Fd : fdTable[fd] # NoConn => ~Waiting(fdTable[fd]))'
  <2> SUFFICES ASSUME NEW fd \in Fd, fdTable'[fd] # NoConn
               PROVE  ~Waiting(fdTable[fd])'
    OBVIOUS
  <2>1. fdTable'[fd] = fdTable[fd]
    OBVIOUS
  <2> QED
    BY <1>1, <1>3, <2>1 DEF OnePlace, Waiting
<1>7. (\A fd, g \in Fd : fdTable[fd] # NoConn /\ fdTable[fd] = fdTable[g] => fd = g)'
  BY DEF OnePlace
<1>8. (\A c \in Conn : Waiting(c) => replies[c] = 0)'
  BY <1>1 DEF OnePlace
<1> QED
  BY <1>4, <1>5, <1>6, <1>7, <1>8 DEF OnePlace

\* A connection is made: it joins the backlog, and joins nothing else.
LEMMA OnePlaceConnect ==
  ASSUME OnePlace, SocketsTypeOK, NEW c \in Conn, Connect(c)
  PROVE  OnePlace'
<1>1. /\ peer[c] = "idle" /\ peer' = [peer EXCEPT ![c] = "open"]
      /\ backlog' = Append(backlog, c) /\ UNCHANGED <<fdTable, replies>>
      /\ backlog \in Seq(Conn)
  BY DEF Connect, SocketsTypeOK
<1>2. /\ DOMAIN backlog' = DOMAIN backlog \cup {Len(backlog) + 1}
      /\ Len(backlog) + 1 \notin DOMAIN backlog
      /\ backlog'[Len(backlog) + 1] = c
      /\ \A i \in DOMAIN backlog : backlog'[i] = backlog[i] /\ backlog[i] \in Conn
  BY <1>1
<1>3. \A i \in DOMAIN backlog : backlog[i] # c
  BY <1>1 DEF OnePlace
<1>4. \A x \in Conn : Waiting(x)' <=> Waiting(x)
  <2>1. Waiting(c) /\ Waiting(c)'
    BY <1>1, <1>2 DEF Waiting
  <2>2. \A x \in Conn \ {c} : peer'[x] = peer[x]
    BY <1>1 DEF SocketsTypeOK
  <2>3. ASSUME NEW x \in Conn \ {c} PROVE Waiting(x)' <=> Waiting(x)
    BY <1>2, <2>2 DEF Waiting
  <2> QED
    BY <2>1, <2>3
<1>5. \A i \in DOMAIN backlog' : peer'[backlog'[i]] # "idle"
  BY <1>1, <1>2, <1>3 DEF OnePlace, SocketsTypeOK
<1>6. \A i, j \in DOMAIN backlog' : backlog'[i] = backlog'[j] => i = j
  BY <1>2, <1>3 DEF OnePlace
<1>7. \A fd \in Fd : fdTable[fd] # NoConn => fdTable[fd] \in Conn /\ ~Waiting(fdTable[fd])
  BY DEF OnePlace, SocketsTypeOK
<1>8. \A fd \in Fd : fdTable'[fd] # NoConn => ~Waiting(fdTable[fd])'
  <2> SUFFICES ASSUME NEW fd \in Fd, fdTable'[fd] # NoConn
               PROVE  ~Waiting(fdTable[fd])'
    OBVIOUS
  <2>1. fdTable'[fd] = fdTable[fd]
    BY <1>1
  <2> QED
    BY <1>4, <1>7, <2>1 DEF Waiting
<1>9. \A fd, g \in Fd : fdTable'[fd] # NoConn /\ fdTable'[fd] = fdTable'[g] => fd = g
  BY <1>1 DEF OnePlace
<1>10. \A x \in Conn : Waiting(x)' => replies'[x] = 0
  BY <1>1, <1>4 DEF OnePlace
<1> QED
  BY <1>5, <1>6, <1>8, <1>9, <1>10 DEF OnePlace

\* The head of the backlog gets a descriptor and leaves the backlog.
LEMMA OnePlaceAccept ==
  ASSUME OnePlace, SocketsTypeOK, backlog # <<>>, NEW fd \in Fd, AcceptFd(fd)
  PROVE  OnePlace'
<1>0. PICK h \in Conn : h = Head(backlog)
  BY DEF SocketsTypeOK
<1>1. /\ backlog' = Tail(backlog) /\ fdTable[fd] = NoConn
      /\ fdTable' = [fdTable EXCEPT ![fd] = h]
      /\ UNCHANGED <<peer, replies>> /\ backlog \in Seq(Conn)
  BY <1>0 DEF AcceptFd, LowestFree, FreeFd, SocketsTypeOK
<1>2. /\ 1 \in DOMAIN backlog /\ backlog[1] = h /\ h \in Conn
      /\ \A i \in DOMAIN backlog' :
           i \in Nat /\ i >= 1 /\ i + 1 \in DOMAIN backlog /\ backlog'[i] = backlog[i + 1]
      /\ \A i \in DOMAIN backlog : i # 1 => i - 1 \in DOMAIN backlog'
  BY <1>0, <1>1
<1>3. peer[h] # "idle" /\ Waiting(h) /\ ~Waiting(h)'
  <2>1. \A i \in DOMAIN backlog' : backlog'[i] # h
    <3> SUFFICES ASSUME NEW i \in DOMAIN backlog', backlog'[i] = h PROVE FALSE
      OBVIOUS
    <3>1. i + 1 = 1
      BY <1>2 DEF OnePlace
    <3> QED
      BY <1>2, <3>1
  <2>2. peer[h] # "idle"
    BY <1>2 DEF OnePlace
  <2> QED
    BY <1>1, <1>2, <2>1, <2>2 DEF Waiting
<1>4. \A x \in Conn : Waiting(x)' => Waiting(x)
  BY <1>1, <1>2 DEF Waiting
<1>5. \A g \in Fd : fdTable[g] # NoConn => fdTable[g] # h
  BY <1>3 DEF OnePlace
<1>6. \A g \in Fd : fdTable'[g] = IF g = fd THEN h ELSE fdTable[g]
  BY <1>1 DEF SocketsTypeOK
<1>7. \A i \in DOMAIN backlog' : peer'[backlog'[i]] # "idle"
  BY <1>1, <1>2 DEF OnePlace
<1>8. \A i, j \in DOMAIN backlog' : backlog'[i] = backlog'[j] => i = j
  <2> SUFFICES ASSUME NEW i \in DOMAIN backlog', NEW j \in DOMAIN backlog',
                      backlog'[i] = backlog'[j]
               PROVE  i = j
    OBVIOUS
  <2>1. i + 1 = j + 1
    BY <1>2 DEF OnePlace
  <2> QED
    BY <1>2, <2>1
<1>9. \A g \in Fd : fdTable'[g] # NoConn => ~Waiting(fdTable[g])'
  <2> SUFFICES ASSUME NEW g \in Fd, fdTable'[g] # NoConn
               PROVE  ~Waiting(fdTable[g])'
    OBVIOUS
  <2>1. CASE g = fd
    <3>1. fdTable'[g] = h
      BY <1>6, <2>1
    <3> QED
      BY <1>3, <3>1 DEF Waiting
  <2>2. CASE g # fd
    <3>1. fdTable'[g] = fdTable[g] /\ fdTable[g] \in Conn /\ ~Waiting(fdTable[g])
      BY <1>6, <2>2 DEF OnePlace, SocketsTypeOK
    <3> QED
      BY <1>4, <3>1 DEF Waiting
  <2> QED
    BY <2>1, <2>2
<1>10. \A g, k \in Fd : fdTable'[g] # NoConn /\ fdTable'[g] = fdTable'[k] => g = k
  BY <1>5, <1>6 DEF OnePlace
<1>11. \A x \in Conn : Waiting(x)' => replies'[x] = 0
  BY <1>1, <1>4 DEF OnePlace
<1> QED
  BY <1>7, <1>8, <1>9, <1>10, <1>11 DEF OnePlace
=============================================================================
