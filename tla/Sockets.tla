------------------------------ MODULE Sockets ------------------------------
(***************************************************************************)
(* The TCP sockets of the operating system, seen through the system calls  *)
(* that the servers of this repository make: accept, select, recv, send    *)
(* and close.  Nothing here is code of the repository; it is the           *)
(* environment that their code calls.                                      *)
(*                                                                         *)
(* A peer writes items on its connection: a request head, or a block of    *)
(* body bytes.  All blocks have the same length and contain no NUL byte.   *)
(***************************************************************************)
EXTENDS Integers, Sequences, FiniteSets

CONSTANTS
  Conn,      \* the connections that peers may open, each of them once
  NoConn,    \* what a free descriptor refers to
  MaxFd,     \* client descriptors are 1..MaxFd, the limit RLIMIT_NOFILE sets
  Request,   \* the request heads that peers send
  Body,      \* a block of body bytes
  MaxSend    \* bound of the model: items a peer sends on one connection

Fd == 1..MaxFd
ListenFd == 0
Item == Request \cup {Body}

ASSUME SocketsAssumption ==
  /\ NoConn \notin Conn
  /\ MaxFd \in Nat \ {0}
  /\ MaxSend \in Nat
  /\ Body \notin Request

VARIABLES
  peer,      \* the state of each connection, as TCP on the server's host knows it
  inbox,     \* items received by the kernel that the server has not read yet
  sent,      \* number of items the peer has sent
  backlog,   \* established connections waiting for accept
  fdTable,   \* which connection each descriptor refers to
  replies    \* number of responses that send() has put on the connection

sockVars == <<peer, inbox, sent, backlog, fdTable, replies>>

(***************************************************************************)
(* "open"    both ends are up                                              *)
(* "fin"     the peer has closed: its FIN follows the items of inbox       *)
(* "broken"  the peer had closed and answered a response with a reset      *)
(* "reset"   the peer has reset the connection, the error is not reported  *)
(* "gone"    the reset has been reported by one system call                *)
(* "closed"  the server has closed its descriptor                          *)
(***************************************************************************)
PeerState == {"idle", "open", "fin", "broken", "reset", "gone", "closed"}

SocketsTypeOK ==
  /\ peer \in [Conn -> PeerState]
  /\ inbox \in [Conn -> Seq(Item)]
  /\ sent \in [Conn -> Nat]
  /\ backlog \in Seq(Conn)
  /\ fdTable \in [Fd -> Conn \cup {NoConn}]
  /\ replies \in [Conn -> Nat]

SocketsInit ==
  /\ peer = [c \in Conn |-> "idle"]
  /\ inbox = [c \in Conn |-> <<>>]
  /\ sent = [c \in Conn |-> 0]
  /\ backlog = <<>>
  /\ fdTable = [fd \in Fd |-> NoConn]
  /\ replies = [c \in Conn |-> 0]

----------------------------------------------------------------------------
(* What the peers do. *)

Connect(c) ==
  /\ peer[c] = "idle"
  /\ peer' = [peer EXCEPT ![c] = "open"]
  /\ backlog' = Append(backlog, c)
  /\ UNCHANGED <<inbox, sent, fdTable, replies>>

PeerSend(c, x) ==
  /\ peer[c] = "open"
  /\ sent[c] < MaxSend
  /\ sent' = [sent EXCEPT ![c] = @ + 1]
  /\ inbox' = [inbox EXCEPT ![c] = Append(@, x)]
  /\ UNCHANGED <<peer, backlog, fdTable, replies>>

PeerClose(c) ==
  /\ peer[c] = "open"
  /\ peer' = [peer EXCEPT ![c] = "fin"]
  /\ UNCHANGED <<inbox, sent, backlog, fdTable, replies>>

\* Linux keeps what was received before the reset readable.
PeerReset(c) ==
  /\ peer[c] = "open"
  /\ peer' = [peer EXCEPT ![c] = "reset"]
  /\ UNCHANGED <<inbox, sent, backlog, fdTable, replies>>

PeerStep ==
  \E c \in Conn :
    \/ Connect(c)
    \/ \E x \in Item : PeerSend(c, x)
    \/ PeerClose(c)
    \/ PeerReset(c)

----------------------------------------------------------------------------
(* What a system call sees. *)

HasData(c) == inbox[c] # <<>>
AtEnd(c)   == inbox[c] = <<>> /\ peer[c] \in {"fin", "broken", "gone"}
HasError(c) == inbox[c] = <<>> /\ peer[c] = "reset"

\* select() reports a connection whose next recv() does not block.
Readable(c) == HasData(c) \/ AtEnd(c) \/ HasError(c)

\* A further send() raises SIGPIPE, which neither program handles.
SigPipe(c) == peer[c] \in {"broken", "gone"}

FreeFd == {fd \in Fd : fdTable[fd] = NoConn}

\* accept() returns the lowest free descriptor.
LowestFree(fd) == fd \in FreeFd /\ \A g \in FreeFd : fd <= g

----------------------------------------------------------------------------
(* What a system call does. *)

TakeAll(c) ==
  /\ inbox' = [inbox EXCEPT ![c] = <<>>]
  /\ UNCHANGED <<peer, sent, backlog, fdTable, replies>>

ReportError(c) ==
  /\ peer' = [peer EXCEPT ![c] = "gone"]
  /\ UNCHANGED <<inbox, sent, backlog, fdTable, replies>>

\* A peer that has closed may answer what it is sent with a reset; the
\* pending error of a reset connection makes one send() fail quietly.
Write(c) ==
  /\ \/ /\ peer[c] \in {"open", "fin"}
        /\ replies' = [replies EXCEPT ![c] = @ + 1]
        /\ \/ UNCHANGED peer
           \/ peer[c] = "fin" /\ peer' = [peer EXCEPT ![c] = "broken"]
     \/ /\ peer[c] = "reset"
        /\ peer' = [peer EXCEPT ![c] = "gone"]
        /\ UNCHANGED replies
  /\ UNCHANGED <<inbox, sent, backlog, fdTable>>

CloseFd(fd) ==
  /\ peer' = [peer EXCEPT ![fdTable[fd]] = "closed"]
  /\ fdTable' = [fdTable EXCEPT ![fd] = NoConn]
  /\ UNCHANGED <<inbox, sent, backlog, replies>>

AcceptFd(fd) ==
  /\ LowestFree(fd)
  /\ fdTable' = [fdTable EXCEPT ![fd] = Head(backlog)]
  /\ backlog' = Tail(backlog)
  /\ UNCHANGED <<peer, inbox, sent, replies>>
=============================================================================
