------------------------ MODULE HTTPServerRefinement ------------------------
(***************************************************************************)
(* HTTPServer implements ConnectionService.  The connections served are    *)
(* those a descriptor refers to, the worker is busy while the thread is in *)
(* readClient with data, and the service is up until the process ends.     *)
(***************************************************************************)
EXTENDS HTTPServer

ServedConns == {fdTable[fd] : fd \in Fd} \ {NoConn}

DroppedConns == {c \in Conn : peer[c] = "closed"}

BusyConn == IF pc \in {"body", "handle"} THEN fdTable[cur] ELSE NoConn

Promise == INSTANCE ConnectionService WITH
  Limit <- MaxFd,
  queue <- backlog,
  served <- ServedConns,
  done <- DroppedConns,
  busy <- BusyConn,
  answers <- replies,
  up <- ~Dead

\* Whatever the order of the peers' steps and of the thread's system calls,
\* the tables of the event loop behave as one queue, one set of at most MaxFd
\* served connections and one worker: connections are admitted in the order
\* of connect, an answer goes to the connection that is being read and to no
\* other, and none is closed while its request is handled.
ImplementsService == Promise!Service
=============================================================================
