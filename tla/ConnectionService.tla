------------------------- MODULE ConnectionService -------------------------
(***************************************************************************)
(* What the event loop of the C++ server promises to the connections it    *)
(* serves, without descriptors, select, tables or buffers.                 *)
(*                                                                         *)
(* Connections wait in a queue, are admitted in the order of their arrival *)
(* while fewer than Limit are served, and are served one request at a time *)
(* by a single worker.  Only the connection that the worker has taken can  *)
(* receive an answer, at most one each time it is taken.  A connection is  *)
(* dropped only when the worker is not busy.  The service may go down at   *)
(* any time, and then nothing changes any more.                            *)
(***************************************************************************)
EXTENDS Naturals, Sequences, FiniteSets

CONSTANTS
  Conn,     \* the connections
  NoConn,   \* what an idle worker is busy with
  Limit     \* how many connections are served at a time

VARIABLES
  queue,     \* connections that wait to be served
  served,    \* connections that are served
  done,      \* connections that the service has dropped
  busy,      \* the connection whose request is being read or handled
  answers,   \* number of answers each connection was given
  up

svars == <<queue, served, done, busy, answers, up>>

ServiceTypeOK ==
  /\ queue \in Seq(Conn)
  /\ served \subseteq Conn
  /\ done \subseteq Conn
  /\ busy \in Conn \cup {NoConn}
  /\ answers \in [Conn -> Nat]
  /\ up \in BOOLEAN

ServiceInit ==
  /\ queue = <<>>
  /\ served = {}
  /\ done = {}
  /\ busy = NoConn
  /\ answers = [c \in Conn |-> 0]
  /\ up = TRUE

Waiting == {queue[i] : i \in DOMAIN queue}

Arrive(c) ==
  /\ c \notin Waiting \cup served \cup done
  /\ queue' = Append(queue, c)
  /\ UNCHANGED <<served, done, busy, answers, up>>

Admit ==
  /\ queue # <<>>
  /\ busy = NoConn
  /\ Cardinality(served) < Limit
  /\ served' = served \cup {Head(queue)}
  /\ queue' = Tail(queue)
  /\ UNCHANGED <<done, busy, answers, up>>

Take(c) ==
  /\ busy = NoConn
  /\ c \in served
  /\ busy' = c
  /\ UNCHANGED <<queue, served, done, answers, up>>

Finish ==
  /\ busy # NoConn
  /\ busy' = NoConn
  /\ \/ answers' = [answers EXCEPT ![busy] = @ + 1]
     \/ UNCHANGED answers
  /\ UNCHANGED <<queue, served, done, up>>

\* The service may fail while it drops a connection.
Drop(c) ==
  /\ busy = NoConn
  /\ c \in served
  /\ served' = served \ {c}
  /\ done' = done \cup {c}
  /\ up' \in BOOLEAN
  /\ UNCHANGED <<queue, busy, answers>>

GoDown ==
  /\ up' = FALSE
  /\ busy' = NoConn
  /\ UNCHANGED <<queue, served, done, answers>>

ServiceNext ==
  /\ up
  /\ \/ Admit
     \/ Finish
     \/ GoDown
     \/ \E c \in Conn : Arrive(c) \/ Take(c) \/ Drop(c)

Service == ServiceInit /\ [][ServiceNext]_svars

----------------------------------------------------------------------------
(* What every implementation inherits, proved in ServiceProofs. *)

\* Never more than Limit connections are served, none that was dropped is
\* served again, and the worker is busy with a connection that is served:
\* what a Client object means to readClient and its handlers.
ServiceSafe ==
  /\ ServiceTypeOK
  /\ Cardinality(served) <= Limit
  /\ served \cap done = {}
  /\ busy # NoConn => busy \in served
=============================================================================
