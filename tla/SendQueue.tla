----------------------------- MODULE SendQueue -----------------------------
(***************************************************************************)
(* The send queue of one Client: std::queue of pointers to items that the  *)
(* queue owns.  HTTPServer only adds and deletes the whole client; here    *)
(* the caller may use every method, in any order.                          *)
(***************************************************************************)
EXTENDS Integers, Sequences, FiniteSets

CONSTANTS
  SendItem,  \* the items that callers make, each added once
  NoItem     \* NULL

ASSUME SendQueueAssumption == NoItem \notin SendItem

VARIABLES
  clientUp,   \* the Client exists
  sendQueue,
  deletions,  \* how often each item was deleted
  added,      \* the items added so far, in their order
  dequeued    \* the items taken away so far, in their order

queueVars == <<clientUp, sendQueue, deletions, added, dequeued>>

QueueTypeOK ==
  /\ clientUp \in BOOLEAN
  /\ sendQueue \in Seq(SendItem)
  /\ deletions \in [SendItem -> Nat]
  /\ added \in Seq(SendItem)
  /\ dequeued \in Seq(SendItem)
  /\ Len(dequeued) + Len(sendQueue) <= Len(added)

QueueInit ==
  /\ clientUp = TRUE
  /\ sendQueue = <<>>
  /\ deletions = [item \in SendItem |-> 0]
  /\ added = <<>>
  /\ dequeued = <<>>

InSeq(item, s) == \E n \in DOMAIN s : s[n] = item

\* push() goes to the end; a stack would have it in front.
PushFront(item) == <<item>> \o sendQueue
Push(item) == Append(sendQueue, item)

AddToSendQueue(item) ==
  /\ clientUp
  /\ ~InSeq(item, added)
  /\ sendQueue' = Push(item)
  /\ added' = Append(added, item)
  /\ UNCHANGED <<clientUp, deletions, dequeued>>

NextInSendQueue == IF sendQueue = <<>> THEN NoItem ELSE Head(sendQueue)

\* delete without pop() leaves the pointer in the queue.
NotPopped == sendQueue
Popped == Tail(sendQueue)

DequeueFromSendQueue ==
  /\ clientUp
  /\ IF NextInSendQueue = NoItem
     THEN UNCHANGED <<sendQueue, deletions, dequeued>>
     ELSE /\ sendQueue' = Popped
          /\ deletions' = [deletions EXCEPT ![NextInSendQueue] = @ + 1]
          /\ dequeued' = Append(dequeued, NextInSendQueue)
  /\ UNCHANGED <<clientUp, added>>

\* How often the pointer is in the queue.
Queued(item) == Cardinality({n \in DOMAIN sendQueue : sendQueue[n] = item})

\* Every item of the queue is deleted, and then forgotten.
ClearSendQueue ==
  /\ clientUp
  /\ sendQueue' = <<>>
  /\ deletions' = [item \in SendItem |-> deletions[item] + Queued(item)]
  /\ UNCHANGED <<added, dequeued>>

\* ~Client clears the queue; otherwise clearing is the caller's choice.
DeleteClient ==
  /\ ClearSendQueue
  /\ clientUp' = FALSE

QueueNext ==
  \/ \E item \in SendItem : AddToSendQueue(item)
  \/ DequeueFromSendQueue
  \/ ClearSendQueue /\ UNCHANGED clientUp
  \/ DeleteClient
  \/ ~clientUp /\ UNCHANGED queueVars

QueueSpec == QueueInit /\ [][QueueNext]_queueVars
----------------------------------------------------------------------------
(* Properties *)

\* An item that was added is in the queue once or has been deleted once, whichever
\* way it left: none is deleted twice, and none outlives its client.
DeletedOnce ==
  /\ \A item \in SendItem :
       deletions[item] + Queued(item) = IF InSeq(item, added) THEN 1 ELSE 0
  /\ ~clientUp => \A item \in SendItem : InSeq(item, added) => deletions[item] = 1

\* The item that is taken away is the oldest that has not been deleted.
OldestFirst ==
  [][\A item \in SendItem :
       dequeued' = Append(dequeued, item) =>
         \A n, m \in DOMAIN added :
           added[n] = item /\ m < n => deletions[added[m]] > 0]_queueVars
=============================================================================
