--------------------------- MODULE ServiceProofs ---------------------------
(* What the abstract service guarantees, for any set of connections, and what the
   send queue of each client does, for any items. *)
EXTENDS ConnectionService, SendQueue, FiniteSetTheorems, TLAPS

\* A connection is in one place only: none that waits is served or dropped, and
\* none waits twice.  Without it Admit could serve a dropped connection again.
InOnePlace ==
  /\ Waiting \cap (served \cup done) = {}
  /\ \A i, j \in DOMAIN queue : queue[i] = queue[j] => i = j

ServiceInv ==
  /\ ServiceSafe
  /\ IsFiniteSet(served)
  /\ InOnePlace

\* The counts of Admit and Drop.
LEMMA ServedCount ==
  ASSUME NEW S, IsFiniteSet(S), NEW x
  PROVE  /\ IsFiniteSet(S \cup {x}) /\ IsFiniteSet(S \ {x})
         /\ Cardinality(S) \in Nat
         /\ Cardinality(S \cup {x}) <= Cardinality(S) + 1
         /\ Cardinality(S \ {x}) <= Cardinality(S)
<1>1. Cardinality(S) \in Nat
  BY FS_CardinalityType
<1>2. /\ IsFiniteSet(S \cup {x})
      /\ Cardinality(S \cup {x}) \in {Cardinality(S), Cardinality(S) + 1}
  BY FS_AddElement
<1>3. /\ IsFiniteSet(S \ {x})
      /\ Cardinality(S \ {x}) \in {Cardinality(S), Cardinality(S) - 1}
  BY FS_RemoveElement
<1> QED
  BY <1>1, <1>2, <1>3

\* The service never serves more than Limit connections, never one that it has
\* dropped, and the worker is busy only with one that is served: the promise
\* behind clientMap, disconnectClient and readClient.
THEOREM ServiceIsSafe ==
  ASSUME Limit \in Nat, NoConn \notin Conn
  PROVE  Service => []ServiceSafe
<1>1. ServiceInit => ServiceInv
  <2>1. Cardinality({}) = 0 /\ IsFiniteSet({})
    BY FS_EmptySet
  <2> QED
    BY <2>1 DEF ServiceInit, ServiceInv, ServiceSafe, ServiceTypeOK, InOnePlace, Waiting
<1>2. ServiceInv /\ [ServiceNext]_svars => ServiceInv'
  <2> SUFFICES ASSUME ServiceInv, [ServiceNext]_svars
               PROVE  ServiceInv'
    OBVIOUS
  <2> USE DEF ServiceInv, ServiceSafe, ServiceTypeOK, InOnePlace, Waiting
  <2>1. ASSUME NEW c \in Conn, Arrive(c) PROVE ServiceInv'
    <3>1. /\ Len(queue') = Len(queue) + 1
          /\ \A i \in 1..Len(queue) : queue'[i] = queue[i]
          /\ queue'[Len(queue) + 1] = c
          /\ queue' \in Seq(Conn)
      BY <2>1 DEF Arrive
    <3> QED
      BY <2>1, <3>1 DEF Arrive
  <2>2. CASE Admit
    <3>1. /\ Head(queue) = queue[1] /\ 1 \in DOMAIN queue
          /\ Len(Tail(queue)) = Len(queue) - 1
          /\ \A i \in 1..Len(queue) - 1 : Tail(queue)[i] = queue[i + 1]
          /\ Tail(queue) \in Seq(Conn) /\ Head(queue) \in Conn
      BY <2>2 DEF Admit
    <3>2. IsFiniteSet(served') /\ Cardinality(served') <= Limit
      <4>0. IsFiniteSet(served)
        OBVIOUS
      <4> HIDE DEF ServiceInv
      <4>1. /\ IsFiniteSet(served \cup {Head(queue)})
            /\ Cardinality(served) \in Nat
            /\ Cardinality(served \cup {Head(queue)}) <= Cardinality(served) + 1
        BY <4>0, ServedCount
      <4>2. Cardinality(served \cup {Head(queue)}) \in Nat
        BY <4>1, FS_CardinalityType
      <4>3. served' = served \cup {Head(queue)} /\ Cardinality(served) < Limit
        BY <2>2 DEF Admit
      <4>4. /\ IsFiniteSet(served')
            /\ Cardinality(served') \in Nat
            /\ Cardinality(served') <= Cardinality(served) + 1
        BY <4>1, <4>2, <4>3, Zenon
      <4> QED
        BY <4>1, <4>3, <4>4
    <3>3. InOnePlace'
      <4>1. /\ DOMAIN queue = 1..Len(queue) /\ Len(queue) \in Nat
            /\ DOMAIN queue' = 1..Len(queue) - 1
            /\ \A i \in DOMAIN queue' : queue'[i] = queue[i + 1]
        BY <2>2, <3>1 DEF Admit
      <4>2. /\ served' = served \cup {queue[1]} /\ done' = done
            /\ 1 \in DOMAIN queue
        BY <2>2, <3>1 DEF Admit
      <4>3. ASSUME NEW i \in DOMAIN queue'
            PROVE  i + 1 \in DOMAIN queue /\ i + 1 # 1 /\ queue'[i] = queue[i + 1]
        BY <4>1
      <4>4. ASSUME NEW i \in DOMAIN queue'
            PROVE  queue'[i] \notin served' \cup done'
        BY <4>2, <4>3, <4>4
      <4>5. ASSUME NEW i \in DOMAIN queue', NEW j \in DOMAIN queue',
                   queue'[i] = queue'[j]
            PROVE  i = j
        BY <4>1, <4>3, <4>5
      <4> QED
        BY <4>4, <4>5
    <3> QED
      BY <2>2, <3>1, <3>2, <3>3 DEF Admit
  <2>3. ASSUME NEW c \in Conn, Take(c) PROVE ServiceInv'
    BY <2>3 DEF Take
  <2>4. CASE Finish
    BY <2>4 DEF Finish
  <2>5. ASSUME NEW c \in Conn, Drop(c) PROVE ServiceInv'
    <3>1. IsFiniteSet(served') /\ Cardinality(served') <= Limit
      <4>0. IsFiniteSet(served)
        OBVIOUS
      <4> HIDE DEF ServiceInv
      <4>1. /\ IsFiniteSet(served \ {c})
            /\ Cardinality(served) \in Nat
            /\ Cardinality(served \ {c}) <= Cardinality(served)
        BY <4>0, ServedCount
      <4>2. Cardinality(served \ {c}) \in Nat
        BY <4>1, FS_CardinalityType
      <4>3. served' = served \ {c} /\ Cardinality(served) <= Limit
        BY <2>5 DEF Drop, ServiceInv
      <4> QED
        BY <4>1, <4>2, <4>3
    <3> QED
      BY <2>5, <3>1 DEF Drop
  <2>6. CASE GoDown
    BY <2>6 DEF GoDown
  <2>7. CASE UNCHANGED svars
    BY <2>7 DEF svars
  <2> QED
    BY <2>1, <2>2, <2>3, <2>4, <2>5, <2>6, <2>7 DEF ServiceNext
<1>3. ServiceInv => ServiceSafe
  BY DEF ServiceInv
<1> QED
  BY <1>1, <1>2, <1>3, PTL DEF Service
----------------------------------------------------------------------------
(* The send queue of a client. *)

\* How many items have left the queue.
GoneCount == Len(added) - Len(sendQueue)

\* The queue is the end of what was added, and exactly what is before it was deleted.
QueueInv ==
  /\ QueueTypeOK
  /\ \A n, m \in DOMAIN added : added[n] = added[m] => n = m
  /\ \A k \in DOMAIN sendQueue : sendQueue[k] = added[GoneCount + k]
  /\ \A item \in SendItem :
       deletions[item] = IF \E m \in 1..GoneCount : added[m] = item THEN 1 ELSE 0
  /\ ~clientUp => sendQueue = <<>>

\* The lengths, as numbers.
LEMMA QueueLengths ==
  ASSUME QueueInv
  PROVE  /\ Len(added) \in Nat /\ Len(sendQueue) \in Nat /\ GoneCount \in Nat
         /\ DOMAIN added = 1..(GoneCount + Len(sendQueue))
         /\ DOMAIN sendQueue = 1..Len(sendQueue)
         /\ Len(added) = GoneCount + Len(sendQueue)
<1>1. /\ added \in Seq(SendItem) /\ sendQueue \in Seq(SendItem) /\ dequeued \in Seq(SendItem)
      /\ Len(dequeued) + Len(sendQueue) <= Len(added)
  BY DEF QueueInv, QueueTypeOK
<1>2. PICK a \in Nat, q \in Nat, d \in Nat :
        a = Len(added) /\ q = Len(sendQueue) /\ d = Len(dequeued)
  BY <1>1
<1>3. GoneCount = a - q /\ d + q <= a
  BY <1>1, <1>2 DEF GoneCount
<1>4. GoneCount \in Nat /\ GoneCount + q = a
  BY <1>3
<1> QED
  BY <1>1, <1>2, <1>4

\* An item is in the queue once, or not at all.
LEMMA QueuedOnce ==
  ASSUME QueueInv, NEW item \in SendItem
  PROVE  Queued(item) = IF \E m \in DOMAIN added : m > GoneCount /\ added[m] = item
                        THEN 1 ELSE 0
<1> DEFINE places == {n \in DOMAIN sendQueue : sendQueue[n] = item}
<1>1. PICK g \in Nat, q \in Nat :
        /\ g = GoneCount /\ q = Len(sendQueue)
        /\ DOMAIN added = 1..(g + q) /\ DOMAIN sendQueue = 1..q
  BY QueueLengths
<1>2. \A k \in 1..q : sendQueue[k] = added[g + k] /\ g + k \in 1..(g + q)
  BY <1>1 DEF QueueInv
<1>3. CASE \E m \in DOMAIN added : m > GoneCount /\ added[m] = item
  <2>1. PICK k \in 1..q : added[g + k] = item
    <3>1. PICK m \in 1..(g + q) : m > g /\ added[m] = item
      BY <1>1, <1>3
    <3>2. m - g \in 1..q /\ g + (m - g) = m
      BY <3>1
    <3> QED
      BY <3>1, <3>2
  <2>2. \A n \in 1..q : sendQueue[n] = item => n = k
    <3> SUFFICES ASSUME NEW n \in 1..q, sendQueue[n] = item PROVE n = k
      OBVIOUS
    <3>1. g + n = g + k
      BY <1>1, <1>2, <2>1 DEF QueueInv
    <3> QED
      BY <3>1
  <2>3. places = {k}
    BY <1>1, <1>2, <2>1, <2>2
  <2>4. Cardinality({k}) = 1
    BY FS_Singleton
  <2> QED
    BY <1>3, <2>3, <2>4, Zenon DEF Queued
<1>4. CASE ~ \E m \in DOMAIN added : m > GoneCount /\ added[m] = item
  <2>1. \A k \in 1..q : g + k > g
    OBVIOUS
  <2>2. places = {}
    BY <1>1, <1>2, <1>4, <2>1
  <2>3. Cardinality({}) = 0
    BY FS_EmptySet
  <2> QED
    BY <1>4, <2>2, <2>3, Zenon DEF Queued
<1> QED
  BY <1>3, <1>4

\* The item at the front, which has not been deleted.
LEMMA FrontItem ==
  ASSUME QueueInv, NextInSendQueue # NoItem
  PROVE  /\ sendQueue # <<>> /\ 1 \in DOMAIN sendQueue /\ NextInSendQueue = sendQueue[1]
         /\ NextInSendQueue \in SendItem /\ GoneCount + 1 \in DOMAIN added
         /\ added[GoneCount + 1] = NextInSendQueue /\ deletions[NextInSendQueue] = 0
<1>1. /\ sendQueue # <<>> /\ 1 \in DOMAIN sendQueue /\ NextInSendQueue = sendQueue[1]
      /\ NextInSendQueue \in SendItem
  BY DEF NextInSendQueue, QueueInv, QueueTypeOK
<1>2. PICK g \in Nat, q \in Nat :
        /\ g = GoneCount /\ q = Len(sendQueue)
        /\ DOMAIN added = 1..(g + q) /\ DOMAIN sendQueue = 1..q
  BY QueueLengths
<1>3. g + 1 \in 1..(g + q) /\ added[g + 1] = NextInSendQueue
  BY <1>1, <1>2 DEF QueueInv
<1>4. ~ \E m \in 1..g : added[m] = NextInSendQueue
  <2> SUFFICES ASSUME NEW m \in 1..g, added[m] = NextInSendQueue PROVE FALSE
    OBVIOUS
  <2>1. m \in 1..(g + q) /\ m # g + 1
    BY <1>2
  <2> QED
    BY <1>2, <1>3, <2>1 DEF QueueInv
<1>5. deletions[NextInSendQueue] = 0
  BY <1>1, <1>2, <1>4 DEF QueueInv
<1> QED
  BY <1>1, <1>2, <1>3, <1>5

\* What Append does to the positions.
LEMMA AppendAt ==
  ASSUME NEW S, NEW s \in Seq(S), NEW x \in S, NEW n \in Nat, n = Len(s)
  PROVE  /\ Append(s, x) \in Seq(S) /\ DOMAIN Append(s, x) = 1..(n + 1)
         /\ Len(Append(s, x)) = n + 1 /\ Append(s, x)[n + 1] = x
         /\ \A k \in 1..n : Append(s, x)[k] = s[k]
  BY SMTT(30)

\* An item that is added goes behind all others.
LEMMA AddKeeps ==
  ASSUME QueueInv, NEW item \in SendItem, AddToSendQueue(item)
  PROVE  QueueInv'
<1>1. /\ sendQueue' = Append(sendQueue, item) /\ added' = Append(added, item)
      /\ UNCHANGED <<clientUp, deletions, dequeued>> /\ clientUp
      /\ \A n \in DOMAIN added : added[n] # item
  BY DEF AddToSendQueue, Push, InSeq
<1>2. PICK g \in Nat, q \in Nat :
        /\ g = GoneCount /\ q = Len(sendQueue)
        /\ DOMAIN added = 1..(g + q) /\ DOMAIN sendQueue = 1..q /\ Len(added) = g + q
  BY QueueLengths
<1>3. added \in Seq(SendItem) /\ sendQueue \in Seq(SendItem) /\ dequeued \in Seq(SendItem)
  BY DEF QueueInv, QueueTypeOK
<1>4. /\ added' \in Seq(SendItem) /\ DOMAIN added' = 1..(g + q + 1)
      /\ Len(added') = g + q + 1 /\ added'[g + q + 1] = item
      /\ \A n \in 1..(g + q) : added'[n] = added[n]
  <2>1. added \in Seq(SendItem) /\ g + q \in Nat /\ g + q = Len(added)
    BY <1>2, <1>3
  <2>2. /\ Append(added, item) \in Seq(SendItem)
        /\ DOMAIN Append(added, item) = 1..(g + q + 1)
        /\ Len(Append(added, item)) = g + q + 1 /\ Append(added, item)[g + q + 1] = item
        /\ \A n \in 1..(g + q) : Append(added, item)[n] = added[n]
    BY <2>1, AppendAt
  <2> QED
    BY <1>1, <2>2
<1>5. /\ sendQueue' \in Seq(SendItem) /\ DOMAIN sendQueue' = 1..(q + 1)
      /\ Len(sendQueue') = q + 1 /\ sendQueue'[q + 1] = item
      /\ \A k \in 1..q : sendQueue'[k] = sendQueue[k]
  <2>1. sendQueue \in Seq(SendItem) /\ q = Len(sendQueue)
    BY <1>2, <1>3
  <2>2. /\ Append(sendQueue, item) \in Seq(SendItem)
        /\ DOMAIN Append(sendQueue, item) = 1..(q + 1)
        /\ Len(Append(sendQueue, item)) = q + 1 /\ Append(sendQueue, item)[q + 1] = item
        /\ \A k \in 1..q : Append(sendQueue, item)[k] = sendQueue[k]
    BY <2>1, AppendAt
  <2> QED
    BY <1>1, <2>2
<1>6. GoneCount' = g
  BY <1>4, <1>5 DEF GoneCount
<1>7. QueueTypeOK'
  <2>1. Len(dequeued) \in Nat /\ Len(dequeued) + q <= g + q
    BY <1>2, <1>3 DEF QueueInv, QueueTypeOK
  <2>2. Len(dequeued') + Len(sendQueue') <= Len(added')
    BY <1>1, <1>4, <1>5, <2>1
  <2> QED
    BY <1>1, <1>4, <1>5, <2>2 DEF QueueInv, QueueTypeOK
<1>8. (\A n, m \in DOMAIN added : added[n] = added[m] => n = m)'
  <2>1. \A n \in 1..(g + q + 1) : n \in 1..(g + q) \/ n = g + q + 1
    OBVIOUS
  <2> QED
    BY <1>1, <1>2, <1>4, <2>1 DEF QueueInv
<1>9. (\A k \in DOMAIN sendQueue : sendQueue[k] = added[GoneCount + k])'
  <2> SUFFICES ASSUME NEW k \in 1..(q + 1) PROVE sendQueue'[k] = added'[g + k]
    BY <1>5, <1>6
  <2>1. CASE k = q + 1
    BY <1>4, <1>5, <2>1
  <2>2. CASE k \in 1..q
    <3>1. g + k \in 1..(g + q) /\ sendQueue[k] = added[g + k]
      BY <1>2, <2>2 DEF QueueInv
    <3> QED
      BY <1>4, <1>5, <2>2, <3>1
  <2> QED
    BY <2>1, <2>2
<1>10. (\A x \in SendItem :
          deletions[x] = IF \E m \in 1..GoneCount : added[m] = x THEN 1 ELSE 0)'
  <2>1. \A m \in 1..g : added'[m] = added[m]
    BY <1>4
  <2> QED
    BY <1>1, <1>2, <1>6, <2>1 DEF QueueInv
<1> QED
  BY <1>1, <1>7, <1>8, <1>9, <1>10 DEF QueueInv

\* The item at the front is deleted, and the next one moves up.
LEMMA DequeueKeeps ==
  ASSUME QueueInv, DequeueFromSendQueue
  PROVE  QueueInv'
<1>1. clientUp /\ UNCHANGED <<clientUp, added>>
  BY DEF DequeueFromSendQueue
<1>2. CASE NextInSendQueue = NoItem
  <2>1. UNCHANGED <<clientUp, added, sendQueue, deletions, dequeued>>
    BY <1>1, <1>2 DEF DequeueFromSendQueue
  <2> QED
    BY <1>1, <2>1 DEF QueueInv, QueueTypeOK, GoneCount
<1>3. CASE NextInSendQueue # NoItem
  <2>1. /\ sendQueue' = Tail(sendQueue) /\ deletions' = [deletions EXCEPT ![NextInSendQueue] = @ + 1]
        /\ dequeued' = Append(dequeued, NextInSendQueue)
    BY <1>3 DEF DequeueFromSendQueue, Popped
  <2>2. PICK g \in Nat, q \in Nat :
          /\ g = GoneCount /\ q = Len(sendQueue)
          /\ DOMAIN added = 1..(g + q) /\ DOMAIN sendQueue = 1..q /\ Len(added) = g + q
    BY QueueLengths
  <2>3. /\ NextInSendQueue \in SendItem /\ 1 \in 1..q /\ added[g + 1] = NextInSendQueue /\ deletions[NextInSendQueue] = 0
        /\ sendQueue # <<>> /\ g + 1 \in 1..(g + q)
    BY <1>3, <2>2, FrontItem
  <2>4. /\ added \in Seq(SendItem) /\ sendQueue \in Seq(SendItem) /\ dequeued \in Seq(SendItem)
        /\ deletions \in [SendItem -> Nat]
    BY DEF QueueInv, QueueTypeOK
  <2>5. /\ sendQueue' \in Seq(SendItem) /\ Len(sendQueue') = q - 1
        /\ DOMAIN sendQueue' = 1..(q - 1)
        /\ \A k \in 1..(q - 1) : sendQueue'[k] = sendQueue[k + 1]
    BY <2>1, <2>2, <2>3, <2>4
  <2>6. GoneCount' = g + 1
    BY <1>1, <2>2, <2>5 DEF GoneCount
  <2>7. QueueTypeOK'
    <3>1. Len(dequeued) \in Nat /\ Len(dequeued) + q <= g + q
      BY <2>2, <2>4 DEF QueueInv, QueueTypeOK
    <3>2. dequeued' \in Seq(SendItem) /\ Len(dequeued') = Len(dequeued) + 1
      BY <2>1, <2>3, <2>4
    <3>3. Len(dequeued') + Len(sendQueue') <= Len(added')
      BY <1>1, <2>2, <2>5, <3>1, <3>2
    <3>4. deletions' \in [SendItem -> Nat]
      BY <2>1, <2>3, <2>4
    <3> QED
      BY <1>1, <2>4, <2>5, <3>2, <3>3, <3>4 DEF QueueInv, QueueTypeOK
  <2>8. (\A k \in DOMAIN sendQueue : sendQueue[k] = added[GoneCount + k])'
    <3> SUFFICES ASSUME NEW k \in 1..(q - 1) PROVE sendQueue'[k] = added[(g + 1) + k]
      BY <1>1, <2>5, <2>6
    <3>1. k + 1 \in 1..q /\ g + (k + 1) = (g + 1) + k
      OBVIOUS
    <3> QED
      BY <2>2, <2>5, <3>1 DEF QueueInv
  <2>9. (\A x \in SendItem :
           deletions[x] = IF \E m \in 1..GoneCount : added[m] = x THEN 1 ELSE 0)'
    <3> SUFFICES ASSUME NEW x \in SendItem
                 PROVE  deletions'[x] = IF \E m \in 1..(g + 1) : added[m] = x THEN 1 ELSE 0
      BY <1>1, <2>6
    <3>1. deletions[x] = IF \E m \in 1..g : added[m] = x THEN 1 ELSE 0
      BY <2>2 DEF QueueInv
    <3>2. (\E m \in 1..(g + 1) : added[m] = x) <=> (\E m \in 1..g : added[m] = x) \/ x = NextInSendQueue
      <4>1. \A m \in 1..(g + 1) : m \in 1..g \/ m = g + 1
        OBVIOUS
      <4>2. g + 1 \in 1..(g + 1) /\ \A m \in 1..g : m \in 1..(g + 1)
        OBVIOUS
      <4> QED
        BY <2>3, <4>1, <4>2
    <3>3. deletions'[x] = IF x = NextInSendQueue THEN 1 ELSE deletions[x]
      BY <2>1, <2>3, <2>4
    <3> QED
      BY <3>1, <3>2, <3>3
  <2> QED
    BY <1>1, <2>7, <2>8, <2>9 DEF QueueInv
<1> QED
  BY <1>2, <1>3

\* Whatever is left is deleted, each item once.
LEMMA ClearKeeps ==
  ASSUME QueueInv, ClearSendQueue, clientUp' \in BOOLEAN
  PROVE  QueueInv'
<1>1. /\ sendQueue' = <<>> /\ UNCHANGED <<added, dequeued>>
      /\ deletions' = [item \in SendItem |-> deletions[item] + Queued(item)]
  BY DEF ClearSendQueue
<1>2. PICK g \in Nat, q \in Nat :
        /\ g = GoneCount /\ q = Len(sendQueue)
        /\ DOMAIN added = 1..(g + q) /\ Len(added) = g + q
  BY QueueLengths
<1>3. GoneCount' = g + q /\ Len(sendQueue') = 0 /\ DOMAIN sendQueue' = {}
  BY <1>1, <1>2 DEF GoneCount
<1>4. \A item \in SendItem :
        deletions'[item] = IF \E m \in 1..(g + q) : added[m] = item THEN 1 ELSE 0
  <2> SUFFICES ASSUME NEW item \in SendItem
               PROVE  deletions'[item] = IF \E m \in 1..(g + q) : added[m] = item
                                         THEN 1 ELSE 0
    OBVIOUS
  <2>1. Queued(item) = IF \E m \in 1..(g + q) : m > g /\ added[m] = item THEN 1 ELSE 0
    BY <1>2, QueuedOnce
  <2>2. deletions[item] = IF \E m \in 1..g : added[m] = item THEN 1 ELSE 0
    BY <1>2 DEF QueueInv
  <2>3. \A n, m \in 1..(g + q) : added[n] = added[m] => n = m
    BY <1>2 DEF QueueInv
  <2>4. \A m \in 1..(g + q) : m \in 1..g <=> ~(m > g)
    OBVIOUS
  <2>5. \A m \in 1..g : m \in 1..(g + q)
    OBVIOUS
  <2>6. deletions'[item] = deletions[item] + Queued(item)
    BY <1>1
  <2> QED
    BY <2>1, <2>2, <2>3, <2>4, <2>5, <2>6
<1>5. QueueTypeOK'
  <2>1. Len(dequeued) \in Nat /\ Len(dequeued) + q <= g + q /\ <<>> \in Seq(SendItem)
    BY <1>2 DEF QueueInv, QueueTypeOK
  <2>2. Len(dequeued') + Len(sendQueue') <= Len(added')
    BY <1>1, <1>2, <1>3, <2>1
  <2>3. deletions' \in [SendItem -> Nat]
    BY <1>1, <1>4
  <2> QED
    BY <1>1, <2>1, <2>2, <2>3, SendQueueAssumption DEF QueueInv, QueueTypeOK
<1> QED
  BY <1>1, <1>3, <1>4, <1>5 DEF QueueInv

\* Every call of a method keeps the invariant.
LEMMA QueueKept == QueueInv /\ [QueueNext]_queueVars => QueueInv'
<1> SUFFICES ASSUME QueueInv, [QueueNext]_queueVars PROVE QueueInv'
  OBVIOUS
<1>1. CASE \E item \in SendItem : AddToSendQueue(item)
  BY <1>1, AddKeeps
<1>2. CASE DequeueFromSendQueue
  BY <1>2, DequeueKeeps
<1>3. CASE ClearSendQueue /\ UNCHANGED clientUp
  BY <1>3, ClearKeeps DEF QueueInv, QueueTypeOK
<1>4. CASE DeleteClient
  BY <1>4, ClearKeeps DEF DeleteClient
<1>5. CASE UNCHANGED queueVars
  BY <1>5 DEF queueVars, QueueInv, QueueTypeOK, GoneCount
<1> QED
  BY <1>1, <1>2, <1>3, <1>4, <1>5 DEF QueueNext

\* The invariant holds whatever methods are called, in whatever order.
THEOREM QueueAlways == QueueSpec => []QueueInv
<1>1. QueueInit => QueueInv
  BY SendQueueAssumption DEF QueueInit, QueueInv, QueueTypeOK, GoneCount
<1> QED
  BY <1>1, QueueKept, PTL DEF QueueSpec

\* The queue and the histories of its caller keep their types (Client.cpp).
THEOREM QueueTypeCorrect == QueueSpec => []QueueTypeOK
<1>1. QueueInv => QueueTypeOK
  BY DEF QueueInv
<1> QED
  BY <1>1, QueueAlways, PTL

\* Every item that was added is in the queue once or was deleted once, also when the
\* client is deleted with items left (dequeueFromSendQueue, clearSendQueue).
THEOREM ItemsDeletedOnce == QueueSpec => []DeletedOnce
<1>1. QueueInv => DeletedOnce
  <2> SUFFICES ASSUME QueueInv PROVE DeletedOnce
    OBVIOUS
  <2>1. PICK g \in Nat, q \in Nat :
          g = GoneCount /\ q = Len(sendQueue) /\ DOMAIN added = 1..(g + q)
    BY QueueLengths
  <2>2. \A m \in 1..(g + q) : m \in 1..g <=> ~(m > g)
    OBVIOUS
  <2>3. \A m \in 1..g : m \in 1..(g + q)
    OBVIOUS
  <2>4. ASSUME NEW item \in SendItem
        PROVE  deletions[item] + Queued(item) = IF InSeq(item, added) THEN 1 ELSE 0
    <3>1. Queued(item) = IF \E m \in 1..(g + q) : m > g /\ added[m] = item THEN 1 ELSE 0
      BY <2>1, QueuedOnce
    <3>2. deletions[item] = IF \E m \in 1..g : added[m] = item THEN 1 ELSE 0
      BY <2>1 DEF QueueInv
    <3>3. \A n, m \in 1..(g + q) : added[n] = added[m] => n = m
      BY <2>1 DEF QueueInv
    <3> QED
      BY <2>1, <2>2, <2>3, <3>1, <3>2, <3>3 DEF InSeq
  <2>5. ASSUME ~clientUp, NEW item \in SendItem, InSeq(item, added)
        PROVE  deletions[item] = 1
    <3>1. q = 0
      BY <2>1, <2>5 DEF QueueInv
    <3> QED
      BY <2>1, <2>5, <3>1 DEF InSeq, QueueInv
  <2> QED
    BY <2>4, <2>5 DEF DeletedOnce
<1> QED
  BY <1>1, QueueAlways, PTL

\* Items leave in the order in which they were added (dequeueFromSendQueue).
THEOREM ItemsInOrder == QueueSpec => OldestFirst
<1>1. QueueInv /\ [QueueNext]_queueVars =>
        [\A item \in SendItem :
           dequeued' = Append(dequeued, item) =>
             \A n, m \in DOMAIN added :
               added[n] = item /\ m < n => deletions[added[m]] > 0]_queueVars
  <2> SUFFICES ASSUME QueueInv, QueueNext, NEW item \in SendItem,
                      dequeued' = Append(dequeued, item),
                      NEW n \in DOMAIN added, NEW m \in DOMAIN added,
                      added[n] = item, m < n
               PROVE  deletions[added[m]] > 0
    <3>1. QueueInv /\ UNCHANGED queueVars => UNCHANGED queueVars
      OBVIOUS
    <3> QED
      BY <3>1
  <2>1. dequeued \in Seq(SendItem) /\ added \in Seq(SendItem)
    BY DEF QueueInv, QueueTypeOK
  <2>2. dequeued' # dequeued /\ dequeued'[Len(dequeued')] = item
    BY <2>1
  <2>3. DequeueFromSendQueue /\ NextInSendQueue # NoItem
    BY <2>2
    DEF QueueNext, AddToSendQueue, DequeueFromSendQueue, ClearSendQueue,
        DeleteClient, queueVars
  <2>4. item = NextInSendQueue
    <3>1. dequeued' = Append(dequeued, NextInSendQueue) /\ NextInSendQueue \in SendItem
      BY <2>3, FrontItem DEF DequeueFromSendQueue
    <3>2. dequeued'[Len(dequeued')] = NextInSendQueue
      BY <2>1, <3>1
    <3> QED
      BY <2>2, <3>2
  <2>5. PICK g \in Nat, q \in Nat :
          g = GoneCount /\ q = Len(sendQueue) /\ DOMAIN added = 1..(g + q)
    BY QueueLengths
  <2>6. n = g + 1
    BY <2>3, <2>4, <2>5, FrontItem DEF QueueInv
  <2>7. m \in 1..g /\ added[m] \in SendItem
    BY <2>1, <2>5, <2>6
  <2> QED
    BY <2>5, <2>7 DEF QueueInv
<1> QED
  BY <1>1, QueueAlways, PTL DEF QueueSpec, OldestFirst
=============================================================================
