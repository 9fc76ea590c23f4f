-------------------------- MODULE BufferUseProofs --------------------------
(***************************************************************************)
(* Theorems about a ByteBuffer and its caller: the types, the positions of *)
(* a careful caller, and the queue that relative writes and reads make.    *)
(* The first part shows that the invariant Inside holds, the second that   *)
(* the stream is a queue.                                                  *)
(***************************************************************************)
EXTENDS BufferUse, ByteBufferProofs
LOCAL INSTANCE FiniteSetsExt
----------------------------------------------------------------------------
(* The invariant *)

\* The types, and the positions of a careful caller.
Inside ==
  /\ TypeOK
  /\ careful => b.rpos <= Size(b) /\ b.wpos <= Size(b)

\* With the positions inside nothing wraps, because the buffer is shorter than the
\* range of unsigned int.
LEMMA NoWrap ==
  ASSUME Inside, careful
  PROVE  BytesRemaining(b) = Size(b) - b.rpos
<1>1. /\ Size(b) \in Nat /\ b.rpos \in Nat /\ b.rpos <= Size(b) /\ Size(b) < UintMod
      /\ UintMod \in Nat \ {0}
  BY ByteBufferAssumption, BufferUseAssumption DEF Inside, TypeOK, Fits, Buffer, Size
<1>2. (Size(b) - b.rpos) \in 0..(UintMod - 1)
  BY <1>1
<1> QED
  BY <1>1, <1>2 DEF BytesRemaining

\* The part of the invariant about the buffer alone.
Holds(r, c) ==
  /\ r \in Buffer /\ Fits(r)
  /\ c \in BOOLEAN
  /\ c => r.rpos <= Size(r) /\ r.wpos <= Size(r)

\* A relative write keeps what holds of the buffer.
LEMMA PutHolds ==
  ASSUME NEW r \in Buffer, NEW s \in Seq(Byte), Fits(PutBytes(r, s)), NEW c \in BOOLEAN,
         c => r.rpos <= Size(r) /\ r.wpos <= Size(r)
  PROVE  Holds(PutBytes(r, s), c)
<1> DEFINE p == PutBytes(r, s)
<1>1. Size(r) \in Nat /\ r.rpos \in Nat /\ r.wpos \in Nat
  BY BufferNumbers
<1>2. /\ p \in Buffer /\ p.rpos = r.rpos /\ p.wpos = r.wpos + Len(s)
      /\ Size(p) >= Size(r) /\ (Size(p) >= r.wpos + Len(s) \/ s = <<>>)
  BY PutBytesSize
<1>3. Size(p) \in Nat /\ Len(s) \in Nat /\ (s = <<>> => Len(s) = 0)
  BY <1>2, BufferNumbers
<1> HIDE DEF p
<1>4. c => p.rpos <= Size(p) /\ p.wpos <= Size(p)
  BY <1>1, <1>2, <1>3
<1> QED
  BY <1>2, <1>4 DEF Holds, p

\* Every call keeps what holds of the buffer.
LEMMA HoldsStep ==
  ASSUME Inside, Next
  PROVE  Holds(b', careful')
<1>1. /\ b \in Buffer /\ Fits(b) /\ careful \in BOOLEAN
      /\ careful => b.rpos <= Size(b) /\ b.wpos <= Size(b)
  BY DEF Inside, TypeOK
<1>2. Size(b) \in Nat /\ b.rpos \in Nat /\ b.wpos \in Nat
  BY <1>1, BufferNumbers
<1>3. ASSUME Restart PROVE Holds(b', careful')
  <2>1. Empty \in Buffer /\ Size(Empty) = 0 /\ Empty.rpos = 0 /\ Empty.wpos = 0
    BY DEF Empty, Buffer, Size
  <2>2. b' = Empty /\ careful' = TRUE
    BY <1>3 DEF Restart
  <2> QED
    BY <2>1, <2>2, BufferUseAssumption DEF Holds, Fits
<1>4. ASSUME NEW s \in Values, Write(s) PROVE Holds(b', careful')
  <2>1. s \in Seq(Byte)
    BY BufferUseAssumption DEF Values
  <2>2. b' = PutBytes(b, s) /\ Fits(b') /\ careful' = careful
    BY <1>4 DEF Write
  <2> QED
    BY <1>1, <2>1, <2>2, PutHolds
<1>5. ASSUME NEW s \in Values, NEW index \in Pos, PutAt(s, index) PROVE Holds(b', careful')
  <2>1. s \in Seq(Byte) /\ index \in Nat
    BY BufferUseAssumption DEF Values, Pos
  <2>2. b' = Insert(b, s, index) /\ Fits(b') /\ careful' = careful
    BY <1>5 DEF PutAt
  <2>3. /\ b' \in Buffer /\ Size(b') = Size(b) /\ b'.rpos = b.rpos
        /\ b'.wpos <= Size(b) \/ b' = b
    BY <1>1, <2>1, <2>2, InsertSize
  <2>4. careful => b'.wpos <= Size(b')
    BY <1>1, <2>3
  <2> QED
    BY <1>1, <2>2, <2>3, <2>4 DEF Holds
<1>6. ASSUME NEW s \in Arrays, NEW index \in Pos, WriteAt(s, index) PROVE Holds(b', careful')
  <2>1. s \in Seq(Byte) /\ index \in Nat
    BY BufferUseAssumption DEF Arrays, Pos
  <2> DEFINE r == [b EXCEPT !.wpos = index]
  <2>2. r \in Buffer /\ r.wpos = index /\ r.rpos = b.rpos /\ Size(r) = Size(b)
    BY <1>1, <2>1 DEF Buffer, Size
  <2>3. b' = PutBytes(r, s) /\ Fits(b') /\ careful' = (careful /\ index <= Size(b))
    BY <1>6 DEF WriteAt, PutBytesAt
  <2>4. careful' \in BOOLEAN /\ (careful' => r.rpos <= Size(r) /\ r.wpos <= Size(r))
    BY <1>1, <2>2, <2>3
  <2> HIDE DEF r
  <2> QED
    BY <2>1, <2>2, <2>3, <2>4, PutHolds
<1>7. ASSUME NEW n \in Nat, b' = SetReadPos(b, b.rpos + n), Fits(b'),
             careful' = (careful /\ Paid(n))
      PROVE  Holds(b', careful')
  <2>1. /\ b' \in Buffer /\ b'.rpos = b.rpos + n /\ b'.wpos = b.wpos /\ Size(b') = Size(b)
    BY <1>1, <1>7 DEF SetReadPos, Buffer, Size
  <2>2. careful' \in BOOLEAN /\ (careful' => careful /\ Paid(n))
    BY <1>7
  <2>3. careful /\ Paid(n) => b'.rpos <= Size(b') /\ b'.wpos <= Size(b')
    <3> SUFFICES ASSUME careful, Paid(n) PROVE b'.rpos <= Size(b') /\ b'.wpos <= Size(b')
      OBVIOUS
    <3>1. n <= Size(b) - b.rpos
      BY NoWrap DEF Paid
    <3> QED
      BY <1>1, <1>2, <2>1, <3>1
  <2> QED
    BY <1>7, <2>1, <2>2, <2>3 DEF Holds
<1>8. ASSUME NEW n \in Width, Get(n) PROVE Holds(b', careful')
  BY <1>7, <1>8, BufferUseAssumption DEF Get, PastRead
<1>9. ASSUME NEW n \in 0..MaxSize, GetArray(n) PROVE Holds(b', careful')
  BY <1>7, <1>9, BufferUseAssumption DEF GetArray
<1>10. ASSUME NEW n \in 0..MaxSize, ResizeTo(n) PROVE Holds(b', careful')
  <2>1. n \in Nat /\ n <= MaxSize /\ 0 <= MaxPos
    BY BufferUseAssumption
  <2>2. b' = Resize(b, n) /\ careful' = careful
    BY <1>10 DEF ResizeTo
  <2>3. b' \in Buffer /\ Size(b') = n /\ b'.rpos = 0 /\ b'.wpos = 0
    BY <1>1, <2>1, <2>2, ResizeSize
  <2>4. b'.rpos <= Size(b') /\ b'.wpos <= Size(b') /\ Fits(b')
    BY <2>1, <2>3 DEF Fits
  <2> QED
    BY <1>1, <2>2, <2>3, <2>4 DEF Holds
<1>11. ASSUME NEW r \in Pos, NEW w \in Pos, SetPos(r, w) PROVE Holds(b', careful')
  <2>1. b' = [[b EXCEPT !.rpos = r] EXCEPT !.wpos = w]
        /\ careful' = (careful /\ r <= Size(b) /\ w <= Size(b))
    BY <1>11 DEF SetPos, SetReadPos
  <2>2. r \in Nat /\ w \in Nat /\ r <= MaxPos /\ w <= MaxPos
    BY BufferUseAssumption DEF Pos
  <2>3. b' \in Buffer /\ b'.rpos = r /\ b'.wpos = w /\ Size(b') = Size(b)
    BY <1>1, <2>1, <2>2 DEF Buffer, Size
  <2>4. careful' \in BOOLEAN /\ (careful' => r <= Size(b) /\ w <= Size(b))
    BY <2>1
  <2>5. Fits(b')
    BY <1>1, <2>2, <2>3 DEF Fits
  <2> QED
    BY <2>3, <2>4, <2>5 DEF Holds
<1>12. ASSUME NEW key \in Byte, NEW rep \in Byte, NEW start \in Pos, NEW firstOnly \in BOOLEAN,
              ReplaceBytes(key, rep, start, firstOnly)
       PROVE  Holds(b', careful')
  <2>1. b' = Replace(b, key, rep, start, firstOnly) /\ careful' = careful
    BY <1>12 DEF ReplaceBytes
  <2>2. start \in Nat
    BY BufferUseAssumption DEF Pos
  <2>3. b' \in Buffer /\ Size(b') = Size(b) /\ b'.rpos = b.rpos /\ b'.wpos = b.wpos
    BY <1>1, <2>1, <2>2, ReplaceSize
  <2> QED
    BY <1>1, <2>1, <2>3 DEF Holds, Fits
<1>13. ASSUME NEW other \in OtherBuffers, PutOther(other) PROVE Holds(b', careful')
  <2>1. Empty \in Buffer
    BY DEF Empty, Buffer
  <2>2. other \in Buffer
    <3>1. CASE other = Clone(b)
      BY <2>1, <3>1 DEF Clone
    <3>2. CASE \E s \in Arrays : other = PutBytes(Empty, s)
      <4>1. \A s \in Arrays : s \in Seq(Byte)
        BY BufferUseAssumption DEF Arrays
      <4> QED
        BY <2>1, <3>2, <4>1, PutBytesSize
    <3> QED
      BY <3>1, <3>2 DEF OtherBuffers
  <2>3. other.buf \in Seq(Byte)
    BY <2>2 DEF Buffer
  <2>4. b' = PutBytes(b, other.buf) /\ Fits(b') /\ careful' = careful
    BY <1>13 DEF PutOther, PutBuffer
  <2> QED
    BY <1>1, <2>3, <2>4, PutHolds
<1>14. ASSUME PutSelf PROVE Holds(b', careful')
  <2>1. PICK s \in Seq(Byte) : PutItself(b) = PutBytes(b, s)
    BY <1>1, PutItselfIs
  <2>2. b' = PutBytes(b, s) /\ Fits(b') /\ careful' = careful
    BY <1>14, <2>1 DEF PutSelf
  <2> QED
    BY <1>1, <2>2, PutHolds
<1> QED
  BY <1>3, <1>4, <1>5, <1>6, <1>8, <1>9, <1>10, <1>11, <1>12, <1>13, <1>14 DEF Next

\* The histories stay sequences of bytes.
LEMMA HistoryStep ==
  ASSUME Inside, Next
  PROVE  /\ stream' \in BOOLEAN /\ written' \in Seq(Byte) /\ taken' \in Seq(Byte)
<1>1. /\ b \in Buffer /\ stream \in BOOLEAN /\ written \in Seq(Byte) /\ taken \in Seq(Byte)
      /\ b.rpos \in Nat
  BY BufferNumbers DEF Inside, TypeOK
<1> DEFINE Goal == /\ stream' \in BOOLEAN /\ written' \in Seq(Byte) /\ taken' \in Seq(Byte)
<1>2. Left => Goal
  <2>1. <<>> \in Seq(Byte) /\ FALSE \in BOOLEAN
    OBVIOUS
  <2> SUFFICES ASSUME Left PROVE Goal
    OBVIOUS
  <2>2. stream' = FALSE /\ written' = <<>> /\ taken' = <<>>
    BY DEF Left
  <2> QED
    BY <2>1, <2>2, Zenon
<1>3. Restart => Goal
  BY DEF Restart
<1>4. ASSUME NEW s \in Values, Write(s) PROVE Goal
  <2>1. s \in Seq(Byte)
    BY BufferUseAssumption DEF Values
  <2>2. written \o s \in Seq(Byte)
    BY <1>1, <2>1
  <2>3. written' \in {written, written \o s} /\ stream' = stream /\ taken' = taken
    BY <1>4 DEF Write
  <2> QED
    BY <1>1, <2>2, <2>3
<1>5. ASSUME NEW s \in Seq(Byte), taken' = taken \o s, UNCHANGED <<stream, written>>
      PROVE  Goal
  BY <1>1, <1>5
<1>6. ASSUME NEW n \in Width, Get(n) PROVE Goal
  <2>1. n \in Nat
    BY BufferUseAssumption
  <2>2. ReadAt(b, n, b.rpos) \in Seq(Byte)
    BY <1>1, <2>1, ValueRead
  <2> QED
    BY <1>2, <1>5, <1>6, <2>2 DEF Get
<1>7. ASSUME NEW n \in 0..MaxSize, GetArray(n) PROVE Goal
  <2>1. n \in Nat
    BY BufferUseAssumption
  <2>2. GetBytes(b, n) \in Seq(Byte)
    BY <1>1, <2>1, BytesRead
  <2> QED
    BY <1>2, <1>5, <1>7, <2>2 DEF GetArray
<1> HIDE DEF Goal
<1>8. Goal
  BY <1>2, <1>3, <1>4, <1>6, <1>7
  DEF Next, WriteAt, PutAt, SetPos, ReplaceBytes, ResizeTo, PutOther, PutSelf
<1> QED
  BY <1>8 DEF Goal

\* Every call keeps the invariant.
LEMMA InsideStep == Inside /\ [Next]_vars => Inside'
<1>1. ASSUME Inside, Next PROVE Inside'
  BY <1>1, HoldsStep, HistoryStep DEF Inside, TypeOK, Holds
<1>2. ASSUME Inside, UNCHANGED vars PROVE Inside'
  BY <1>2 DEF Inside, TypeOK, vars, Fits, Size
<1> QED
  BY <1>1, <1>2

\* The new buffer has the invariant.
LEMMA InsideInit == Init => Inside
<1> SUFFICES ASSUME Init PROVE Inside
  OBVIOUS
<1>1. /\ b = Empty /\ careful = TRUE /\ stream = TRUE
      /\ written = <<>> /\ taken = <<>>
  BY DEF Init
<1>2. Empty \in Buffer /\ Size(Empty) = 0 /\ Empty.rpos = 0 /\ Empty.wpos = 0
  BY DEF Empty, Buffer, Size
<1> QED
  BY <1>1, <1>2, BufferUseAssumption DEF Inside, TypeOK, Fits

\* After any calls the types hold and a careful caller's positions are inside.
THEOREM AlwaysInside == Spec => []Inside
BY InsideInit, InsideStep, PTL DEF Spec

\* Every variable keeps its type and the buffer its bounds.
THEOREM BufferTypeCorrect == Spec => []TypeOK
<1>1. Inside => TypeOK
  BY DEF Inside
<1> QED
  BY <1>1, AlwaysInside, PTL

\* A caller that reads what bytesRemaining() allows and names places that exist
\* never has a position past the end, and what it is told does not wrap.
THEOREM PositionsInside == Spec => []CarefulInside
<1>1. Inside => CarefulInside
  BY NoWrap DEF Inside, CarefulInside
<1> QED
  BY <1>1, AlwaysInside, PTL
----------------------------------------------------------------------------
(* The queue *)

\* A stream is careful, and the read position is therefore in what was written.
Queue == /\ stream => careful
         /\ StreamInOrder

\* A paid read of n bytes, of either kind, keeps the queue.
LEMMA ReadKeepsQueue ==
  ASSUME Inside, Queue, NEW n \in Nat, stream, Paid(n),
         b' = SetReadPos(b, b.rpos + n),
         taken' = taken \o SubSeq(b.buf, b.rpos + 1, b.rpos + n),
         UNCHANGED <<stream, written>>, careful' = careful
  PROVE  Queue'
<1>1. /\ b \in Buffer /\ b.buf \in Seq(Byte) /\ b.rpos \in Nat /\ Size(b) = Len(b.buf)
      /\ b = [buf |-> b.buf, rpos |-> b.rpos, wpos |-> b.wpos]
      /\ Size(b) \in Nat
  BY DEF Inside, TypeOK, Buffer, Size
<1>2. b.buf = written /\ b.wpos = Len(written) /\ taken = SubSeq(written, 1, b.rpos)
  BY DEF Queue, StreamInOrder
<1>3. careful /\ b.rpos + n <= Len(written)
  BY <1>1, <1>2, NoWrap DEF Queue, Paid
<1>4. b'.buf = b.buf /\ b'.wpos = b.wpos /\ b'.rpos = b.rpos + n
  BY <1>1 DEF SetReadPos
<1>5. taken' = SubSeq(written, 1, b.rpos + n)
  BY <1>1, <1>2, <1>3, NextPart
<1> QED
  BY <1>2, <1>3, <1>4, <1>5 DEF Queue, StreamInOrder

\* Every call keeps the queue.
LEMMA QueueStep ==
  ASSUME Inside, Queue, Next
  PROVE  Queue'
<1>1. /\ b \in Buffer /\ written \in Seq(Byte) /\ b.rpos \in Nat /\ Size(b) = Len(b.buf)
      /\ b = [buf |-> b.buf, rpos |-> b.rpos, wpos |-> b.wpos]
  BY DEF Inside, TypeOK, Buffer, Size
<1>2. Left => Queue'
  BY DEF Left, Queue, StreamInOrder
<1>3. Restart => Queue'
  <2> SUFFICES ASSUME Restart PROVE Queue'
    OBVIOUS
  <2>1. b'.buf = <<>> /\ b'.wpos = 0 /\ b'.rpos = 0 /\ written' = <<>> /\ taken' = <<>> /\ careful' = TRUE
    BY DEF Restart, Empty
  <2>2. SubSeq(<<>>, 1, 0) = <<>> /\ Len(<<>>) = 0
    BY SubSeqEmpty
  <2> QED
    BY <2>1, <2>2 DEF Queue, StreamInOrder
<1>4. ASSUME NEW s \in Values, Write(s) PROVE Queue'
  <2> SUFFICES ASSUME stream PROVE Queue'
    BY <1>4 DEF Write, Queue, StreamInOrder
  <2>1. s \in Seq(Byte)
    BY BufferUseAssumption DEF Values
  <2>2. b.buf = written /\ b.wpos = Len(written) /\ taken = SubSeq(written, 1, b.rpos) /\ careful
    BY DEF Queue, StreamInOrder
  <2>3. b.wpos = Size(b) /\ b.rpos <= Len(written)
    BY <1>1, <2>2 DEF Inside
  <2>4. /\ b' = PutBytes(b, s) /\ written' = written \o s /\ taken' = taken
        /\ stream' = stream /\ careful' = careful
    BY <1>4 DEF Write
  <2>5. b'.buf = written' /\ b'.rpos = b.rpos /\ b'.wpos = b.wpos + Len(s)
    BY <1>1, <2>1, <2>2, <2>3, <2>4, PutAppends, PutBytesSize
  <2>6. Len(written') = Len(written) + Len(s)
    BY <1>1, <2>1, <2>4
  <2>7. taken' = SubSeq(written', 1, b'.rpos)
    BY <1>1, <2>1, <2>2, <2>3, <2>4, <2>5, PrefixOfLonger
  <2> QED
    BY <2>2, <2>4, <2>5, <2>6, <2>7 DEF Queue, StreamInOrder
<1>5. ASSUME NEW n \in Width, Get(n) PROVE Queue'
  <2>1. n \in Nat
    BY BufferUseAssumption
  <2>2. CASE ~(stream /\ Paid(n))
    BY <1>2, <1>5, <2>2 DEF Get
  <2>3. CASE stream /\ Paid(n)
    <3>1. /\ b' = SetReadPos(b, b.rpos + n) /\ taken' = taken \o ReadAt(b, n, b.rpos)
          /\ UNCHANGED <<stream, written>>
      BY <1>5, <2>3 DEF Get, PastRead
    <3>2. careful
      BY <2>3 DEF Queue
    <3>3. careful' = careful
      BY <1>5, <2>3, <3>2 DEF Get
    <3>4. b.rpos + n <= Size(b)
      BY <1>1, <2>1, <2>3, <3>2, NoWrap, BufferNumbers DEF Paid
    <3>5. ReadAt(b, n, b.rpos) = SubSeq(b.buf, b.rpos + 1, b.rpos + n)
      BY <3>4 DEF ReadAt
    <3> QED
      BY <2>1, <2>3, <3>1, <3>3, <3>5, ReadKeepsQueue
  <2> QED
    BY <2>2, <2>3
<1>6. ASSUME NEW n \in 0..MaxSize, GetArray(n) PROVE Queue'
  <2>1. n \in Nat
    BY BufferUseAssumption
  <2>2. CASE ~(stream /\ Paid(n))
    BY <1>2, <1>6, <2>2 DEF GetArray
  <2>3. CASE stream /\ Paid(n)
    <3>1. /\ b' = SetReadPos(b, b.rpos + n) /\ taken' = taken \o GetBytes(b, n)
          /\ UNCHANGED <<stream, written>>
      BY <1>6, <2>3 DEF GetArray
    <3>2. careful
      BY <2>3 DEF Queue
    <3>3. careful' = careful
      BY <1>6, <2>3, <3>2 DEF GetArray
    <3>4. b.rpos + n <= Size(b)
      BY <1>1, <2>1, <2>3, <3>2, NoWrap, BufferNumbers DEF Paid
    <3>5. GetBytes(b, n) = SubSeq(b.buf, b.rpos + 1, b.rpos + n)
      BY <1>1, <2>1, <3>4, SameBytes
    <3> QED
      BY <2>1, <2>3, <3>1, <3>3, <3>5, ReadKeepsQueue
  <2> QED
    BY <2>2, <2>3
<1> QED
  BY <1>2, <1>3, <1>4, <1>5, <1>6
  DEF Next, WriteAt, PutAt, SetPos, ReplaceBytes, ResizeTo, PutOther, PutSelf

\* The new buffer is an empty queue.
LEMMA QueueInit == Init => Queue
<1> SUFFICES ASSUME Init PROVE Queue
  OBVIOUS
<1>1. b.buf = <<>> /\ b.wpos = 0 /\ b.rpos = 0 /\ written = <<>> /\ taken = <<>> /\ careful
  BY DEF Init, Empty
<1>2. SubSeq(<<>>, 1, 0) = <<>> /\ Len(<<>>) = 0
  BY SubSeqEmpty
<1> QED
  BY <1>1, <1>2 DEF Queue, StreamInOrder

\* Relative writes and paid reads of any widths, mixed in any way, are a queue.
THEOREM StreamIsQueue == Spec => []StreamInOrder
<1>1. Inside /\ Queue /\ [Next]_vars => Queue'
  <2>1. ASSUME Queue, UNCHANGED vars PROVE Queue'
    BY <2>1 DEF Queue, StreamInOrder, vars
  <2> QED
    BY <2>1, QueueStep
<1>2. Queue => StreamInOrder
  BY DEF Queue
<1> QED
  BY <1>1, <1>2, QueueInit, AlwaysInside, PTL DEF Spec
----------------------------------------------------------------------------
(* What a write and a replace change *)

\* Bytes put at a place change that place only (append).
LEMMA PutInPlace ==
  ASSUME b \in Buffer, NEW r \in Buffer, r.buf = b.buf,
         NEW s \in Seq(Byte), b' = PutBytes(r, s)
  PROVE  WroteOnly(s, r.wpos)
<1>1. Len(s) \in Nat /\ DOMAIN s = 1..Len(s)
  OBVIOUS
<1>2. r.wpos \in Nat /\ MaxSize \in Nat
  BY BufferNumbers, BufferUseAssumption
<1>3. b'.wpos = r.wpos + Len(s)
  BY <1>1, <1>2, PutBytesSize
<1>4. \A i \in Nat : GetAt(r, i) = GetAt(b, i)
  BY DEF GetAt, Size
<1>5. \A i \in Nat : GetAt(b', i) = IF i >= r.wpos /\ i < r.wpos + Len(s)
                                   THEN s[i - r.wpos + 1] ELSE GetAt(b, i)
  BY <1>1, <1>2, <1>4, PutBytesBytes
<1>6. ASSUME NEW i \in DOMAIN s PROVE GetAt(b', r.wpos + i - 1) = s[i]
  <2>1. /\ r.wpos + i - 1 \in Nat /\ r.wpos + i - 1 >= r.wpos /\ r.wpos + i - 1 < r.wpos + Len(s)
        /\ (r.wpos + i - 1) - r.wpos + 1 = i
    BY <1>1, <1>2
  <2> QED
    BY <1>5, <2>1
<1>7. ASSUME NEW i \in 0..MaxSize, i < r.wpos \/ i >= r.wpos + Len(s)
      PROVE  GetAt(b', i) = GetAt(b, i)
  <2>1. i \in Nat /\ ~(i >= r.wpos /\ i < r.wpos + Len(s))
    BY <1>1, <1>2, <1>7
  <2> QED
    BY <1>5, <2>1
<1> QED
  BY <1>3, <1>6, <1>7 DEF WroteOnly

\* A relative write changes its own bytes.
LEMMA WriteInPlace ==
  ASSUME Inside, NEW s \in Values, Write(s)
  PROVE  WroteOnly(s, b.wpos)
<1>1. s \in Seq(Byte)
  BY BufferUseAssumption DEF Values
<1>2. b \in Buffer /\ b' = PutBytes(b, s)
  BY DEF Inside, TypeOK, Write
<1> QED
  BY <1>1, <1>2, PutInPlace

\* So does an array that is put at an index (putBytes).
LEMMA WriteAtInPlace ==
  ASSUME Inside, NEW s \in Arrays, NEW index \in Pos, WriteAt(s, index)
  PROVE  WroteOnly(s, index)
<1> DEFINE r == [b EXCEPT !.wpos = index]
<1>1. s \in Seq(Byte)
  BY BufferUseAssumption DEF Arrays
<1>2. b \in Buffer /\ b' = PutBytes(r, s)
  BY DEF Inside, TypeOK, WriteAt, PutBytesAt
<1>3. index \in Nat
  BY BufferUseAssumption DEF Pos
<1>4. r \in Buffer /\ r.buf = b.buf /\ r.wpos = index
  BY <1>2, <1>3 DEF Buffer
<1> HIDE DEF r
<1> QED
  BY <1>1, <1>2, <1>4, PutInPlace

\* A typed write at an index changes its own bytes, or nothing (insert).
LEMMA InsertInPlace ==
  ASSUME Inside, NEW s \in Values, NEW index \in Pos, PutAt(s, index)
  PROVE  IF index + Len(s) <= Size(b) THEN WroteOnly(s, index) ELSE b' = b
<1>1. s \in Seq(Byte) /\ Len(s) \in Nat /\ DOMAIN s = 1..Len(s)
  BY BufferUseAssumption DEF Values
<1>2. b \in Buffer /\ Size(b) \in Nat /\ index \in Nat /\ MaxSize \in Nat
  BY BufferNumbers, BufferUseAssumption DEF Inside, TypeOK, Pos
<1>3. b' = Insert(b, s, index)
  BY DEF PutAt
<1>4. CASE ~(index + Len(s) <= Size(b))
  <2>1. index + Len(s) > Size(b)
    BY <1>1, <1>2, <1>4
  <2> QED
    BY <1>3, <1>4, <2>1 DEF Insert
<1>5. CASE index + Len(s) <= Size(b)
  <2>1. \A i \in Nat : /\ b'.wpos = index + Len(s)
                      /\ GetAt(b', i) = IF i >= index /\ i < index + Len(s)
                                        THEN s[i - index + 1] ELSE GetAt(b, i)
    BY <1>1, <1>2, <1>3, <1>5, InsertBytes
  <2>2. b'.wpos = index + Len(s)
    BY <2>1
  <2>3. ASSUME NEW i \in DOMAIN s PROVE GetAt(b', index + i - 1) = s[i]
    <3>1. /\ index + i - 1 \in Nat /\ index + i - 1 >= index /\ index + i - 1 < index + Len(s)
          /\ (index + i - 1) - index + 1 = i
      BY <1>1, <1>2
    <3> QED
      BY <2>1, <3>1
  <2>4. ASSUME NEW i \in 0..MaxSize, i < index \/ i >= index + Len(s)
        PROVE  GetAt(b', i) = GetAt(b, i)
    <3>1. i \in Nat /\ ~(i >= index /\ i < index + Len(s))
      BY <1>1, <1>2, <2>4
    <3> QED
      BY <2>1, <3>1
  <2> QED
    BY <1>5, <2>2, <2>3, <2>4 DEF WroteOnly
<1> QED
  BY <1>4, <1>5

\* A write changes its own bytes and no others, at an index too, and an index that
\* does not fit makes a typed write change nothing.
THEOREM WritesStayInPlace == Spec => WritesInPlace
<1>1. Inside /\ [Next]_vars
        => [/\ \A s \in Values : Write(s) => WroteOnly(s, b.wpos)
            /\ \A s \in Arrays, index \in Pos : WriteAt(s, index) => WroteOnly(s, index)
            /\ \A s \in Values, index \in Pos :
                 PutAt(s, index)
                   => IF index + Len(s) <= Size(b) THEN WroteOnly(s, index) ELSE b' = b]_vars
  BY WriteInPlace, WriteAtInPlace, InsertInPlace
<1> QED
  BY <1>1, AlwaysInside, PTL DEF Spec, WritesInPlace

\* When all keys are replaced find() has none to report.
LEMMA NoneToFind ==
  ASSUME NEW r \in Buffer, NEW key \in Byte, NEW rep \in Byte \ {key}, NEW start \in Nat
  PROVE  Find(Replace(r, key, rep, start, FALSE), key, start) = -1
<1> DEFINE all == Replace(r, key, rep, start, FALSE)
<1>1. all \in Buffer
  <2>1. rep \in Byte /\ FALSE \in BOOLEAN
    OBVIOUS
  <2> QED
    BY <2>1, ReplaceSize
<1>2. Hits(all, key, start) = {}
  BY ReplacedAll
<1> HIDE DEF all
<1>3. Find(all, key, start) = -1
  BY <1>1, <1>2, FindIs
<1> QED
  BY <1>3 DEF all

\* When one key is replaced it is the one that find() reports.
LEMMA FoundIsReplaced ==
  ASSUME NEW key \in Byte, NEW start \in Nat, NEW rep \in Byte, NEW r \in Buffer,
         NEW one \in BOOLEAN,
         Changed(r, key, start, one)
           = IF Hits(r, key, start) # {} THEN {Min(Hits(r, key, start))} ELSE Hits(r, key, start)
  PROVE  /\ Find(r, key, start) = -1 => Equals(Replace(r, key, rep, start, one), r)
         /\ Find(r, key, start) # -1 => \A i \in Nat :
              GetAt(Replace(r, key, rep, start, one), i)
                = IF i = Find(r, key, start) THEN rep ELSE GetAt(r, i)
<1> DEFINE first == Find(r, key, start)
           once == Replace(r, key, rep, start, one)
           hits == Hits(r, key, start)
<1>1. Size(r) \in Nat
  BY BufferNumbers
<1>2. \/ first = -1 /\ hits = {}
      \/ first \in start..Size(r) - 1 /\ hits # {} /\ first = Min(hits)
  BY FindIs
<1>3. Changed(r, key, start, one) = IF hits # {} THEN {Min(hits)} ELSE hits
  OBVIOUS
<1> HIDE DEF first, hits
<1>4. ASSUME first = -1 PROVE Equals(once, r)
  <2>1. hits = {}
    BY <1>1, <1>2, <1>4
  <2>2. once.buf = [i \in DOMAIN r.buf |->
                       IF i - 1 \in Changed(r, key, start, one) THEN rep ELSE r.buf[i]]
    BY ReplaceForm
  <2>3. once.buf = [i \in DOMAIN r.buf |-> r.buf[i]]
    BY <1>3, <2>1, <2>2
  <2>4. r.buf \in Seq(Byte)
    BY DEF Buffer
  <2> HIDE DEF once
  <2> QED
    BY <2>3, <2>4 DEF Equals
<1>5. ASSUME first # -1, NEW i \in Nat
      PROVE  GetAt(once, i) = IF i = first THEN rep ELSE GetAt(r, i)
  <2>1. Changed(r, key, start, one) = {first} /\ first \in start..Size(r) - 1
    BY <1>2, <1>3, <1>5
  <2>2. GetAt(once, i) = IF i < Size(r) /\ i \in Changed(r, key, start, one)
                         THEN rep ELSE GetAt(r, i)
    BY ReplaceBytesAt
  <2>3. i < Size(r) /\ i \in {first} <=> i = first
    BY <1>1, <2>1
  <2> HIDE DEF once
  <2> QED
    BY <2>1, <2>2, <2>3
<1> QED
  BY <1>4, <1>5 DEF first

\* In every state find() and replace() stop at the same 0.
THEOREM ReplaceAndFindAgree == Spec => []ReplaceMeetsFind
<1>1. Inside => ReplaceMeetsFind
  <2> DEFINE Agree(key, start, rep, one) ==
               LET first == Find(b, key, start)
                   once == Replace(b, key, rep, start, one)
               IN /\ first = -1 => Equals(once, b)
                  /\ first # -1 => \A i \in 0..MaxSize :
                       GetAt(once, i) = IF i = first THEN rep ELSE GetAt(b, i)
  <2> SUFFICES ASSUME Inside,
                      NEW key \in Byte, NEW start \in Pos, NEW rep \in Byte \ {key}
               PROVE  /\ Find(Replace(b, key, rep, start, FALSE), key, start) = -1
                      /\ Agree(key, start, rep, TRUE)
    BY Zenon DEF ReplaceMeetsFind
  <2>1. b \in Buffer /\ start \in Nat /\ rep \in Byte
    BY BufferUseAssumption DEF Inside, TypeOK, Pos
  <2>2. Find(Replace(b, key, rep, start, FALSE), key, start) = -1
    BY <2>1, NoneToFind
  <2>3. Agree(key, start, rep, TRUE)
    <3> DEFINE one == TRUE
    <3>1. one \in BOOLEAN
      OBVIOUS
    <3>2. Changed(b, key, start, one)
            = IF Hits(b, key, start) # {} THEN {Min(Hits(b, key, start))} ELSE Hits(b, key, start)
      BY DEF Changed
    <3>3. \A i \in 0..MaxSize : i \in Nat
      BY BufferUseAssumption
    <3> HIDE DEF one
    <3>4. /\ Find(b, key, start) = -1 => Equals(Replace(b, key, rep, start, one), b)
          /\ Find(b, key, start) # -1 => \A i \in Nat :
               GetAt(Replace(b, key, rep, start, one), i)
                 = IF i = Find(b, key, start) THEN rep ELSE GetAt(b, i)
      BY <2>1, <3>1, <3>2, FoundIsReplaced
    <3>5. Agree(key, start, rep, one)
      BY <3>3, <3>4
    <3> QED
      BY <3>5 DEF one
  <2> QED
    BY <2>2, <2>3, Zenon
<1> QED
  BY <1>1, AlwaysInside, PTL
----------------------------------------------------------------------------
(* A buffer that is put into itself *)

\* What division leaves.
LEMMA DivMod ==
  ASSUME NEW a \in Nat, NEW w \in Nat \ {0}
  PROVE  a = w * (a \div w) + (a % w) /\ a \div w \in Int /\ a % w \in Int /\ 0 <= a % w /\ a % w < w
OBVIOUS

\* A multiple of w that is smaller than w is 0.
LEMMA Scaled ==
  ASSUME NEW w \in Nat \ {0}, NEW d \in Int, NEW x \in Int, x = w * d, -w < x, x < w
  PROVE  d = 0
<1>1. d >= 1 => w * d >= w
  OBVIOUS
<1>2. d <= -1 => w * d <= -w
  OBVIOUS
<1> QED
  BY <1>1, <1>2

\* A remainder does not change when the divisor is taken off.
LEMMA RemainderLess ==
  ASSUME NEW a \in Nat, NEW w \in Nat \ {0}, a >= w
  PROVE  (a - w) % w = a % w
<1>1. PICK q \in Int, r \in Int : q = a \div w /\ r = a % w /\ a = w * q + r /\ 0 <= r /\ r < w
  BY DivMod
<1>2. PICK p \in Int, t \in Int : t = (a - w) % w /\ a - w = w * p + t /\ 0 <= t /\ t < w
  <2>1. a - w \in Nat
    OBVIOUS
  <2> QED
    BY <2>1, DivMod
<1>3. t - r = w * (q - p - 1)
  <2>1. w * (q - p - 1) = w * q - w * p - w
    OBVIOUS
  <2>2. PICK x \in Int, y \in Int, z \in Int : x = w * q /\ y = w * p /\ z = w * (q - p - 1)
    OBVIOUS
  <2>3. z = x - y - w /\ a = x + r /\ a - w = y + t
    BY <1>1, <1>2, <2>1, <2>2
  <2>4. t - r = z
    BY <2>3
  <2> QED
    BY <2>2, <2>4
<1>4. q - p - 1 \in Int /\ t - r \in Int /\ -w < t - r /\ t - r < w
  BY <1>1, <1>2
<1>5. q - p - 1 = 0
  BY <1>3, <1>4, Scaled
<1>6. t - r = 0
  BY <1>3, <1>5
<1> QED
  BY <1>1, <1>2, <1>6

\* The byte that the loop reads in its n-th turn is the n-th of these bytes,
\* whether it was there before or has been written meanwhile.
LEMMA NextSelfByte ==
  ASSUME NEW r \in Buffer, NEW s \in Seq(Byte), SelfBytes(r, s), NEW n \in 1..Size(r)
  PROVE  PutBytes(r, SubSeq(s, 1, n - 1)).buf[n] = s[n]
<1>1. /\ Size(r) \in Nat /\ r.wpos \in Nat /\ Len(s) = Size(r) /\ n - 1 \in Nat /\ n \in Nat
      /\ n - 1 <= Len(s)
  BY BufferNumbers DEF SelfBytes
<1>2. PICK t \in Seq(Byte) : /\ t = SubSeq(s, 1, n - 1) /\ Len(t) = n - 1
                             /\ \A k \in 1..n - 1 : t[k] = s[k]
  <2>1. /\ SubSeq(s, 1, n - 1) \in Seq(Byte)
        /\ Len(SubSeq(s, 1, n - 1)) = n - 1
        /\ \A k \in 1..n - 1 : SubSeq(s, 1, n - 1)[k] = s[k]
    BY <1>1
  <2> QED
    BY <2>1
<1>3. /\ GetAt(PutBytes(r, t), n - 1) =
           IF n - 1 >= r.wpos /\ n - 1 < r.wpos + Len(t) THEN t[n - 1 - r.wpos + 1]
           ELSE GetAt(r, n - 1)
  BY <1>1, PutBytesBytes
<1>4. PutBytes(r, t).buf[n] = GetAt(PutBytes(r, t), n - 1)
  <2>1. Size(PutBytes(r, t)) \in Nat /\ Size(PutBytes(r, t)) >= Size(r)
    BY PutBytesSize, BufferNumbers
  <2>2. n - 1 < Size(PutBytes(r, t)) /\ (n - 1) + 1 = n
    BY <1>1, <2>1
  <2> QED
    BY <2>2 DEF GetAt
<1>5. GetAt(r, n - 1) = r.buf[n]
  BY <1>1 DEF GetAt
<1>6. s[n] = IF r.wpos = 0 THEN r.buf[n] ELSE r.buf[((n - 1) % r.wpos) + 1]
  BY DEF SelfBytes
<1>7. CASE r.wpos = 0
  BY <1>1, <1>2, <1>3, <1>4, <1>5, <1>6, <1>7
<1>8. CASE r.wpos > n - 1
  <2>1. (n - 1) % r.wpos = n - 1
    BY <1>1, <1>8
  <2>2. s[n] = r.buf[n]
    BY <1>1, <1>6, <1>8, <2>1
  <2>3. ~(n - 1 >= r.wpos)
    BY <1>1, <1>8
  <2> QED
    BY <1>2, <1>3, <1>4, <1>5, <2>2, <2>3
<1>9. CASE r.wpos > 0 /\ r.wpos <= n - 1
  <2>1. PICK m \in 1..Size(r) : m = n - r.wpos /\ m \in 1..n - 1 /\ n - 1 - r.wpos + 1 = m
    BY <1>1, <1>9
  <2>2. PutBytes(r, t).buf[n] = s[m]
    <3>1. n - 1 >= r.wpos /\ n - 1 < r.wpos + Len(t)
      BY <1>1, <1>2, <1>9
    <3> QED
      BY <1>2, <1>3, <1>4, <2>1, <3>1
  <2>3. s[m] = r.buf[((m - 1) % r.wpos) + 1]
    BY <1>9 DEF SelfBytes
  <2>4. (m - 1) % r.wpos = (n - 1) % r.wpos
    <3>1. m - 1 = (n - 1) - r.wpos /\ n - 1 \in Nat /\ r.wpos \in Nat \ {0} /\ n - 1 >= r.wpos
      BY <1>1, <1>9, <2>1
    <3>2. ((n - 1) - r.wpos) % r.wpos = (n - 1) % r.wpos
      BY <3>1, RemainderLess
    <3> QED
      BY <3>1, <3>2
  <2>5. s[n] = r.buf[((n - 1) % r.wpos) + 1]
    BY <1>1, <1>6, <1>9
  <2> QED
    BY <1>2, <2>2, <2>3, <2>4, <2>5
<1> QED
  BY <1>1, <1>2, <1>7, <1>8, <1>9

\* The loop, one append after the other, is that one write.
LEMMA LoopIsOneWrite ==
  ASSUME NEW r \in Buffer, NEW s \in Seq(Byte), SelfBytes(r, s)
  PROVE  Appended(r) = PutBytes(r, s)
<1> DEFINE Turns(h) == h = [n \in 0..Size(r) |->
                              IF n = 0 THEN r ELSE PutBytes(h[n - 1], <<h[n - 1].buf[n]>>)]
           g == [n \in 0..Size(r) |-> PutBytes(r, SubSeq(s, 1, n))]
           after == CHOOSE after : after = [n \in 0..Size(r) |->
                      IF n = 0 THEN r ELSE PutBytes(after[n - 1], <<after[n - 1].buf[n]>>)]
<1>1. Size(r) \in Nat /\ Len(s) = Size(r)
  BY BufferNumbers DEF SelfBytes
<1>2. g[0] = r
  <2>1. SubSeq(s, 1, 0) = <<>> /\ 0 \in 0..Size(r)
    BY <1>1, SubSeqEmpty
  <2> QED
    BY <2>1 DEF PutBytes
<1>3. ASSUME NEW n \in 1..Size(r)
      PROVE  g[n] = PutBytes(g[n - 1], <<g[n - 1].buf[n]>>)
  <2>1. n \in 0..Size(r) /\ n - 1 \in 0..Size(r) /\ n \in 1..Len(s)
    BY <1>1
  <2>2. g[n - 1].buf[n] = s[n] /\ s[n] \in Byte
    <3>1. PutBytes(r, SubSeq(s, 1, n - 1)).buf[n] = s[n]
      BY NextSelfByte
    <3> QED
      BY <2>1, <3>1
  <2>3. /\ SubSeq(s, 1, n - 1) \in Seq(Byte) /\ <<s[n]>> \in Seq(Byte)
        /\ SubSeq(s, 1, n - 1) \o <<s[n]>> = SubSeq(s, 1, n)
    <3>1. n - 1 \in Nat /\ n - 1 + 1 <= Len(s) /\ n - 1 + 1 = n
      BY <1>1
    <3>2. SubSeq(s, 1, n - 1) \o SubSeq(s, n - 1 + 1, n - 1 + 1) = SubSeq(s, 1, n - 1 + 1)
      BY <3>1, NextPart
    <3>3. SubSeq(s, n, n) = <<s[n]>>
      <4>1. n \in Nat \ {0} /\ n \in Nat /\ n <= Len(s) /\ n - n + 1 = 1
        BY <1>1
      <4>2. /\ SubSeq(s, n, n) \in Seq(Byte)
            /\ Len(SubSeq(s, n, n)) = IF n <= n THEN n - n + 1 ELSE 0
            /\ \A k \in 1..n - n + 1 : SubSeq(s, n, n)[k] = s[n + k - 1]
        BY <4>1, PieceOf
      <4>3. Len(SubSeq(s, n, n)) = 1 /\ SubSeq(s, n, n)[1] = s[n]
        BY <4>1, <4>2
      <4> QED
        BY <4>2, <4>3, OneLong
    <3>4. SubSeq(s, 1, n - 1) \in Seq(Byte)
      BY <3>1
    <3> QED
      BY <2>2, <3>1, <3>2, <3>3, <3>4
  <2>4. PutBytes(PutBytes(r, SubSeq(s, 1, n - 1)), <<s[n]>>) = PutBytes(r, SubSeq(s, 1, n))
    BY <2>3, PutTwice
  <2> QED
    BY <2>1, <2>2, <2>4
<1> HIDE DEF g
<1>4. Turns(g)
  <2>1. ASSUME NEW n \in 0..Size(r)
        PROVE  g[n] = IF n = 0 THEN r ELSE PutBytes(g[n - 1], <<g[n - 1].buf[n]>>)
    <3>1. n # 0 => n \in 1..Size(r)
      BY <1>1
    <3> QED
      BY <1>2, <1>3, <3>1
  <2>2. g = [n \in 0..Size(r) |-> g[n]]
    BY DEF g
  <2> QED
    BY <2>1, <2>2, Zenon
<1>5. Turns(after)
  BY <1>4, Zenon
<1>6. Appended(r) = after[Size(r)]
  BY DEF Appended
<1> HIDE DEF after
<1>7. \A n \in Nat : n \in {m \in Nat : m <= Size(r) => after[m] = g[m]}
  <2> DEFINE S == {m \in Nat : m <= Size(r) => after[m] = g[m]}
  <2>1. 0 \in S
    <3>1. 0 \in 0..Size(r)
      BY <1>1
    <3>2. after[0] = r
      BY <1>5, <3>1
    <3> QED
      BY <1>2, <3>2
  <2>2. ASSUME NEW n \in Nat, n \in S PROVE n + 1 \in S
    <3> SUFFICES ASSUME n + 1 <= Size(r) PROVE after[n + 1] = g[n + 1]
      OBVIOUS
    <3>1. /\ n + 1 \in 1..Size(r) /\ n + 1 \in 0..Size(r) /\ n + 1 # 0 /\ (n + 1) - 1 = n
          /\ after[n] = g[n]
      BY <1>1, <2>2
    <3>2. after[n + 1] = PutBytes(after[n], <<after[n].buf[n + 1]>>)
      <4>1. after[n + 1] = IF n + 1 = 0 THEN r
                           ELSE PutBytes(after[(n + 1) - 1], <<after[(n + 1) - 1].buf[n + 1]>>)
        BY <1>5, <3>1
      <4>2. after[n + 1] = PutBytes(after[(n + 1) - 1], <<after[(n + 1) - 1].buf[n + 1]>>)
        BY <3>1, <4>1, Zenon
      <4> QED
        BY <3>1, <4>2, Zenon
    <3>3. g[n + 1] = PutBytes(g[n], <<g[n].buf[n + 1]>>)
      BY <1>3, <3>1
    <3> QED
      BY <3>1, <3>2, <3>3
  <2> HIDE DEF S
  <2>3. \A n \in Nat : n \in S
    BY <2>1, <2>2, InductionOverSet
  <2> QED
    BY <2>3 DEF S
<1>8. after[Size(r)] = g[Size(r)]
  BY <1>1, <1>7
<1>9. g[Size(r)] = PutBytes(r, s)
  <2>1. SubSeq(s, 1, Size(r)) = s /\ Size(r) \in 0..Size(r)
    BY <1>1, SubSeqFull
  <2> QED
    BY <2>1 DEF g
<1> QED
  BY <1>6, <1>8, <1>9

\* A buffer that is put into itself holds what the loop makes of it, doubled at
\* its own end, and its read position plays no part.
THEOREM PutSelfIsLoop == Spec => []PutSelfDoubles
<1>1. Inside => PutSelfDoubles
  <2> SUFFICES ASSUME Inside PROVE PutSelfDoubles
    OBVIOUS
  <2>1. b \in Buffer
    BY DEF Inside, TypeOK
  <2>2. PICK s \in Seq(Byte) : SelfBytes(b, s) /\ PutItself(b) = PutBytes(b, s)
    BY <2>1, PutItselfIs
  <2>3. PutItself(b) = Appended(b)
    BY <2>1, <2>2, LoopIsOneWrite
  <2>4. PutItself(b).rpos = b.rpos
    BY <2>1, <2>2, PutBytesSize
  <2>5. ASSUME b.wpos = Size(b) PROVE PutItself(b).buf = b.buf \o b.buf
    <3>1. PutItself(b).buf = b.buf \o s
      BY <2>1, <2>2, <2>5, PutAppends
    <3>2. s = b.buf
      <4>1. b.buf \in Seq(Byte) /\ Len(b.buf) = Size(b) /\ Len(s) = Len(b.buf) /\ Size(b) \in Nat
        BY <2>1, <2>2 DEF SelfBytes, Buffer, Size
      <4>2. ASSUME NEW i \in 1..Size(b) PROVE s[i] = b.buf[i]
        <5>1. b.wpos # 0 /\ i - 1 \in Nat /\ i - 1 < b.wpos
          BY <2>5, <4>1
        <5>2. (i - 1) % b.wpos = i - 1
          BY <2>5, <4>1, <5>1
        <5>3. s[i] = b.buf[((i - 1) % b.wpos) + 1]
          BY <2>2, <5>1 DEF SelfBytes
        <5> QED
          BY <5>1, <5>2, <5>3
      <4> QED
        BY <4>1, <4>2
    <3> QED
      BY <3>1, <3>2
  <2> QED
    BY <2>3, <2>4, <2>5 DEF PutSelfDoubles
<1> QED
  BY <1>1, AlwaysInside, PTL
=============================================================================
