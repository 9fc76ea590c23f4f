----------------------------- MODULE BufferUse -----------------------------
(***************************************************************************)
(* One ByteBuffer and a caller that may make any of its calls in any       *)
(* order.  The histories record what the caller put and got as a stream,   *)
(* and whether it has kept to the positions that exist.                    *)
(***************************************************************************)
EXTENDS ByteBuffer

CONSTANTS
  Width,      \* the sizes of the types of the typed calls
  MaxSize,    \* bounds of the model: the size of the buffer,
  MaxPos      \* and the positions and indices that the caller uses

ASSUME BufferUseAssumption ==
  /\ Width \subseteq Nat \ {0}
  /\ MaxSize \in Nat /\ MaxSize < UintMod
  /\ MaxPos \in Nat

VARIABLES
  b,
  stream,     \* since the last clear() only relative writes and paid reads
  written,    \* what those writes wrote,
  taken,      \* and what those reads returned
  careful     \* since the last clear() no position went past the end

vars == <<b, stream, written, taken, careful>>

Pos == 0..MaxPos
Arrays == UNION {[1..n -> Byte] : n \in 0..MaxSize}
Values == UNION {[1..n -> Byte] : n \in Width}

Fits(r) == Size(r) <= MaxSize /\ r.rpos <= MaxPos /\ r.wpos <= MaxPos

TypeOK ==
  /\ b \in Buffer /\ Fits(b)
  /\ stream \in BOOLEAN /\ careful \in BOOLEAN
  /\ written \in Seq(Byte) /\ taken \in Seq(Byte)

Init ==
  /\ b = Empty
  /\ stream = TRUE /\ written = <<>> /\ taken = <<>>
  /\ careful = TRUE

\* A call that leaves the stream.
Left == stream' = FALSE /\ written' = <<>> /\ taken' = <<>>

Restart ==
  /\ b' = Empty
  /\ stream' = TRUE /\ written' = <<>> /\ taken' = <<>>
  /\ careful' = TRUE
----------------------------------------------------------------------------
(* Relative calls *)

\* put, putChar, putShort, ..., putBytes without an index
Write(s) ==
  /\ b' = PutBytes(b, s)
  /\ Fits(b')
  /\ written' = IF stream THEN written \o s ELSE written
  /\ UNCHANGED <<stream, taken, careful>>

\* The caller asks bytesRemaining() first, or does not.
Paid(n) == n <= BytesRemaining(b)

\* get, getChar, getShort, ...
Get(n) ==
  /\ b' = SetReadPos(b, PastRead(b, n))
  /\ Fits(b')
  /\ IF stream /\ Paid(n)
     THEN taken' = taken \o ReadAt(b, n, b.rpos) /\ UNCHANGED <<stream, written>>
     ELSE Left
  /\ careful' = (careful /\ Paid(n))

\* getBytes, byte by byte
GetArray(n) ==
  /\ b' = SetReadPos(b, b.rpos + n)
  /\ Fits(b')
  /\ IF stream /\ Paid(n)
     THEN taken' = taken \o GetBytes(b, n) /\ UNCHANGED <<stream, written>>
     ELSE Left
  /\ careful' = (careful /\ Paid(n))
----------------------------------------------------------------------------
(* Calls that name a place *)

WriteAt(s, index) ==
  /\ b' = PutBytesAt(b, s, index)
  /\ Fits(b')
  /\ Left
  /\ careful' = (careful /\ index <= Size(b))

PutAt(v, index) ==
  /\ b' = Insert(b, v, index)
  /\ Fits(b')
  /\ Left
  /\ UNCHANGED careful

SetPos(r, w) ==
  /\ b' = [SetReadPos(b, r) EXCEPT !.wpos = w]
  /\ Left
  /\ careful' = (careful /\ r <= Size(b) /\ w <= Size(b))
----------------------------------------------------------------------------
(* Calls on the whole buffer, and calls that read a buffer *)

ReplaceBytes(key, rep, start, firstOnly) ==
  /\ b' = Replace(b, key, rep, start, firstOnly)
  /\ Left
  /\ UNCHANGED careful

ResizeTo(n) ==
  /\ b' = Resize(b, n)
  /\ Left
  /\ UNCHANGED careful

\* A clone, or a buffer that the constructor made of an array.
OtherBuffers == {Clone(b)} \cup {PutBytes(Empty, s) : s \in Arrays}

PutOther(other) ==
  /\ b' = PutBuffer(b, other)
  /\ Fits(b')
  /\ Left
  /\ UNCHANGED careful

PutSelf ==
  /\ b' = PutItself(b)
  /\ Fits(b')
  /\ Left
  /\ UNCHANGED careful
----------------------------------------------------------------------------
Next ==
  \/ Restart
  \/ \E s \in Values : Write(s) \/ \E index \in Pos : PutAt(s, index)
  \/ \E s \in Arrays, index \in Pos : WriteAt(s, index)
  \/ \E n \in Width : Get(n)
  \/ \E n \in 0..MaxSize : GetArray(n) \/ ResizeTo(n)
  \/ \E r, w \in Pos : SetPos(r, w)
  \/ \E key, rep \in Byte, start \in Pos, firstOnly \in BOOLEAN :
       ReplaceBytes(key, rep, start, firstOnly)
  \/ \E other \in OtherBuffers : PutOther(other)
  \/ PutSelf

Spec == Init /\ [][Next]_vars
----------------------------------------------------------------------------
\* Relative writes and paid reads of any widths, mixed in any way, are a queue:
\* the buffer is what was written and the reads return it in order (append, read).
StreamInOrder ==
  stream =>
    /\ b.buf = written
    /\ b.wpos = Len(written)
    /\ taken = SubSeq(written, 1, b.rpos)

\* A caller that reads no more than bytesRemaining() and names only places that
\* exist never has a position past the end, through resize and replace as well;
\* so the unsigned size()-rpos that it relies on never wraps.
CarefulInside ==
  careful =>
    /\ b.rpos <= Size(b) /\ b.wpos <= Size(b)
    /\ BytesRemaining(b) = Size(b) - b.rpos

\* The bytes of s are at index, the write position is right behind them, and
\* every other byte is what it was, or 0 where the buffer has grown.
WroteOnly(s, index) ==
  /\ b'.wpos = index + Len(s)
  /\ \A i \in DOMAIN s : GetAt(b', index + i - 1) = s[i]
  /\ \A i \in 0..MaxSize :
       i < index \/ i >= index + Len(s) => GetAt(b', i) = GetAt(b, i)

\* A write changes its own bytes and no others, at the write position or, for an
\* array, at the index, past the end as well; a typed write at an index that does
\* not fit changes nothing at all (append, putBytes, insert).
WritesInPlace ==
  [][/\ \A s \in Values : Write(s) => WroteOnly(s, b.wpos)
     /\ \A s \in Arrays, index \in Pos : WriteAt(s, index) => WroteOnly(s, index)
     /\ \A s \in Values, index \in Pos :
          PutAt(s, index)
            => IF index + Len(s) <= Size(b) THEN WroteOnly(s, index) ELSE b' = b]_vars

\* replace() leaves no key for find() to report, and one at a time it removes
\* exactly the key that find() reports: the two stop at the same 0.
ReplaceMeetsFind ==
  \A key \in Byte, start \in Pos : \A rep \in Byte \ {key} :
    LET first == Find(b, key, start)
        once == Replace(b, key, rep, start, TRUE)
    IN /\ Find(Replace(b, key, rep, start, FALSE), key, start) = -1
       /\ first = -1 => Equals(once, b)
       /\ first # -1 => \A i \in 0..MaxSize :
            GetAt(once, i) = IF i = first THEN rep ELSE GetAt(b, i)

\* The loop of put(src) on the buffer itself, one append at a time.
Appended(r) ==
  LET after[n \in 0..Size(r)] ==
        IF n = 0 THEN r ELSE PutBytes(after[n - 1], <<after[n - 1].buf[n]>>)
  IN after[Size(r)]

\* A buffer that is put into itself holds what the loop makes of it, which reads
\* the vector it is growing; at its own end it is doubled, and nowhere is the
\* read position used or moved.
PutSelfDoubles ==
  /\ PutItself(b) = Appended(b)
  /\ b.wpos = Size(b) => PutItself(b).buf = b.buf \o b.buf
  /\ PutItself(b).rpos = b.rpos
=============================================================================
