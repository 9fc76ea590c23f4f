----------------------------- MODULE ByteBuffer -----------------------------
(***************************************************************************)
(* The class ByteBuffer: a vector of bytes with a read and a write         *)
(* position.  An operator takes the buffer and gives the buffer after the  *)
(* call, or the value that a read returns.  A word of a message counts as  *)
(* one byte; the typed calls (short, int, long, float, double) are the     *)
(* byte calls at another width.                                            *)
(***************************************************************************)
EXTENDS Integers, Sequences
LOCAL INSTANCE FiniteSetsExt

CONSTANTS
  Byte,      \* what a buffer holds
  Zero,      \* the byte 0
  UintMod    \* 2^32, the range of unsigned int

ASSUME ByteBufferAssumption ==
  /\ Zero \in Byte
  /\ UintMod \in Nat \ {0}

Buffer == [buf : Seq(Byte), rpos : Nat, wpos : Nat]

\* clear(), and what the constructor leaves
Empty == [buf |-> <<>>, rpos |-> 0, wpos |-> 0]

Size(b) == Len(b.buf)

\* size()-rpos on unsigned integers
BytesRemaining(b) == (Size(b) - b.rpos) % UintMod

SetReadPos(b, r) == [b EXCEPT !.rpos = r]

\* Bytes between the end and wpos: resize() sets them to 0, reserve() would not.
GapUnset(n) == IF n <= 0 THEN <<>> ELSE <<>> \o [i \in 1..n |-> "unset"]
Gap(n) == IF n <= 0 THEN <<>> ELSE <<>> \o [i \in 1..n |-> Zero]

\* Relative write of a byte array at wpos, over what is there and past the end.
PutBytes(b, s) ==
  LET end == b.wpos + Len(s) IN
  IF s = <<>> THEN b
  ELSE [b EXCEPT !.buf = SubSeq(@, 1, Min({b.wpos, Size(b)})) \o Gap(b.wpos - Size(b))
                           \o s \o SubSeq(@, end + 1, Size(b)),
                 !.wpos = end]

\* putBytes at an index, which becomes the write position; it may grow the buffer.
PutBytesAt(b, s, index) == PutBytes([b EXCEPT !.wpos = index], s)

\* put(src) for another buffer, whose positions play no part.
PutBuffer(b, src) == PutBytes(b, src.buf)

\* Absolute write of a value: ignored unless it fits into what is there; as a
\* putBytes at the index it would grow the buffer.
InsertGrows(b, v, index) == PutBytesAt(b, v, index)

Insert(b, v, index) ==
  IF index + Len(v) > Size(b)
  THEN b
  ELSE [b EXCEPT !.buf = SubSeq(@, 1, index) \o v \o SubSeq(@, index + Len(v) + 1, Size(b)),
                 !.wpos = index + Len(v)]

\* Absolute read; 0 past the end.
GetAt(b, i) == IF i < Size(b) THEN b.buf[i + 1] ELSE Zero

\* Relative read of n bytes: what is read, whatever becomes of rpos.
GetBytes(b, n) == <<>> \o [i \in 1..n |-> GetAt(b, b.rpos + i - 1)]

\* put(src) with the buffer itself as src: as many bytes as it has at the start.
\* Each is read when its turn has come, so from wpos on it is one that was just
\* written; bytes from rpos on would be wrong.
PutFromRpos(b) == PutBytes(b, GetBytes(b, Size(b)))

PutItself(b) ==
  PutBytes(b, <<>> \o [i \in 1..Size(b) |->
                        IF b.wpos = 0 THEN b.buf[i] ELSE b.buf[((i - 1) % b.wpos) + 1]])

\* Absolute read of a value of n bytes: 0 unless all of them are there.
ReadAt(b, n, index) ==
  IF index + n <= Size(b)
  THEN SubSeq(b.buf, index + 1, index + n)
  ELSE Gap(n)

\* A relative read of a value of n bytes moves rpos, whether they are there or not.
NextByte(b, n) == b.rpos + 1
PastRead(b, n) == b.rpos + n

\* resize() keeps the bytes that fit, adds zeros and resets both positions.
ResizeOnly(b, n) ==
  [b EXCEPT !.buf = SubSeq(@, 1, Min({n, Size(b)})) \o Gap(n - Size(b)),
            !.wpos = 0]
Resize(b, n) == [ResizeOnly(b, n) EXCEPT !.rpos = 0]

\* Index of the first key at or after start, -1 if a 0 or the end comes first.
Find(b, key, start) ==
  LET stops == {i \in start..Size(b) - 1 : GetAt(b, i) \in {key, Zero}} IN
  IF stops = {} \/ GetAt(b, Min(stops)) # key THEN -1 ELSE Min(stops)

\* The indices that replace() changes: keys at or after start, up to a 0, or
\* with no regard to it.
AllHits(b, key, start) == {i \in start..Size(b) - 1 : b.buf[i + 1] = key}

Hits(b, key, start) ==
  {i \in start..Size(b) - 1 :
     /\ b.buf[i + 1] = key
     /\ key # Zero => \A j \in start..i : b.buf[j + 1] # Zero}

Replace(b, key, rep, start, firstOnly) ==
  LET hits == Hits(b, key, start)
      changed == IF firstOnly /\ hits # {} THEN {Min(hits)} ELSE hits
  IN [b EXCEPT !.buf = [i \in DOMAIN @ |-> IF i - 1 \in changed THEN rep ELSE @[i]]]

\* equals() compares the bytes and leaves the positions aside.
Equals(b, other) == b.buf = other.buf

\* clone() hands put(b, index) the index as byte and the byte as index; whatever
\* the index, the write does not fit into the new buffer and is ignored.
Clone(b) == Empty
=============================================================================
