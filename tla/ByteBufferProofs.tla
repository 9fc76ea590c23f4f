-------------------------- MODULE ByteBufferProofs --------------------------
(***************************************************************************)
(* What each call of a ByteBuffer leaves of the buffer and what it returns *)
(* of it, for all bytes, sizes and positions: the lemmas of the proofs     *)
(* about a buffer and its caller, and about a message and its parser.      *)
(***************************************************************************)
EXTENDS ByteBuffer, SequenceTheorems, WellFoundedInduction, TLAPS
LOCAL INSTANCE FiniteSetsExt

\* The size and the positions of a buffer are natural numbers.
LEMMA BufferNumbers ==
  ASSUME NEW r \in Buffer
  PROVE  Size(r) \in Nat /\ r.rpos \in Nat /\ r.wpos \in Nat
BY DEF Buffer, Size

\* Numbers have a least one.
LEMMA LeastNumber ==
  ASSUME NEW S, S \subseteq Nat, S # {}
  PROVE  \E n \in S : \A m \in S : n <= m
<1> DEFINE Less == OpToRel(<, Nat)
<1>1. \A m, n \in Nat : m < n => <<m, n>> \in Less
  BY DEF OpToRel
<1>2. IsWellFoundedOn(Less, Nat)
  BY NatLessThanWellFounded
<1> HIDE DEF Less
<1>3. PICK n \in S : \A m \in S : <<m, n>> \notin Less
  BY <1>2, WFMin
<1>4. \A m \in S : m \in Nat /\ ~(m < n)
  BY <1>1, <1>3
<1> QED
  BY <1>3, <1>4

\* Min(S) is that number.
LEMMA MinOf ==
  ASSUME NEW S, S \subseteq Nat, S # {}
  PROVE  Min(S) \in S /\ \A m \in S : Min(S) <= m
BY LeastNumber DEF Min

\* Induction over the natural numbers, for a set in place of a predicate.
LEMMA InductionOverSet ==
  ASSUME NEW S, 0 \in S, \A n \in Nat : n \in S => n + 1 \in S
  PROVE  \A n \in Nat : n \in S
<1> SUFFICES ASSUME Nat \ S # {} PROVE FALSE
  OBVIOUS
<1>1. PICK n \in Nat \ S : \A m \in Nat \ S : n <= m
  BY LeastNumber
<1>2. n - 1 \in Nat /\ n - 1 \notin Nat \ S
  BY <1>1
<1> QED
  BY <1>1, <1>2

\* The smaller of two numbers, where a write or resize() cuts the buffer.
LEMMA MinPair ==
  ASSUME NEW x \in Int, NEW y \in Int
  PROVE  Min({x, y}) = IF x <= y THEN x ELSE y
BY DEF Min

\* A gap is as many bytes as it has to fill, and none where nothing is missing.
LEMMA GapType ==
  ASSUME NEW n \in Int
  PROVE  /\ Gap(n) \in Seq(Byte)
         /\ Len(Gap(n)) = IF n <= 0 THEN 0 ELSE n
BY ByteBufferAssumption DEF Gap

\* Four pieces in a row are as long as their sum, the shape of a grown buffer.
LEMMA FourParts ==
  ASSUME NEW s \in Seq(Byte), NEW t \in Seq(Byte), NEW u \in Seq(Byte), NEW v \in Seq(Byte)
  PROVE  /\ s \o t \o u \o v \in Seq(Byte)
         /\ Len(s \o t \o u \o v) = Len(s) + Len(t) + Len(u) + Len(v)
<1>1. s \o t \in Seq(Byte) /\ Len(s \o t) = Len(s) + Len(t)
  OBVIOUS
<1>2. s \o t \o u \in Seq(Byte) /\ Len(s \o t \o u) = Len(s \o t) + Len(u)
  BY <1>1
<1> QED
  BY <1>1, <1>2

\* A relative write leaves a buffer that reaches to its new write position, is no
\* shorter than it was, and has the same read position (append, putBytes).
LEMMA PutBytesSize ==
  ASSUME NEW r \in Buffer, NEW s \in Seq(Byte)
  PROVE  /\ PutBytes(r, s) \in Buffer
         /\ PutBytes(r, s).rpos = r.rpos
         /\ PutBytes(r, s).wpos = r.wpos + Len(s)
         /\ Size(PutBytes(r, s)) >= Size(r)
         /\ Size(PutBytes(r, s)) >= r.wpos + Len(s) \/ s = <<>>
<1> DEFINE cut == SubSeq(r.buf, 1, Min({r.wpos, Size(r)}))
           gap == Gap(r.wpos - Size(r))
           rest == SubSeq(r.buf, r.wpos + Len(s) + 1, Size(r))
<1>1. /\ cut \in Seq(Byte)
      /\ Len(cut) = Min({r.wpos, Size(r)})
  BY MinPair DEF Buffer, Size
<1>2. /\ gap \in Seq(Byte)
      /\ Len(gap) = IF r.wpos - Size(r) <= 0 THEN 0 ELSE r.wpos - Size(r)
  <2>1. r.wpos - Size(r) \in Int
    BY DEF Buffer, Size
  <2> HIDE DEF gap
  <2> QED
    BY <2>1, GapType DEF gap
<1>3. /\ rest \in Seq(Byte)
      /\ Len(rest) = IF r.wpos + Len(s) + 1 <= Size(r) THEN Size(r) - r.wpos - Len(s) ELSE 0
  BY DEF Buffer, Size
<1>4. /\ cut \o gap \o s \o rest \in Seq(Byte)
      /\ Len(cut \o gap \o s \o rest) = Len(cut) + Len(gap) + Len(s) + Len(rest)
  <2>1. cut \in Seq(Byte) /\ gap \in Seq(Byte) /\ rest \in Seq(Byte)
    BY <1>1, <1>2, <1>3
  <2> HIDE DEF cut, gap, rest
  <2> QED
    BY <2>1, FourParts
<1>5. CASE s = <<>>
  BY <1>5 DEF PutBytes, Buffer, Size
<1>6. CASE s # <<>>
  <2>1. PutBytes(r, s) = [r EXCEPT !.buf = cut \o gap \o s \o rest, !.wpos = r.wpos + Len(s)]
    BY <1>6 DEF PutBytes
  <2>2. Len(cut) = IF r.wpos <= Size(r) THEN r.wpos ELSE Size(r)
    BY <1>1, MinPair DEF Buffer, Size
  <2> DEFINE whole == cut \o gap \o s \o rest
  <2>3. /\ r.buf \in Seq(Byte) /\ r.rpos \in Nat /\ r.wpos \in Nat /\ Len(r.buf) \in Nat
        /\ r = [buf |-> r.buf, rpos |-> r.rpos, wpos |-> r.wpos]
    BY DEF Buffer
  <2> HIDE DEF cut, gap, rest
  <2>4. PutBytes(r, s) = [buf |-> whole, rpos |-> r.rpos, wpos |-> r.wpos + Len(s)]
    BY <2>1, <2>3
  <2>5. /\ Len(whole) >= Len(r.buf)
        /\ Len(whole) >= r.wpos + Len(s)
    <3> DEFINE size == Len(r.buf)  len == Len(s)  c == Len(cut)  g == Len(gap)  t == Len(rest)
    <3>1. size \in Nat /\ len \in Nat /\ r.wpos \in Nat /\ Size(r) = size
      BY <2>3 DEF Size
    <3>2. Len(whole) = c + g + len + t
      BY <1>4, Zenon
    <3>3. c = IF r.wpos <= size THEN r.wpos ELSE size
      BY <2>2, <3>1
    <3>4. g = IF r.wpos - size <= 0 THEN 0 ELSE r.wpos - size
      BY <1>2, <3>1
    <3>5. t = IF r.wpos + len + 1 <= size THEN size - r.wpos - len ELSE 0
      BY <1>3, <3>1
    <3> HIDE DEF size, len, c, g, t, whole
    <3>6. Len(whole) >= size /\ Len(whole) >= r.wpos + len
      BY <3>1, <3>2, <3>3, <3>4, <3>5
    <3> QED
      BY <3>6 DEF size, len
  <2>6. PutBytes(r, s) \in Buffer
    <3>1. r.wpos + Len(s) \in Nat
      BY <2>3
    <3> HIDE DEF whole
    <3> QED
      BY <1>4, <2>3, <2>4, <3>1 DEF Buffer, whole
  <2> HIDE DEF whole
  <2> QED
    BY <2>4, <2>5, <2>6 DEF Size
<1> QED
  BY <1>5, <1>6

\* A read of one byte returns a byte, past the end as well (read).
LEMMA ByteRead ==
  ASSUME NEW r \in Buffer, NEW k \in Nat
  PROVE  GetAt(r, k) \in Byte
BY ByteBufferAssumption DEF GetAt, Buffer, Size

\* getBytes() returns bytes, wherever it reads.
LEMMA BytesRead ==
  ASSUME NEW r \in Buffer, NEW n \in Nat
  PROVE  GetBytes(r, n) \in Seq(Byte)
<1>1. \A k \in 1..n : GetAt(r, r.rpos + k - 1) \in Byte
  BY ByteRead DEF Buffer
<1> QED
  BY <1>1 DEF GetBytes

\* A typed read returns bytes, whether they are all there or not (read).
LEMMA ValueRead ==
  ASSUME NEW r \in Buffer, NEW n \in Nat, NEW index \in Nat
  PROVE  ReadAt(r, n, index) \in Seq(Byte)
<1>1. Gap(n) \in Seq(Byte)
  BY GapType
<1>2. CASE index + n <= Size(r)
  <2>1. SubSeq(r.buf, index + 1, index + n) \in Seq(Byte)
    BY <1>2 DEF Buffer, Size
  <2> QED
    BY <1>2, <2>1 DEF ReadAt
<1>3. CASE ~(index + n <= Size(r))
  BY <1>1, <1>3 DEF ReadAt
<1> QED
  BY <1>2, <1>3

\* A typed write at an index never changes the size, and puts the write position
\* inside or leaves everything as it is (insert).
LEMMA InsertSize ==
  ASSUME NEW r \in Buffer, NEW v \in Seq(Byte), NEW index \in Nat
  PROVE  /\ Insert(r, v, index) \in Buffer
         /\ Size(Insert(r, v, index)) = Size(r)
         /\ Insert(r, v, index).rpos = r.rpos
         /\ Insert(r, v, index).wpos <= Size(r) \/ Insert(r, v, index) = r
<1>0. /\ r.buf \in Seq(Byte) /\ r.rpos \in Nat /\ r.wpos \in Nat /\ Len(r.buf) \in Nat
      /\ r = [buf |-> r.buf, rpos |-> r.rpos, wpos |-> r.wpos]
      /\ Len(v) \in Nat
  BY DEF Buffer
<1>1. CASE index + Len(v) > Size(r)
  BY <1>1 DEF Insert
<1>2. CASE ~(index + Len(v) > Size(r))
  <2> DEFINE low == SubSeq(r.buf, 1, index)
             high == SubSeq(r.buf, index + Len(v) + 1, Size(r))
             whole == low \o v \o high
  <2>1. low \in Seq(Byte) /\ Len(low) = index
    BY <1>0, <1>2 DEF Size
  <2>2. high \in Seq(Byte) /\ Len(high) = Size(r) - index - Len(v)
    BY <1>0, <1>2 DEF Size
  <2>3. Insert(r, v, index) = [buf |-> whole, rpos |-> r.rpos, wpos |-> index + Len(v)]
    BY <1>0, <1>2 DEF Insert
  <2>4. whole \in Seq(Byte) /\ Len(whole) = Len(low) + Len(v) + Len(high)
    <3> HIDE DEF low, high
    <3>1. low \o v \in Seq(Byte) /\ Len(low \o v) = Len(low) + Len(v)
      BY <2>1
    <3> QED
      BY <2>2, <3>1
  <2> HIDE DEF low, high, whole
  <2> QED
    BY <1>0, <1>2, <2>1, <2>2, <2>3, <2>4 DEF Buffer, Size
<1> QED
  BY <1>1, <1>2

\* resize() gives the size that was asked for, and both positions are 0.
LEMMA ResizeSize ==
  ASSUME NEW r \in Buffer, NEW n \in Nat
  PROVE  /\ Resize(r, n) \in Buffer
         /\ Size(Resize(r, n)) = n
         /\ Resize(r, n).rpos = 0 /\ Resize(r, n).wpos = 0
<1> DEFINE cut == SubSeq(r.buf, 1, Min({n, Size(r)}))
           gap == Gap(n - Size(r))
<1>0. /\ r.buf \in Seq(Byte) /\ Size(r) = Len(r.buf) /\ Size(r) \in Nat
      /\ r = [buf |-> r.buf, rpos |-> r.rpos, wpos |-> r.wpos]
  BY DEF Buffer, Size
<1>1. /\ cut \in Seq(Byte)
      /\ Len(cut) = IF n <= Size(r) THEN n ELSE Size(r)
  <2>1. Min({n, Size(r)}) = IF n <= Size(r) THEN n ELSE Size(r)
    BY <1>0, MinPair
  <2>2. SubSeq(r.buf, 1, Min({n, Size(r)}))
          = SubSeq(r.buf, 1, IF n <= Size(r) THEN n ELSE Size(r))
    BY <2>1, Zenon
  <2>3. LET m == IF n <= Size(r) THEN n ELSE Size(r)
        IN SubSeq(r.buf, 1, m) \in Seq(Byte) /\ Len(SubSeq(r.buf, 1, m)) = m
    BY <1>0
  <2> QED
    BY <2>2, <2>3, Zenon
<1>2. /\ gap \in Seq(Byte)
      /\ Len(gap) = IF n - Size(r) <= 0 THEN 0 ELSE n - Size(r)
  <2>1. n - Size(r) \in Int
    BY <1>0
  <2> HIDE DEF gap
  <2> QED
    BY <2>1, GapType DEF gap
<1>3. Resize(r, n) = [buf |-> cut \o gap, rpos |-> 0, wpos |-> 0]
  <2>1. ResizeOnly(r, n) = [buf |-> cut \o gap, rpos |-> r.rpos, wpos |-> 0]
    <3>1. ResizeOnly(r, n) = [r EXCEPT !.buf = cut \o gap, !.wpos = 0]
      BY DEF ResizeOnly
    <3> HIDE DEF cut, gap
    <3> QED
      BY <1>0, <3>1
  <2> DEFINE whole == cut \o gap
             only == [buf |-> whole, rpos |-> r.rpos, wpos |-> 0]
  <2>2. Resize(r, n) = [only EXCEPT !.rpos = 0]
    BY <2>1, Zenon DEF Resize
  <2>3. [only EXCEPT !.rpos = 0] = [buf |-> whole, rpos |-> 0, wpos |-> 0]
    <3> HIDE DEF whole
    <3> QED
      OBVIOUS
  <2> QED
    BY <2>2, <2>3, Zenon
<1> HIDE DEF cut, gap
<1>4. cut \o gap \in Seq(Byte) /\ Len(cut \o gap) = n
  BY <1>0, <1>1, <1>2, SMTT(30)
<1> QED
  BY <1>3, <1>4 DEF Buffer, Size

\* replace() keeps the size and both positions.
LEMMA ReplaceSize ==
  ASSUME NEW r \in Buffer, NEW key \in Byte, NEW rep \in Byte, NEW start \in Nat,
         NEW firstOnly \in BOOLEAN
  PROVE  /\ Replace(r, key, rep, start, firstOnly) \in Buffer
         /\ Size(Replace(r, key, rep, start, firstOnly)) = Size(r)
         /\ Replace(r, key, rep, start, firstOnly).rpos = r.rpos
         /\ Replace(r, key, rep, start, firstOnly).wpos = r.wpos
<1> DEFINE hits == Hits(r, key, start)
           changed == IF firstOnly /\ hits # {} THEN {Min(hits)} ELSE hits
           whole == [i \in DOMAIN r.buf |-> IF i - 1 \in changed THEN rep ELSE r.buf[i]]
<1>0. /\ r.buf \in Seq(Byte) /\ r.rpos \in Nat /\ r.wpos \in Nat
      /\ r = [buf |-> r.buf, rpos |-> r.rpos, wpos |-> r.wpos]
  BY DEF Buffer
<1>1. Replace(r, key, rep, start, firstOnly)
        = [buf |-> whole, rpos |-> r.rpos, wpos |-> r.wpos]
  BY <1>0 DEF Replace
<1>2. whole \in Seq(Byte) /\ Len(whole) = Len(r.buf)
  <2> HIDE DEF changed
  <2>1. DOMAIN r.buf = 1..Len(r.buf) /\ \A i \in 1..Len(r.buf) : r.buf[i] \in Byte
    BY <1>0
  <2> QED
    BY <1>0, <2>1
<1> HIDE DEF whole
<1> QED
  BY <1>0, <1>1, <1>2 DEF Buffer, Size

\* A remainder is not more than the number, so an index below the size stays there.
LEMMA RemainderBelow ==
  ASSUME NEW a \in Nat, NEW w \in Nat \ {0}
  PROVE  a % w \in Nat /\ a % w <= a
<1>1. a % w \in 0..(w - 1)
  OBVIOUS
<1>2. CASE a < w
  <2>1. a % w = a
    BY <1>2
  <2> QED
    BY <2>1
<1>3. CASE a >= w
  BY <1>1, <1>3
<1> QED
  BY <1>2, <1>3

\* The bytes that are written: the ones from the start that the buffer has, up to
\* the write position and then again.
SelfBytes(r, s) ==
  /\ Len(s) = Size(r)
  /\ \A i \in 1..Size(r) :
       s[i] = IF r.wpos = 0 THEN r.buf[i] ELSE r.buf[((i - 1) % r.wpos) + 1]

\* put(src) on the buffer itself is one relative write of these bytes.
LEMMA PutItselfIs ==
  ASSUME NEW r \in Buffer
  PROVE  \E s \in Seq(Byte) : SelfBytes(r, s) /\ PutItself(r) = PutBytes(r, s)
<1> DEFINE f == [i \in 1..Size(r) |->
                   IF r.wpos = 0 THEN r.buf[i] ELSE r.buf[((i - 1) % r.wpos) + 1]]
<1>1. /\ r.buf \in Seq(Byte) /\ Size(r) = Len(r.buf) /\ Size(r) \in Nat /\ r.wpos \in Nat
      /\ \A i \in 1..Size(r) : r.buf[i] \in Byte
  BY DEF Buffer, Size
<1>2. \A i \in 1..Size(r) : f[i] \in Byte
  <2> SUFFICES ASSUME NEW i \in 1..Size(r), r.wpos # 0
               PROVE  ((i - 1) % r.wpos) + 1 \in 1..Size(r)
    BY <1>1
  <2>1. (i - 1) \in Nat /\ r.wpos \in Nat \ {0} /\ i \in 1..Size(r) /\ Size(r) \in Nat
    BY <1>1
  <2>2. (i - 1) % r.wpos \in Nat /\ (i - 1) % r.wpos <= i - 1
    BY <2>1, RemainderBelow
  <2> QED
    BY <2>1, <2>2
<1>3. f \in Seq(Byte) /\ Len(f) = Size(r) /\ <<>> \o f = f
  BY <1>1, <1>2, SMTT(30)
<1>4. PutItself(r) = PutBytes(r, f)
  BY <1>3 DEF PutItself
<1>5. SelfBytes(r, f)
  BY <1>3 DEF SelfBytes
<1> QED
  BY <1>3, <1>4, <1>5
----------------------------------------------------------------------------
(* The bytes of a buffer *)

\* At the end of the buffer a relative write appends.
LEMMA PutAppends ==
  ASSUME NEW r \in Buffer, NEW s \in Seq(Byte), r.wpos = Size(r)
  PROVE  PutBytes(r, s).buf = r.buf \o s
<1>0. /\ r.buf \in Seq(Byte) /\ Size(r) = Len(r.buf) /\ Size(r) \in Nat /\ Len(s) \in Nat
      /\ r = [buf |-> r.buf, rpos |-> r.rpos, wpos |-> r.wpos]
  BY DEF Buffer, Size
<1>1. CASE s = <<>>
  BY <1>0, <1>1, ConcatEmptySeq DEF PutBytes
<1>2. CASE s # <<>>
  <2> DEFINE cut == SubSeq(r.buf, 1, Min({r.wpos, Size(r)}))
             gap == Gap(r.wpos - Size(r))
             rest == SubSeq(r.buf, r.wpos + Len(s) + 1, Size(r))
             whole == cut \o gap \o s \o rest
  <2>1. cut = r.buf
    <3>1. Min({r.wpos, Size(r)}) = Len(r.buf)
      <4>1. r.wpos \in Int /\ Size(r) \in Int /\ r.wpos <= Size(r) /\ r.wpos = Len(r.buf)
        BY <1>0
      <4>2. Min({r.wpos, Size(r)}) = IF r.wpos <= Size(r) THEN r.wpos ELSE Size(r)
        BY <4>1, MinPair
      <4> QED
        BY <4>1, <4>2, Zenon
    <3>2. SubSeq(r.buf, 1, Len(r.buf)) = r.buf
      BY <1>0, SubSeqFull
    <3> QED
      BY <3>1, <3>2, Zenon
  <2>2. gap = <<>>
    BY <1>0 DEF Gap
  <2>3. rest = <<>>
    <3>1. r.wpos + Len(s) + 1 \in Int /\ Size(r) \in Int /\ Size(r) < r.wpos + Len(s) + 1
      BY <1>0
    <3> QED
      BY <3>1, SubSeqEmpty
  <2>4. PutBytes(r, s) = [r EXCEPT !.buf = whole, !.wpos = r.wpos + Len(s)]
    BY <1>2 DEF PutBytes
  <2> HIDE DEF cut, gap, rest
  <2>5. whole = r.buf \o s
    <3>1. r.buf \o <<>> = r.buf /\ r.buf \o s \in Seq(Byte) /\ (r.buf \o s) \o <<>> = r.buf \o s
      BY <1>0, ConcatEmptySeq, ConcatProperties
    <3> QED
      BY <2>1, <2>2, <2>3, <3>1, Zenon
  <2> HIDE DEF whole
  <2>6. PutBytes(r, s).buf = whole
    BY <1>0, <2>4
  <2> QED
    BY <2>5, <2>6
<1> QED
  BY <1>1, <1>2

\* What has been read stays what it was when more is written.
LEMMA PrefixOfLonger ==
  ASSUME NEW s \in Seq(Byte), NEW t \in Seq(Byte), NEW n \in Nat, n <= Len(s)
  PROVE  SubSeq(s \o t, 1, n) = SubSeq(s, 1, n)
<1>1. s \o t \in Seq(Byte) /\ Len(s \o t) = Len(s) + Len(t)
      /\ \A i \in 1..n : (s \o t)[i] = s[i]
  OBVIOUS
<1>2. SubSeq(s \o t, 1, n) \in Seq(Byte) /\ Len(SubSeq(s \o t, 1, n)) = n
      /\ \A i \in 1..n : SubSeq(s \o t, 1, n)[i] = (s \o t)[i]
  BY <1>1
<1>3. SubSeq(s, 1, n) \in Seq(Byte) /\ Len(SubSeq(s, 1, n)) = n
      /\ \A i \in 1..n : SubSeq(s, 1, n)[i] = s[i]
  OBVIOUS
<1> QED
  BY <1>1, <1>2, <1>3, SeqEqual

\* A read goes on where the last one stopped.
LEMMA NextPart ==
  ASSUME NEW s \in Seq(Byte), NEW r \in Nat, NEW n \in Nat, r + n <= Len(s)
  PROVE  SubSeq(s, 1, r) \o SubSeq(s, r + 1, r + n) = SubSeq(s, 1, r + n)
<1>1. 1 \in 1..(Len(s) + 1) /\ r \in (1 - 1)..Len(s) /\ r + n \in r..Len(s)
  OBVIOUS
<1> QED
  BY <1>1, ConcatAdjacentSubSeq

\* Where all the bytes are there, getBytes reads what a typed read reads.
LEMMA SameBytes ==
  ASSUME NEW r \in Buffer, NEW n \in Nat, r.rpos + n <= Size(r)
  PROVE  GetBytes(r, n) = SubSeq(r.buf, r.rpos + 1, r.rpos + n)
<1>0. r.buf \in Seq(Byte) /\ Size(r) = Len(r.buf) /\ r.rpos \in Nat /\ Size(r) \in Nat
  BY DEF Buffer, Size
<1>1. \A k \in 1..n : GetAt(r, r.rpos + k - 1) = r.buf[r.rpos + k]
  BY <1>0 DEF GetAt
<1>2. /\ GetBytes(r, n) \in Seq(Byte) /\ Len(GetBytes(r, n)) = n
      /\ \A k \in 1..n : GetBytes(r, n)[k] = GetAt(r, r.rpos + k - 1)
  <2>1. \A k \in 1..n : GetAt(r, r.rpos + k - 1) \in Byte
    BY <1>0, ByteRead
  <2> QED
    BY <2>1 DEF GetBytes
<1>3. /\ SubSeq(r.buf, r.rpos + 1, r.rpos + n) \in Seq(Byte)
      /\ Len(SubSeq(r.buf, r.rpos + 1, r.rpos + n)) = n
      /\ \A k \in 1..n : SubSeq(r.buf, r.rpos + 1, r.rpos + n)[k] = r.buf[r.rpos + k]
  <2> DEFINE first == r.rpos + 1
             last == r.rpos + n
             part == SubSeq(r.buf, first, last)
  <2>1. /\ first \in Int /\ last \in Int /\ last - first + 1 = n
        /\ first <= last \/ n = 0
        /\ \A i \in first..last : r.buf[i] \in Byte
        /\ \A k \in 1..n : first + k - 1 = r.rpos + k
    <3> DEFINE p == r.rpos
    <3>1. p \in Nat /\ first = p + 1 /\ last = p + n /\ last <= Len(r.buf)
      BY <1>0
    <3>2. \A i \in 1..Len(r.buf) : r.buf[i] \in Byte
      BY <1>0
    <3>3. Len(r.buf) \in Nat
      BY <1>0
    <3> HIDE DEF p, first, last
    <3>4. \A i \in first..last : i \in 1..Len(r.buf)
      BY <3>1, <3>3
    <3>5. /\ first \in Int /\ last \in Int /\ last - first + 1 = n
          /\ first <= last \/ n = 0
          /\ \A k \in 1..n : first + k - 1 = p + k
      BY <3>1
    <3> QED
      BY <3>2, <3>4, <3>5 DEF p
  <2> HIDE DEF first, last
  <2>2. /\ part \in Seq(Byte) /\ Len(part) = IF first <= last THEN last - first + 1 ELSE 0
        /\ \A k \in 1..last - first + 1 : part[k] = r.buf[first + k - 1]
    BY <2>1, SubSeqProperties
  <2>3. /\ part \in Seq(Byte) /\ Len(part) = n
        /\ \A k \in 1..n : part[k] = r.buf[r.rpos + k]
    <3> HIDE DEF part
    <3> QED
      BY <2>1, <2>2
  <2> QED
    BY <2>3 DEF first, last
<1> QED
  BY <1>1, <1>2, <1>3, SeqEqual
----------------------------------------------------------------------------
(* What a write changes *)

\* The byte at an index of two pieces in a row.
LEMMA TwoIndex ==
  ASSUME NEW s \in Seq(Byte), NEW t \in Seq(Byte)
  PROVE  /\ s \o t \in Seq(Byte) /\ Len(s \o t) = Len(s) + Len(t)
         /\ \A k \in 1..Len(s) + Len(t) :
              (s \o t)[k] = IF k <= Len(s) THEN s[k] ELSE t[k - Len(s)]
OBVIOUS

\* A sequence of one element.
LEMMA OneLong ==
  ASSUME NEW S, NEW u \in Seq(S), Len(u) = 1
  PROVE  u = <<u[1]>>
<1>1. 1 \in 1..Len(u)
  OBVIOUS
<1>2. PICK c \in S : c = u[1]
  BY <1>1, ElementOfSeq
<1>3. <<c>> \in Seq(S) /\ Len(<<c>>) = 1 /\ <<c>>[1] = c
  OBVIOUS
<1>4. \A i \in 1..Len(u) : u[i] = <<c>>[i]
  BY <1>2, <1>3
<1>5. u = <<c>>
  BY <1>3, <1>4, SeqEqual
<1> QED
  BY <1>2, <1>5

\* The byte at an index of four pieces in a row.
LEMMA FourIndex ==
  ASSUME NEW s \in Seq(Byte), NEW t \in Seq(Byte), NEW u \in Seq(Byte), NEW v \in Seq(Byte),
         NEW i \in 1..Len(s) + Len(t) + Len(u) + Len(v)
  PROVE  (s \o t \o u \o v)[i] =
           IF i <= Len(s) THEN s[i]
           ELSE IF i <= Len(s) + Len(t) THEN t[i - Len(s)]
           ELSE IF i <= Len(s) + Len(t) + Len(u) THEN u[i - Len(s) - Len(t)]
           ELSE v[i - Len(s) - Len(t) - Len(u)]
<1> DEFINE st == s \o t
           stu == st \o u
<1>1. /\ st \in Seq(Byte) /\ Len(st) = Len(s) + Len(t)
      /\ \A k \in 1..Len(st) : st[k] = IF k <= Len(s) THEN s[k] ELSE t[k - Len(s)]
  OBVIOUS
<1> HIDE DEF st
<1>2. /\ stu \in Seq(Byte) /\ Len(stu) = Len(st) + Len(u)
      /\ \A k \in 1..Len(stu) : stu[k] = IF k <= Len(st) THEN st[k] ELSE u[k - Len(st)]
  BY <1>1
<1> HIDE DEF stu
<1>3. \A k \in 1..Len(stu) + Len(v) :
        (stu \o v)[k] = IF k <= Len(stu) THEN stu[k] ELSE v[k - Len(stu)]
  BY <1>2
<1>4. (stu \o v)[i] =
           IF i <= Len(s) THEN s[i]
           ELSE IF i <= Len(s) + Len(t) THEN t[i - Len(s)]
           ELSE IF i <= Len(s) + Len(t) + Len(u) THEN u[i - Len(s) - Len(t)]
           ELSE v[i - Len(s) - Len(t) - Len(u)]
  <2>1. Len(s) \in Nat /\ Len(t) \in Nat /\ Len(u) \in Nat /\ Len(v) \in Nat
    OBVIOUS
  <2>2. i \in 1..Len(stu) + Len(v)
    BY <1>1, <1>2, <2>1
  <2> QED
    BY <1>1, <1>2, <1>3, <2>1, <2>2
<1> QED
  BY <1>4 DEF st, stu

\* A piece of a sequence, past its end as well.
LEMMA PieceOf ==
  ASSUME NEW t \in Seq(Byte), NEW lo \in Nat \ {0}, NEW hi \in Nat, hi <= Len(t)
  PROVE  /\ SubSeq(t, lo, hi) \in Seq(Byte)
         /\ Len(SubSeq(t, lo, hi)) = IF lo <= hi THEN hi - lo + 1 ELSE 0
         /\ \A k \in 1..hi - lo + 1 : SubSeq(t, lo, hi)[k] = t[lo + k - 1]
<1>1. \A k \in lo..hi : t[k] \in Byte
  OBVIOUS
<1> QED
  BY <1>1, SubSeqProperties

\* The bytes of a gap.
LEMMA GapBytes ==
  ASSUME NEW n \in Int, NEW k \in 1..n
  PROVE  Gap(n)[k] = Zero
<1>1. n \in Nat /\ n > 0
  OBVIOUS
<1> QED
  BY <1>1, ByteBufferAssumption DEF Gap

\* A relative write: its own bytes, 0 in a gap before them, and nothing else.
LEMMA PutBytesBytes ==
  ASSUME NEW r \in Buffer, NEW s \in Seq(Byte), NEW i \in Nat
  PROVE  /\ GetAt(PutBytes(r, s), i) =
              IF i >= r.wpos /\ i < r.wpos + Len(s) THEN s[i - r.wpos + 1] ELSE GetAt(r, i)
         /\ Size(PutBytes(r, s)) =
              IF s = <<>> \/ r.wpos + Len(s) <= Size(r) THEN Size(r) ELSE r.wpos + Len(s)
<1>0. /\ r.buf \in Seq(Byte) /\ r.rpos \in Nat /\ r.wpos \in Nat /\ Len(r.buf) \in Nat
      /\ r = [buf |-> r.buf, rpos |-> r.rpos, wpos |-> r.wpos]
      /\ Size(r) = Len(r.buf) /\ Len(s) \in Nat
  BY DEF Buffer, Size
<1>1. CASE s = <<>>
  BY <1>0, <1>1 DEF PutBytes
<1>2. CASE s # <<>>
  <2> DEFINE cut == SubSeq(r.buf, 1, Min({r.wpos, Size(r)}))
             gap == Gap(r.wpos - Size(r))
             rest == SubSeq(r.buf, r.wpos + Len(s) + 1, Size(r))
             whole == cut \o gap \o s \o rest
  <2>1. PICK w \in Nat, size \in Nat, c \in Nat, a \in Nat, n \in Nat :
          /\ w = r.wpos /\ size = Size(r)
          /\ c = (IF w <= size THEN w ELSE size)
          /\ a = w + Len(s)
          /\ n = (IF a <= size THEN size ELSE a)
    BY <1>0, SMTT(30)
  <2>2. /\ cut \in Seq(Byte) /\ Len(cut) = c
        /\ \A k \in 1..c : cut[k] = r.buf[k]
    <3>1. cut = SubSeq(r.buf, 1, c)
      <4>1. Min({r.wpos, Size(r)}) = c
        BY <2>1, MinPair
      <4> QED
        BY <4>1
    <3>2. c <= Len(r.buf)
      BY <1>0, <2>1
    <3>3. /\ SubSeq(r.buf, 1, c) \in Seq(Byte) /\ Len(SubSeq(r.buf, 1, c)) = c
          /\ \A k \in 1..c : SubSeq(r.buf, 1, c)[k] = r.buf[k]
      BY <1>0, <3>2, PieceOf
    <3> QED
      BY <3>1, <3>3, Zenon
  <2>3. /\ gap \in Seq(Byte) /\ Len(gap) = w - c
        /\ \A k \in 1..w - c : gap[k] = Zero
    <3>1. gap = Gap(w - size) /\ w - size \in Int
      BY <2>1
    <3>2. /\ Gap(w - size) \in Seq(Byte)
          /\ Len(Gap(w - size)) = w - c
      <4>1. /\ Gap(w - size) \in Seq(Byte)
            /\ Len(Gap(w - size)) = IF w - size <= 0 THEN 0 ELSE w - size
        BY <3>1, GapType
      <4>2. w - c = IF w - size <= 0 THEN 0 ELSE w - size
        BY <2>1
      <4> QED
        BY <4>1, <4>2
    <3>3. \A k \in 1..w - c : Gap(w - size)[k] = Zero
      <4>1. \A k \in 1..w - c : k \in 1..w - size
        BY <2>1
      <4> QED
        BY <3>1, <4>1, GapBytes
    <3> QED
      BY <3>1, <3>2, <3>3, Zenon
  <2>4. /\ rest \in Seq(Byte) /\ Len(rest) = n - a
        /\ \A k \in 1..n - a : rest[k] = r.buf[a + k]
    <3>1. rest = SubSeq(r.buf, a + 1, size) /\ a + 1 \in Nat \ {0} /\ size <= Len(r.buf)
      BY <1>0, <2>1
    <3>2. /\ SubSeq(r.buf, a + 1, size) \in Seq(Byte)
          /\ Len(SubSeq(r.buf, a + 1, size)) = IF a + 1 <= size THEN size - (a + 1) + 1 ELSE 0
          /\ \A k \in 1..size - (a + 1) + 1 : SubSeq(r.buf, a + 1, size)[k] = r.buf[a + 1 + k - 1]
      BY <1>0, <3>1, PieceOf
    <3> HIDE DEF rest
    <3>3. rest \in Seq(Byte) /\ Len(rest) = n - a
      <4>1. n - a = IF a + 1 <= size THEN size - (a + 1) + 1 ELSE 0
        BY <2>1, SMTT(30)
      <4> QED
        BY <3>1, <3>2, <4>1
    <3>4. ASSUME NEW k \in 1..n - a PROVE rest[k] = r.buf[a + k]
      <4>1. k \in 1..size - (a + 1) + 1 /\ a + 1 + k - 1 = a + k
        BY <2>1, SMTT(30)
      <4> QED
        BY <3>1, <3>2, <4>1
    <3> QED
      BY <3>3, <3>4
  <2>5. PutBytes(r, s).buf = whole
    <3>1. PutBytes(r, s) = [r EXCEPT !.buf = whole, !.wpos = r.wpos + Len(s)]
      BY <1>2 DEF PutBytes
    <3> HIDE DEF whole
    <3> QED
      BY <1>0, <3>1
  <2> HIDE DEF cut, gap, rest
  <2>6. /\ Len(cut) = c /\ Len(gap) = w - c /\ Len(s) = a - w /\ Len(rest) = n - a
        /\ c <= w /\ w <= a /\ a <= n
    BY <1>0, <2>1, <2>2, <2>3, <2>4, SMTT(30)
  <2>0. cut \in Seq(Byte) /\ gap \in Seq(Byte) /\ rest \in Seq(Byte)
    BY <2>2, <2>3, <2>4
  <2>7. Len(whole) = n
    <3>1. Len(whole) = Len(cut) + Len(gap) + Len(s) + Len(rest)
      BY <2>0, FourParts
    <3> HIDE DEF whole
    <3> QED
      BY <2>6, <3>1
  <2>8. ASSUME NEW k \in 1..n
        PROVE  whole[k] = IF k <= c THEN cut[k] ELSE IF k <= w THEN gap[k - c]
                          ELSE IF k <= a THEN s[k - w] ELSE rest[k - a]
    <3>1. k \in 1..Len(cut) + Len(gap) + Len(s) + Len(rest)
      BY <2>6
    <3>2. whole[k] =
           IF k <= Len(cut) THEN cut[k]
           ELSE IF k <= Len(cut) + Len(gap) THEN gap[k - Len(cut)]
           ELSE IF k <= Len(cut) + Len(gap) + Len(s) THEN s[k - Len(cut) - Len(gap)]
           ELSE rest[k - Len(cut) - Len(gap) - Len(s)]
      BY <2>0, <3>1, FourIndex, SMTT(30)
    <3> HIDE DEF whole
    <3>3. /\ Len(cut) + Len(gap) = w /\ w + Len(s) = a
          /\ k - Len(cut) - Len(gap) = k - w /\ k - Len(cut) - Len(gap) - Len(s) = k - a
      BY <2>6
    <3> QED
      BY <2>6, <3>2, <3>3
  <2> HIDE DEF whole
  <2>9. ASSUME NEW k \in 1..n
        PROVE  whole[k] = IF k > w /\ k <= a THEN s[k - w]
                          ELSE IF k <= size THEN r.buf[k] ELSE Zero
    <3>1. CASE k <= c
      BY <2>1, <2>2, <2>8, <3>1
    <3>2. CASE k > c /\ k <= w
      <4>1. k - c \in 1..w - c /\ ~(k <= size)
        BY <2>1, <3>2
      <4> QED
        BY <2>1, <2>3, <2>8, <3>2, <4>1
    <3>3. CASE k > w /\ k <= a
      BY <2>1, <2>8, <3>3, SMTT(30)
    <3>4. CASE k > a
      <4>1. k - a \in 1..n - a /\ a + (k - a) = k /\ k <= size /\ ~(k <= c) /\ ~(k <= w)
        BY <1>0, <2>1, <3>4, SMTT(30)
      <4>2. whole[k] = rest[k - a] /\ rest[k - a] = r.buf[a + (k - a)]
        BY <2>4, <2>8, <3>4, <4>1
      <4> QED
        BY <3>4, <4>1, <4>2
    <3> QED
      BY <2>1, <3>1, <3>2, <3>3, <3>4
  <2>10. GetAt(PutBytes(r, s), i) = IF i < n THEN whole[i + 1] ELSE Zero
    BY <2>5, <2>7 DEF GetAt, Size
  <2>11. GetAt(r, i) = IF i < size THEN r.buf[i + 1] ELSE Zero
    BY <2>1 DEF GetAt
  <2>12. i >= w /\ i < a => i < n /\ i + 1 > w /\ i + 1 <= a /\ i - w + 1 = (i + 1) - w
    BY <1>0, <2>1
  <2>13. i < n => i + 1 \in 1..n
    OBVIOUS
  <2>14. GetAt(PutBytes(r, s), i) = IF i >= w /\ i < a THEN s[i - w + 1] ELSE GetAt(r, i)
    BY <1>0, <2>1, <2>9, <2>10, <2>11, <2>12, <2>13
  <2>15. Size(PutBytes(r, s)) = n
    BY <2>5, <2>7 DEF Size
  <2> QED
    BY <1>2, <2>1, <2>14, <2>15
<1> QED
  BY <1>1, <1>2

\* Two buffers with the same size, positions and bytes are the same.
LEMMA SameBuffer ==
  ASSUME NEW p \in Buffer, NEW q \in Buffer,
         Size(p) = Size(q), p.rpos = q.rpos, p.wpos = q.wpos,
         \A i \in Nat : GetAt(p, i) = GetAt(q, i)
  PROVE  p = q
<1>1. /\ p = [buf |-> p.buf, rpos |-> p.rpos, wpos |-> p.wpos] /\ p.buf \in Seq(Byte)
      /\ q = [buf |-> q.buf, rpos |-> q.rpos, wpos |-> q.wpos] /\ q.buf \in Seq(Byte)
      /\ Len(p.buf) = Len(q.buf)
  BY DEF Buffer, Size
<1>2. ASSUME NEW k \in 1..Len(p.buf) PROVE p.buf[k] = q.buf[k]
  <2>1. k - 1 \in Nat /\ k - 1 < Size(p) /\ k - 1 < Size(q) /\ (k - 1) + 1 = k
    BY <1>1 DEF Size
  <2>2. GetAt(p, k - 1) = p.buf[k] /\ GetAt(q, k - 1) = q.buf[k]
    BY <2>1 DEF GetAt
  <2> QED
    BY <2>1, <2>2
<1>3. p.buf = q.buf
  BY <1>1, <1>2, SeqEqual
<1> QED
  BY <1>1, <1>3

\* One write after the other is one write of both (append).
LEMMA PutTwice ==
  ASSUME NEW r \in Buffer, NEW s \in Seq(Byte), NEW t \in Seq(Byte)
  PROVE  PutBytes(PutBytes(r, s), t) = PutBytes(r, s \o t)
<1> DEFINE one == PutBytes(r, s)
           two == PutBytes(one, t)
           both == PutBytes(r, s \o t)
<1>0. /\ Size(r) \in Nat /\ r.rpos \in Nat /\ r.wpos \in Nat
      /\ s \o t \in Seq(Byte) /\ Len(s \o t) = Len(s) + Len(t)
      /\ Len(s) \in Nat /\ Len(t) \in Nat
      /\ s = <<>> <=> Len(s) = 0
      /\ t = <<>> <=> Len(t) = 0
      /\ s \o t = <<>> <=> Len(s) + Len(t) = 0
  <2>1. s \o t \in Seq(Byte) /\ Len(s \o t) = Len(s) + Len(t)
    BY TwoIndex
  <2>2. \A u \in Seq(Byte) : u = <<>> <=> Len(u) = 0
    OBVIOUS
  <2> QED
    BY <2>1, <2>2, BufferNumbers
<1>1. one \in Buffer /\ one.rpos = r.rpos /\ one.wpos = r.wpos + Len(s)
  BY PutBytesSize
<1> HIDE DEF one
<1>2. two \in Buffer /\ two.rpos = one.rpos /\ two.wpos = one.wpos + Len(t)
  BY <1>1, PutBytesSize
<1>3. both \in Buffer /\ both.rpos = r.rpos /\ both.wpos = r.wpos + Len(s \o t)
  BY <1>0, PutBytesSize
<1>4. Size(two) = Size(both)
  <2>1. Size(one) = IF s = <<>> \/ r.wpos + Len(s) <= Size(r) THEN Size(r) ELSE r.wpos + Len(s)
    BY PutBytesBytes DEF one
  <2>2. Size(two) = IF t = <<>> \/ one.wpos + Len(t) <= Size(one) THEN Size(one) ELSE one.wpos + Len(t)
    BY <1>1, PutBytesBytes
  <2>3. Size(both) = IF s \o t = <<>> \/ r.wpos + Len(s \o t) <= Size(r)
                     THEN Size(r) ELSE r.wpos + Len(s \o t)
    BY <1>0, PutBytesBytes
  <2> HIDE DEF two, both
  <2> QED
    BY <1>0, <1>1, <2>1, <2>2, <2>3
<1>5. ASSUME NEW i \in Nat PROVE GetAt(two, i) = GetAt(both, i)
  <2>1. GetAt(one, i) = IF i >= r.wpos /\ i < r.wpos + Len(s) THEN s[i - r.wpos + 1] ELSE GetAt(r, i)
    BY PutBytesBytes DEF one
  <2>2. GetAt(two, i) = IF i >= one.wpos /\ i < one.wpos + Len(t)
                        THEN t[i - one.wpos + 1] ELSE GetAt(one, i)
    BY <1>1, PutBytesBytes
  <2>3. GetAt(both, i) = IF i >= r.wpos /\ i < r.wpos + Len(s \o t)
                         THEN (s \o t)[i - r.wpos + 1] ELSE GetAt(r, i)
    BY <1>0, PutBytesBytes
  <2>4. \A k \in 1..Len(s) + Len(t) :
          (s \o t)[k] = IF k <= Len(s) THEN s[k] ELSE t[k - Len(s)]
    BY TwoIndex
  <2> DEFINE st == s \o t
  <2> HIDE DEF two, both, st
  <2>5. CASE i < r.wpos \/ i >= r.wpos + Len(s) + Len(t)
    BY <1>0, <1>1, <2>1, <2>2, <2>3, <2>5, SMTT(30) DEF st
  <2>6. CASE i >= r.wpos /\ i < r.wpos + Len(s)
    <3>1. i - r.wpos + 1 \in 1..Len(s) + Len(t) /\ i - r.wpos + 1 <= Len(s)
      BY <1>0, <2>6
    <3>2. (s \o t)[i - r.wpos + 1] = s[i - r.wpos + 1]
      BY <2>4, <3>1
    <3> QED
      BY <1>0, <1>1, <2>1, <2>2, <2>3, <2>6, <3>2
  <2>7. CASE i >= r.wpos + Len(s) /\ i < r.wpos + Len(s) + Len(t)
    <3>1. /\ i - r.wpos + 1 \in 1..Len(s) + Len(t) /\ ~(i - r.wpos + 1 <= Len(s))
          /\ (i - r.wpos + 1) - Len(s) = i - (r.wpos + Len(s)) + 1
      BY <1>0, <2>7, SMTT(30)
    <3>2. (s \o t)[i - r.wpos + 1] = t[i - (r.wpos + Len(s)) + 1]
      BY <2>4, <3>1
    <3> QED
      BY <1>0, <1>1, <2>1, <2>2, <2>3, <2>7, <3>2, SMTT(30)
  <2> QED
    BY <1>0, <2>5, <2>6, <2>7
<1> HIDE DEF two, both
<1>6. two.rpos = both.rpos /\ two.wpos = both.wpos
  BY <1>0, <1>1, <1>2, <1>3
<1>7. two = both
  BY <1>2, <1>3, <1>4, <1>5, <1>6, SameBuffer
<1> QED
  BY <1>7 DEF one, two, both

\* A typed write at an index that fits: its own bytes and nothing else.
LEMMA InsertBytes ==
  ASSUME NEW r \in Buffer, NEW v \in Seq(Byte), NEW index \in Nat, index + Len(v) <= Size(r),
         NEW i \in Nat
  PROVE  /\ Insert(r, v, index).wpos = index + Len(v)
         /\ GetAt(Insert(r, v, index), i) =
              IF i >= index /\ i < index + Len(v) THEN v[i - index + 1] ELSE GetAt(r, i)
<1>0. /\ r.buf \in Seq(Byte) /\ r.rpos \in Nat /\ r.wpos \in Nat /\ Len(r.buf) \in Nat
      /\ r = [buf |-> r.buf, rpos |-> r.rpos, wpos |-> r.wpos]
      /\ Size(r) = Len(r.buf) /\ Len(v) \in Nat
  BY DEF Buffer, Size
<1> DEFINE low == SubSeq(r.buf, 1, index)
           high == SubSeq(r.buf, index + Len(v) + 1, Size(r))
           whole == low \o v \o high
<1>1. PICK size \in Nat, a \in Nat : size = Size(r) /\ a = index + Len(v) /\ a <= size
  BY <1>0
<1>2. /\ low \in Seq(Byte) /\ Len(low) = index
      /\ \A k \in 1..index : low[k] = r.buf[k]
  BY <1>0, PieceOf
<1>3. /\ high \in Seq(Byte) /\ Len(high) = size - a
      /\ \A k \in 1..size - a : high[k] = r.buf[a + k]
  <2>1. high = SubSeq(r.buf, a + 1, size) /\ a + 1 \in Nat \ {0} /\ size <= Len(r.buf)
    BY <1>0, <1>1
  <2>2. /\ SubSeq(r.buf, a + 1, size) \in Seq(Byte)
        /\ Len(SubSeq(r.buf, a + 1, size)) = IF a + 1 <= size THEN size - (a + 1) + 1 ELSE 0
        /\ \A k \in 1..size - (a + 1) + 1 : SubSeq(r.buf, a + 1, size)[k] = r.buf[a + 1 + k - 1]
    <3>1. r.buf \in Seq(Byte) /\ a + 1 \in Nat \ {0} /\ size <= Len(r.buf)
      BY <1>0, <2>1
    <3> QED
      BY <3>1, PieceOf
  <2> HIDE DEF high
  <2>3. high \in Seq(Byte) /\ Len(high) = size - a
    <3>1. size - a = IF a + 1 <= size THEN size - (a + 1) + 1 ELSE 0
      BY <1>1
    <3> QED
      BY <2>1, <2>2, <3>1
  <2>4. ASSUME NEW k \in 1..size - a PROVE high[k] = r.buf[a + k]
    <3>1. k \in 1..size - (a + 1) + 1 /\ a + 1 + k - 1 = a + k
      BY <1>1
    <3> QED
      BY <2>1, <2>2, <3>1
  <2> QED
    BY <2>3, <2>4
<1>4. Insert(r, v, index) = [buf |-> whole, rpos |-> r.rpos, wpos |-> index + Len(v)]
  <2>1. Insert(r, v, index) = [r EXCEPT !.buf = whole, !.wpos = index + Len(v)]
    <3>1. ~(index + Len(v) > Size(r))
      BY <1>0
    <3> QED
      BY <3>1, Zenon DEF Insert
  <2> HIDE DEF whole
  <2> QED
    BY <1>0, <2>1
<1> HIDE DEF low, high
<1>5. low \in Seq(Byte) /\ high \in Seq(Byte)
  BY <1>2, <1>3
<1>6. /\ Len(whole) = size
      /\ \A k \in 1..size :
           whole[k] = IF k <= index THEN low[k] ELSE IF k <= a THEN v[k - index] ELSE high[k - a]
  <2>1. /\ whole \in Seq(Byte) /\ Len(whole) = Len(low) + Len(v) + Len(high)
        /\ \A k \in 1..Len(whole) :
             whole[k] = IF k <= Len(low) THEN low[k]
                        ELSE IF k <= Len(low) + Len(v) THEN v[k - Len(low)]
                        ELSE high[k - Len(low) - Len(v)]
    <3>1. PICK lv \in Seq(Byte) :
            /\ lv = low \o v /\ Len(lv) = Len(low) + Len(v)
            /\ \A k \in 1..Len(low) + Len(v) : lv[k] = IF k <= Len(low) THEN low[k] ELSE v[k - Len(low)]
      BY <1>5, TwoIndex
    <3>2. /\ lv \o high \in Seq(Byte) /\ Len(lv \o high) = Len(lv) + Len(high)
          /\ \A k \in 1..Len(lv) + Len(high) :
               (lv \o high)[k] = IF k <= Len(lv) THEN lv[k] ELSE high[k - Len(lv)]
      BY <1>5, TwoIndex
    <3>3. whole = lv \o high
      BY <3>1
    <3>4. Len(low) \in Nat /\ Len(v) \in Nat /\ Len(high) \in Nat
      BY <1>5
    <3> HIDE DEF whole
    <3>5. Len(whole) = Len(low) + Len(v) + Len(high) /\ whole \in Seq(Byte)
      BY <3>1, <3>2, <3>3
    <3>6. ASSUME NEW k \in 1..Len(whole)
          PROVE  whole[k] = IF k <= Len(low) THEN low[k]
                        ELSE IF k <= Len(low) + Len(v) THEN v[k - Len(low)]
                        ELSE high[k - Len(low) - Len(v)]
      <4>1. whole[k] = IF k <= Len(lv) THEN lv[k] ELSE high[k - Len(lv)]
        BY <3>2, <3>3
      <4>2. CASE k <= Len(lv)
        <5>1. k \in 1..Len(low) + Len(v)
          BY <3>1, <3>4, <4>2
        <5> QED
          BY <3>1, <3>4, <4>1, <4>2, <5>1
      <4>3. CASE k > Len(lv)
        <5>1. k - Len(lv) = k - Len(low) - Len(v)
          BY <3>1, <3>4
        <5> QED
          BY <3>1, <3>4, <4>1, <4>3, <5>1
      <4> QED
        BY <3>1, <3>4, <4>2, <4>3
    <3> QED
      BY <3>5, <3>6
  <2>2. Len(low) + Len(v) = a /\ Len(low) + Len(v) + Len(high) = size
    BY <1>0, <1>1, <1>2, <1>3, SMTT(30)
  <2> HIDE DEF whole
  <2>3. ASSUME NEW k \in 1..size
        PROVE  whole[k] = IF k <= index THEN low[k] ELSE IF k <= a THEN v[k - index] ELSE high[k - a]
    <3>1. k - Len(low) - Len(v) = k - a
      BY <1>0, <1>1, <1>2
    <3> QED
      BY <1>2, <2>1, <2>2, <3>1
  <2> QED
    BY <2>1, <2>2, <2>3
<1> HIDE DEF whole
<1>7. ASSUME NEW k \in 1..size
      PROVE  whole[k] = IF k > index /\ k <= a THEN v[k - index] ELSE r.buf[k]
  <2>1. CASE k <= index
    BY <1>2, <1>6, <2>1
  <2>2. CASE k > index /\ k <= a
    BY <1>6, <2>2
  <2>3. CASE k > a
    <3>1. k - a \in 1..size - a /\ a + (k - a) = k /\ ~(k <= index)
      BY <1>0, <1>1, <2>3, SMTT(30)
    <3>2. whole[k] = high[k - a] /\ high[k - a] = r.buf[a + (k - a)]
      BY <1>3, <1>6, <2>3, <3>1
    <3> QED
      BY <2>3, <3>1, <3>2
  <2> QED
    BY <1>1, <2>1, <2>2, <2>3
<1>8. GetAt(Insert(r, v, index), i) = IF i < size THEN whole[i + 1] ELSE Zero
  BY <1>4, <1>6 DEF GetAt, Size
<1>9. GetAt(r, i) = IF i < size THEN r.buf[i + 1] ELSE Zero
  BY <1>1 DEF GetAt
<1>10. i >= index /\ i < a => i < size /\ i + 1 > index /\ i + 1 <= a /\ i - index + 1 = (i + 1) - index
  BY <1>1
<1>11. i < size => i + 1 \in 1..size
  OBVIOUS
<1>12. GetAt(Insert(r, v, index), i) =
         IF i >= index /\ i < a THEN v[i - index + 1] ELSE GetAt(r, i)
  BY <1>1, <1>7, <1>8, <1>9, <1>10, <1>11
<1> QED
  BY <1>1, <1>4, <1>12
----------------------------------------------------------------------------
(* What find() reports and replace() changes *)

\* The indices whose bytes replace() changes.
Changed(r, key, start, firstOnly) ==
  IF firstOnly /\ Hits(r, key, start) # {} THEN {Min(Hits(r, key, start))}
  ELSE Hits(r, key, start)

\* The buffer after replace().
LEMMA ReplaceForm ==
  ASSUME NEW r \in Buffer, NEW key \in Byte, NEW rep \in Byte, NEW start \in Nat,
         NEW firstOnly \in BOOLEAN
  PROVE  /\ Replace(r, key, rep, start, firstOnly).buf
              = [i \in DOMAIN r.buf |->
                   IF i - 1 \in Changed(r, key, start, firstOnly) THEN rep ELSE r.buf[i]]
         /\ Size(Replace(r, key, rep, start, firstOnly)) = Size(r)
<1> DEFINE hits == Hits(r, key, start)
           changed == IF firstOnly /\ hits # {} THEN {Min(hits)} ELSE hits
           whole == [i \in DOMAIN r.buf |-> IF i - 1 \in changed THEN rep ELSE r.buf[i]]
<1>0. /\ r.buf \in Seq(Byte) /\ r.rpos \in Nat /\ r.wpos \in Nat
      /\ r = [buf |-> r.buf, rpos |-> r.rpos, wpos |-> r.wpos]
  BY DEF Buffer
<1>1. Replace(r, key, rep, start, firstOnly)
        = [buf |-> whole, rpos |-> r.rpos, wpos |-> r.wpos]
  BY <1>0 DEF Replace
<1>2. changed = Changed(r, key, start, firstOnly)
  BY DEF Changed
<1> HIDE DEF whole
<1>3. Replace(r, key, rep, start, firstOnly).buf = whole
  BY <1>1
<1>4. Size(Replace(r, key, rep, start, firstOnly)) = Size(r)
  BY ReplaceSize
<1> QED
  BY <1>2, <1>3, <1>4 DEF whole

\* The byte at an index after replace().
LEMMA ReplaceBytesAt ==
  ASSUME NEW r \in Buffer, NEW key \in Byte, NEW rep \in Byte, NEW start \in Nat,
         NEW firstOnly \in BOOLEAN, NEW n \in Nat
  PROVE  GetAt(Replace(r, key, rep, start, firstOnly), n) =
           IF n < Size(r) /\ n \in Changed(r, key, start, firstOnly) THEN rep ELSE GetAt(r, n)
<1> DEFINE changed == Changed(r, key, start, firstOnly)
           after == Replace(r, key, rep, start, firstOnly)
<1> HIDE DEF changed, after
<1>1. DOMAIN r.buf = 1..Size(r) /\ Size(r) \in Nat
  BY DEF Buffer, Size
<1>2. /\ after.buf = [i \in DOMAIN r.buf |-> IF i - 1 \in changed THEN rep ELSE r.buf[i]]
      /\ Size(after) = Size(r)
  BY ReplaceForm DEF changed, after
<1>3. CASE n < Size(r)
  <2>1. n + 1 \in DOMAIN r.buf /\ (n + 1) - 1 = n
    BY <1>1, <1>3
  <2>2. after.buf[n + 1] = IF n \in changed THEN rep ELSE r.buf[n + 1]
    BY <1>2, <2>1
  <2> QED
    BY <1>2, <1>3, <2>2 DEF GetAt, changed, after
<1>4. CASE ~(n < Size(r))
  BY <1>2, <1>4 DEF GetAt, changed, after
<1> QED
  BY <1>3, <1>4

\* The indices at which find() stops: keys and zeros at or after start.
Stops(r, key, start) == {i \in start..Size(r) - 1 : GetAt(r, i) \in {key, Zero}}

\* find() reports a key that no zero precedes, or -1 when there is none.
LEMMA FindIs ==
  ASSUME NEW r \in Buffer, NEW key \in Byte, NEW start \in Nat
  PROVE  \/ /\ Find(r, key, start) = -1
            /\ Hits(r, key, start) = {}
         \/ /\ Find(r, key, start) \in start..Size(r) - 1
            /\ Hits(r, key, start) # {}
            /\ Find(r, key, start) = Min(Hits(r, key, start))
<1> DEFINE stops == Stops(r, key, start)
           hits == Hits(r, key, start)
<1>0. Size(r) \in Nat /\ stops \subseteq Nat /\ hits \subseteq Nat
  BY DEF Stops, Hits, Buffer, Size
<1>1. Find(r, key, start) = IF stops = {} \/ GetAt(r, Min(stops)) # key THEN -1 ELSE Min(stops)
  BY Zenon DEF Find, Stops
<1>2. \A i \in start..Size(r) - 1 : GetAt(r, i) = r.buf[i + 1]
  BY <1>0 DEF GetAt
<1>3. hits \subseteq stops
  BY <1>2 DEF Stops, Hits
<1>4. CASE stops = {}
  BY <1>1, <1>3, <1>4
<1>5. CASE stops # {}
  <2>1. PICK m \in stops : m = Min(stops) /\ \A n \in stops : m <= n
    BY <1>0, <1>5, MinOf
  <2>2. m \in start..Size(r) - 1 /\ m \in Nat /\ GetAt(r, m) = r.buf[m + 1]
    BY <1>0, <1>2, <2>1 DEF Stops
  <2>3. CASE r.buf[m + 1] = key
    <3>1. Find(r, key, start) = m
      BY <1>1, <1>5, <2>1, <2>2, <2>3
    <3>2. m \in hits
      <4> SUFFICES ASSUME key # Zero, NEW j \in start..m, r.buf[j + 1] = Zero PROVE FALSE
        BY <2>2, <2>3 DEF Hits
      <4>1. j \in start..Size(r) - 1 /\ j <= m
        BY <1>0, <2>2
      <4>2. j \in stops
        BY <1>2, <4>1 DEF Stops
      <4>3. j = m
        BY <2>1, <2>2, <4>1, <4>2
      <4> QED
        BY <2>3, <4>3
    <3>3. m = Min(hits)
      <4>1. hits # {}
        BY <3>2
      <4>2. PICK h \in hits : h = Min(hits) /\ \A n \in hits : h <= n
        BY <1>0, <4>1, MinOf
      <4>3. h <= m /\ m <= h /\ h \in Nat
        BY <1>0, <1>3, <2>1, <3>2, <4>2
      <4> QED
        BY <2>2, <4>2, <4>3
    <3> QED
      BY <2>2, <3>1, <3>2, <3>3
  <2>4. CASE r.buf[m + 1] # key
    <3>1. Find(r, key, start) = -1
      BY <1>1, <2>1, <2>2, <2>4
    <3>2. ASSUME NEW h \in hits PROVE FALSE
      <4>1. h \in start..Size(r) - 1 /\ r.buf[h + 1] = key
            /\ (key # Zero => \A j \in start..h : r.buf[j + 1] # Zero)
        BY DEF Hits
      <4>2. m <= h /\ m \in start..h
        BY <1>0, <1>3, <2>1, <2>2, <4>1
      <4>3. r.buf[m + 1] = Zero
        BY <2>1, <2>2, <2>4 DEF Stops
      <4> QED
        BY <2>4, <4>1, <4>2, <4>3
    <3> QED
      BY <3>1, <3>2
  <2> QED
    BY <2>3, <2>4
<1> QED
  BY <1>4, <1>5

\* replace() of all keys leaves none before a zero.
LEMMA ReplacedAll ==
  ASSUME NEW r \in Buffer, NEW key \in Byte, NEW rep \in Byte \ {key}, NEW start \in Nat
  PROVE  Hits(Replace(r, key, rep, start, FALSE), key, start) = {}
<1> DEFINE after == Replace(r, key, rep, start, FALSE)
           hits == Hits(r, key, start)
<1>1. /\ after.buf = [i \in DOMAIN r.buf |-> IF i - 1 \in hits THEN rep ELSE r.buf[i]]
      /\ Size(after) = Size(r)
  <2>1. Changed(r, key, start, FALSE) = hits
    BY DEF Changed
  <2>2. /\ after.buf = [i \in DOMAIN r.buf |->
                           IF i - 1 \in Changed(r, key, start, FALSE) THEN rep ELSE r.buf[i]]
        /\ Size(after) = Size(r)
    <3>1. rep \in Byte /\ FALSE \in BOOLEAN
      OBVIOUS
    <3> QED
      BY <3>1, ReplaceForm, Zenon
  <2> HIDE DEF after, hits
  <2> QED
    BY <2>1, <2>2
<1>2. DOMAIN r.buf = 1..Size(r) /\ Size(r) \in Nat
  BY DEF Buffer, Size
<1> SUFFICES ASSUME NEW h \in Hits(after, key, start) PROVE FALSE
  OBVIOUS
<1> HIDE DEF after, hits
<1>3. /\ h \in start..Size(r) - 1 /\ after.buf[h + 1] = key
      /\ key # Zero => \A j \in start..h : after.buf[j + 1] # Zero
  BY <1>1 DEF Hits, after
<1>4. \A j \in start..h : j + 1 \in 1..Size(r) /\ j \in Nat /\ (j + 1) - 1 = j
  BY <1>2, <1>3
<1>5. \A j \in start..h : after.buf[j + 1] = IF j \in hits THEN rep ELSE r.buf[j + 1]
  BY <1>1, <1>2, <1>4
<1>6. h \in start..h /\ h \notin hits /\ r.buf[h + 1] = key
  BY <1>3, <1>5
<1>7. PICK j \in start..h : key # Zero /\ r.buf[j + 1] = Zero
  BY <1>3, <1>6 DEF Hits, hits
<1>8. j \notin hits
  BY <1>7 DEF Hits, hits
<1> QED
  BY <1>3, <1>5, <1>7, <1>8
=============================================================================
