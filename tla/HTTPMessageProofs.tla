------------------------- MODULE HTTPMessageProofs -------------------------
(***************************************************************************)
(* Theorems about a message and its parser: the types, the read position,  *)
(* the end of the headers, and that parse() undoes create().               *)
(***************************************************************************)
EXTENDS HTTPMessage, ByteBufferProofs
LOCAL INSTANCE FiniteSetsExt
----------------------------------------------------------------------------
(* What create() makes *)

\* The bytes of a line's end are bytes.
LEMMA MessageBytes ==
  /\ CR \in Byte /\ LF \in Byte /\ SP \in Byte /\ Colon \in Byte /\ Comma \in Byte /\ Zero \in Byte
  /\ <<CR, LF>> \in Text /\ <<SP>> \in Text /\ <<Colon, SP>> \in Text /\ <<>> \in Text
  /\ Len(<<CR, LF>>) = 2 /\ Len(<<SP>>) = 1 /\ Len(<<Colon, SP>>) = 2 /\ Len(<<>>) = 0
<1>1. /\ CR \in Byte /\ LF \in Byte /\ SP \in Byte /\ Colon \in Byte /\ Comma \in Byte
      /\ Zero \in Byte
  BY HTTPMessageAssumption, ByteBufferAssumption
<1> HIDE DEF CR, LF, SP, Colon, Comma
<1>2. /\ <<CR, LF>> \in Text /\ <<SP>> \in Text /\ <<Colon, SP>> \in Text /\ <<>> \in Text
  BY <1>1 DEF Text
<1> QED
  BY <1>1, <1>2

\* A header has a key and a value, and its line is a text.
LEMMA HeaderText ==
  ASSUME NEW f \in Field
  PROVE  f[1] \in Text /\ f[2] \in Text /\ HeaderLine(f) \in Text
<1>1. f[1] \in Text /\ f[2] \in Text
  BY DEF Field
<1>2. f[1] \o <<Colon, SP>> \o f[2] \in Text
  BY <1>1, MessageBytes DEF Text
<1> QED
  BY <1>1, <1>2 DEF HeaderLine

\* One line after the other.
LinesOf(fs, lines) ==
  /\ lines[0] = <<>>
  /\ \A i \in 1..Len(fs) : lines[i] = lines[i - 1] \o HeaderLine(fs[i]) \o <<CR, LF>>
  /\ \A i \in 0..Len(fs) : lines[i] \in Text

\* putHeaders() writes these lines and a blank one.
LEMMA HeaderLinesAre ==
  ASSUME NEW fs \in Seq(Field)
  PROVE  LinesOf(fs, HeaderLinesOf(fs))
<1> DEFINE upto(k, h) == h = [i \in 0..k |-> IF i = 0 THEN <<>>
                                             ELSE h[i - 1] \o HeaderLine(fs[i]) \o <<CR, LF>>]
           Some(k) == \E h : upto(k, h)
           Built == {k \in Nat : k <= Len(fs) => Some(k)}
<1>1. Len(fs) \in Nat
  OBVIOUS
<1>0. Some(0)
  <2> DEFINE g == [i \in 0..0 |-> <<>>]
  <2>1. \A i \in 0..0 : i = 0
    OBVIOUS
  <2>2. upto(0, g)
    BY <2>1, Zenon
  <2> QED
    BY <2>2
<1>2. ASSUME NEW k \in Nat, Some(k), k + 1 <= Len(fs) PROVE Some(k + 1)
  <2>1. PICK h : upto(k, h)
    BY <1>2
  <2> DEFINE g == [i \in 0..k + 1 |-> IF i = k + 1 THEN h[k] \o HeaderLine(fs[i]) \o <<CR, LF>>
                                      ELSE h[i]]
  <2>2. ASSUME NEW i \in 0..k + 1
        PROVE  g[i] = IF i = 0 THEN <<>> ELSE g[i - 1] \o HeaderLine(fs[i]) \o <<CR, LF>>
    <3>1. CASE i = k + 1
      <4>1. i # 0 /\ i - 1 = k /\ k # k + 1 /\ k \in 0..k + 1
        BY <3>1
      <4>2. g[i] = h[k] \o HeaderLine(fs[i]) \o <<CR, LF>> /\ g[i - 1] = h[k]
        BY <3>1, <4>1
      <4> QED
        BY <4>1, <4>2
    <3>2. CASE i # k + 1
      <4>1. i \in 0..k
        BY <3>2
      <4>2. h[i] = IF i = 0 THEN <<>> ELSE h[i - 1] \o HeaderLine(fs[i]) \o <<CR, LF>>
        BY <2>1, <4>1
      <4>3. g[i] = h[i]
        BY <3>2
      <4>4. i # 0 => g[i - 1] = h[i - 1]
        <5>1. i # 0 => i - 1 \in 0..k + 1 /\ i - 1 # k + 1
          BY <4>1
        <5> QED
          BY <5>1
      <4> HIDE DEF g
      <4> QED
        BY <4>2, <4>3, <4>4
    <3> QED
      BY <3>1, <3>2
  <2>3. g = [i \in 0..k + 1 |-> g[i]]
    OBVIOUS
  <2> HIDE DEF g
  <2>4. upto(k + 1, g)
    BY <2>2, <2>3, Zenon
  <2> QED
    BY <2>4
<1>3. Some(Len(fs))
  <2> HIDE DEF Some
  <2>1. 0 \in Built
    BY <1>0
  <2>2. ASSUME NEW k \in Nat, k \in Built PROVE k + 1 \in Built
    BY <1>1, <1>2, <2>2
  <2> HIDE DEF Built
  <2>3. \A k \in Nat : k \in Built
    BY <2>1, <2>2, InductionOverSet
  <2> QED
    BY <1>1, <2>3 DEF Built
<1> DEFINE lines == CHOOSE lines : lines = [i \in 0..Len(fs) |->
                      IF i = 0 THEN <<>> ELSE lines[i - 1] \o HeaderLine(fs[i]) \o <<CR, LF>>]
<1>4. upto(Len(fs), lines)
  BY <1>3, Zenon
<1>5. HeaderLinesOf(fs) = lines
  BY DEF HeaderLinesOf
<1> HIDE DEF lines
<1>6. /\ lines[0] = <<>>
      /\ \A i \in 1..Len(fs) : lines[i] = lines[i - 1] \o HeaderLine(fs[i]) \o <<CR, LF>>
  <2>1. 0 \in 0..Len(fs) /\ \A i \in 1..Len(fs) : i \in 0..Len(fs) /\ i # 0
    BY <1>1
  <2>2. lines[0] = <<>>
    BY <1>4, <2>1
  <2>3. ASSUME NEW i \in 1..Len(fs)
        PROVE  lines[i] = lines[i - 1] \o HeaderLine(fs[i]) \o <<CR, LF>>
    BY <1>4, <2>1
  <2> QED
    BY <2>2, <2>3
<1>7. \A i \in 0..Len(fs) : lines[i] \in Text
  <2> DEFINE Texts == {k \in Nat : k <= Len(fs) => lines[k] \in Text}
  <2>1. 0 \in Texts
    BY <1>6, MessageBytes
  <2>2. ASSUME NEW k \in Nat, k \in Texts PROVE k + 1 \in Texts
    <3> SUFFICES ASSUME k + 1 <= Len(fs) PROVE lines[k + 1] \in Text
      OBVIOUS
    <3>1. k + 1 \in 1..Len(fs) /\ (k + 1) - 1 = k /\ lines[k] \in Text
      BY <1>1, <2>2
    <3>2. HeaderLine(fs[k + 1]) \in Text
      BY <3>1, HeaderText
    <3>3. lines[k] \o HeaderLine(fs[k + 1]) \o <<CR, LF>> \in Text
      BY <3>1, <3>2, MessageBytes DEF Text
    <3> QED
      BY <1>6, <3>1, <3>3
  <2> HIDE DEF Texts
  <2>3. \A k \in Nat : k \in Texts
    BY <2>1, <2>2, InductionOverSet
  <2> QED
    BY <1>1, <2>3 DEF Texts
<1> QED
  BY <1>5, <1>6, <1>7 DEF LinesOf
----------------------------------------------------------------------------
(* What the helpers of parse() read *)

\* A buffer at another read position.
LEMMA AtPosition ==
  ASSUME NEW r \in Buffer, NEW n \in Nat
  PROVE  /\ SetReadPos(r, n) \in Buffer
         /\ SetReadPos(r, n).buf = r.buf /\ SetReadPos(r, n).rpos = n
         /\ Size(SetReadPos(r, n)) = Size(r)
BY DEF SetReadPos, Buffer, Size

\* getLine() is at the end of the line that index e is in, and past it.
EndsAt(r, e) ==
  /\ e \in r.rpos + 1..Size(r)
  /\ r.buf[e] \in Eol
  /\ \A i \in r.rpos + 1..e - 1 : r.buf[i] \notin Eol

\* getLine() returns the bytes up to the first end of line, or nothing if there
\* is none.
LEMMA GetLineIs ==
  ASSUME NEW r \in Buffer
  PROVE  \/ /\ \A i \in r.rpos + 1..Size(r) : r.buf[i] \notin Eol
            /\ GetLine(r).text = <<>> /\ GetLine(r).rest = r
         \/ \E e \in Nat :
              /\ EndsAt(r, e)
              /\ GetLine(r).text = SubSeq(r.buf, r.rpos + 1, e - 1)
              /\ GetLine(r).rest = SetReadPos(r, PastEol(r, e))
<1> DEFINE ends == {i \in r.rpos + 1..Size(r) : r.buf[i] \in Eol}
<1>1. Size(r) \in Nat /\ r.rpos \in Nat /\ ends \subseteq Nat
  BY BufferNumbers
<1>2. CASE ends = {}
  <2>1. GetLine(r) = [text |-> <<>>, rest |-> r]
    BY <1>2 DEF GetLine, Unterminated
  <2> QED
    BY <1>2, <2>1
<1>3. CASE ends # {}
  <2>1. PICK e \in ends : e = Min(ends) /\ \A n \in ends : e <= n
    BY <1>1, <1>3, MinOf
  <2>2. EndsAt(r, e)
    <3>1. e \in r.rpos + 1..Size(r) /\ r.buf[e] \in Eol
      OBVIOUS
    <3>2. ASSUME NEW i \in r.rpos + 1..e - 1, r.buf[i] \in Eol PROVE FALSE
      <4>1. i \in r.rpos + 1..Size(r) /\ i < e /\ i \in Int /\ e \in Int
        BY <1>1, <3>1
      <4>2. i \in ends
        BY <3>2, <4>1
      <4>3. e <= i
        BY <2>1, <4>2
      <4> QED
        BY <4>1, <4>3
    <3> QED
      BY <3>1, <3>2 DEF EndsAt
  <2>3. GetLine(r) = [text |-> SubSeq(r.buf, r.rpos + 1, Min(ends) - 1),
                      rest |-> SetReadPos(r, PastEol(r, Min(ends)))]
    BY <1>3 DEF GetLine
  <2> HIDE DEF ends
  <2>4. PICK t, b : t = SubSeq(r.buf, r.rpos + 1, e - 1) /\ b = SetReadPos(r, PastEol(r, e))
    OBVIOUS
  <2>5. GetLine(r) = [text |-> t, rest |-> b]
    BY <2>1, <2>3, <2>4, Zenon
  <2>6. GetLine(r).text = t /\ GetLine(r).rest = b /\ e \in Nat
    BY <1>1, <2>1, <2>5
  <2> QED
    BY <2>2, <2>4, <2>6, Zenon
<1> QED
  BY <1>2, <1>3

\* There is one first end of line.
LEMMA OneEnd ==
  ASSUME NEW r \in Buffer, NEW d \in Nat, NEW e \in Nat, EndsAt(r, d), EndsAt(r, e)
  PROVE  d = e
<1>1. Size(r) \in Nat /\ r.rpos \in Nat
  BY BufferNumbers
<1>2. ~(d < e)
  BY <1>1 DEF EndsAt
<1>3. ~(e < d)
  BY <1>1 DEF EndsAt
<1> QED
  BY <1>2, <1>3

\* The read position past an end of line is in the buffer.
LEMMA PastEolIn ==
  ASSUME NEW r \in Buffer, NEW e \in Nat, e <= Size(r)
  PROVE  PastEol(r, e) \in Nat /\ PastEol(r, e) <= Size(r) /\ PastEol(r, e) >= e
BY BufferNumbers DEF PastEol

\* getLine() returns a text and stays in the buffer.
LEMMA GetLineType ==
  ASSUME NEW r \in Buffer, r.rpos <= Size(r)
  PROVE  /\ GetLine(r).text \in Text
         /\ GetLine(r).rest \in Buffer
         /\ GetLine(r).rest.buf = r.buf
         /\ GetLine(r).rest.rpos <= Size(GetLine(r).rest)
<1>1. r.rpos \in Nat /\ Size(r) \in Nat /\ r.buf \in Seq(Byte) /\ Size(r) = Len(r.buf)
  BY BufferNumbers DEF Buffer, Size
<1>2. CASE GetLine(r).text = <<>> /\ GetLine(r).rest = r
  BY <1>2, MessageBytes
<1>3. ASSUME NEW e \in Nat, EndsAt(r, e),
             GetLine(r).text = SubSeq(r.buf, r.rpos + 1, e - 1),
             GetLine(r).rest = SetReadPos(r, PastEol(r, e))
      PROVE  /\ GetLine(r).text \in Text
             /\ GetLine(r).rest \in Buffer
             /\ GetLine(r).rest.buf = r.buf
             /\ GetLine(r).rest.rpos <= Size(GetLine(r).rest)
  <2>1. e <= Size(r) /\ e - 1 \in Nat /\ e - 1 <= Len(r.buf) /\ r.rpos + 1 \in Nat \ {0}
    BY <1>1, <1>3 DEF EndsAt
  <2>2. SubSeq(r.buf, r.rpos + 1, e - 1) \in Text
    BY <1>1, <2>1, PieceOf DEF Text
  <2>3. PastEol(r, e) \in Nat /\ PastEol(r, e) <= Size(r)
    BY <2>1, PastEolIn
  <2>4. /\ SetReadPos(r, PastEol(r, e)) \in Buffer
        /\ SetReadPos(r, PastEol(r, e)).buf = r.buf
        /\ SetReadPos(r, PastEol(r, e)).rpos = PastEol(r, e)
        /\ Size(SetReadPos(r, PastEol(r, e))) = Size(r)
    BY <2>3, AtPosition
  <2> QED
    BY <1>3, <2>2, <2>3, <2>4
<1> QED
  BY <1>2, <1>3, GetLineIs

\* getStrElement() returns the bytes up to the space that find() reports, which
\* is left behind, or nothing.
LEMMA ElementIs ==
  ASSUME NEW r \in Buffer
  PROVE  \/ /\ Hits(r, SP, r.rpos) = {}
            /\ GetStrElement(r).text = <<>> /\ GetStrElement(r).rest = r
         \/ \E e \in r.rpos..Size(r) - 1 :
              /\ Hits(r, SP, r.rpos) # {} /\ e = Min(Hits(r, SP, r.rpos))
              /\ GetStrElement(r).text = SubSeq(r.buf, r.rpos + 1, e)
              /\ GetStrElement(r).rest = SetReadPos(r, e + 1)
<1>1. Size(r) \in Nat /\ r.rpos \in Nat /\ SP \in Byte
  BY BufferNumbers, MessageBytes
<1>2. PICK e : e = Find(r, SP, r.rpos)
  OBVIOUS
<1>3. GetStrElement(r) = IF e = -1 THEN [text |-> <<>>, rest |-> r]
                         ELSE [text |-> GetBytes(r, e - r.rpos), rest |-> SetReadPos(r, e + 1)]
  BY <1>2 DEF GetStrElement
<1>4. \/ e = -1 /\ Hits(r, SP, r.rpos) = {}
      \/ /\ e \in r.rpos..Size(r) - 1
         /\ Hits(r, SP, r.rpos) # {} /\ e = Min(Hits(r, SP, r.rpos))
  BY <1>1, <1>2, FindIs
<1>5. CASE e \in r.rpos..Size(r) - 1 /\ e # -1
           /\ Hits(r, SP, r.rpos) # {} /\ e = Min(Hits(r, SP, r.rpos))
  <2>1. e - r.rpos \in Nat /\ r.rpos + (e - r.rpos) <= Size(r) /\ r.rpos + (e - r.rpos) = e
    BY <1>1, <1>5
  <2>2. GetBytes(r, e - r.rpos) = SubSeq(r.buf, r.rpos + 1, r.rpos + (e - r.rpos))
    BY <2>1, SameBytes
  <2>3. PICK t, b : t = SubSeq(r.buf, r.rpos + 1, e) /\ b = SetReadPos(r, e + 1)
    OBVIOUS
  <2>4. GetStrElement(r) = [text |-> t, rest |-> b]
    BY <1>3, <1>5, <2>1, <2>2, <2>3
  <2>5. GetStrElement(r).text = t /\ GetStrElement(r).rest = b
    BY <2>4
  <2> QED
    BY <1>5, <2>3, <2>5
<1>6. CASE e = -1 /\ Hits(r, SP, r.rpos) = {}
  BY <1>3, <1>6
<1>7. e \in r.rpos..Size(r) - 1 => e # -1
  BY <1>1
<1> QED
  BY <1>4, <1>5, <1>6, <1>7

\* getStrElement() returns a text and stays in the buffer.
LEMMA ElementType ==
  ASSUME NEW r \in Buffer, r.rpos <= Size(r)
  PROVE  /\ GetStrElement(r).text \in Text
         /\ GetStrElement(r).rest \in Buffer
         /\ GetStrElement(r).rest.buf = r.buf
         /\ GetStrElement(r).rest.rpos <= Size(GetStrElement(r).rest)
<1>1. r.rpos \in Nat /\ Size(r) \in Nat /\ r.buf \in Seq(Byte) /\ Size(r) = Len(r.buf)
  BY BufferNumbers DEF Buffer, Size
<1>2. CASE GetStrElement(r).text = <<>> /\ GetStrElement(r).rest = r
  BY <1>2, MessageBytes
<1>3. ASSUME NEW e \in r.rpos..Size(r) - 1,
             GetStrElement(r).text = SubSeq(r.buf, r.rpos + 1, e),
             GetStrElement(r).rest = SetReadPos(r, e + 1)
      PROVE  /\ GetStrElement(r).text \in Text
             /\ GetStrElement(r).rest \in Buffer
             /\ GetStrElement(r).rest.buf = r.buf
             /\ GetStrElement(r).rest.rpos <= Size(GetStrElement(r).rest)
  <2>1. e \in Nat /\ e <= Len(r.buf) /\ e + 1 \in Nat /\ e + 1 <= Size(r) /\ r.rpos + 1 \in Nat \ {0}
    BY <1>1
  <2>2. SubSeq(r.buf, r.rpos + 1, e) \in Text
    BY <1>1, <2>1, PieceOf DEF Text
  <2>3. /\ SetReadPos(r, e + 1) \in Buffer /\ SetReadPos(r, e + 1).buf = r.buf
        /\ SetReadPos(r, e + 1).rpos = e + 1 /\ Size(SetReadPos(r, e + 1)) = Size(r)
    BY <2>1, AtPosition
  <2> QED
    BY <1>3, <2>1, <2>2, <2>3
<1> QED
  BY <1>2, <1>3, ElementIs
----------------------------------------------------------------------------
(* The types and the read position *)

\* The types, and the read position in the buffer.
Parsing == TypeOK /\ PositionInBuffer

\* A write at the end appends, and the write position is at the end again.
LEMMA PutAtEnd ==
  ASSUME NEW r \in Buffer, NEW s \in Text, r.wpos = Size(r)
  PROVE  /\ PutBytes(r, s) \in Buffer
         /\ PutBytes(r, s).buf = r.buf \o s
         /\ PutBytes(r, s).wpos = Size(PutBytes(r, s))
         /\ PutBytes(r, s).rpos = r.rpos
<1>1. r.buf \in Seq(Byte) /\ Size(r) = Len(r.buf) /\ s \in Seq(Byte)
  BY DEF Buffer, Size, Text
<1>2. PutBytes(r, s).buf = r.buf \o s
  BY <1>1, PutAppends
<1>3. PutBytes(r, s) \in Buffer /\ PutBytes(r, s).rpos = r.rpos
      /\ PutBytes(r, s).wpos = r.wpos + Len(s)
  BY <1>1, PutBytesSize
<1>4. Len(r.buf \o s) = Len(r.buf) + Len(s)
  BY <1>1
<1> QED
  BY <1>1, <1>2, <1>3, <1>4 DEF Size

\* The start line of a message, and all its bytes.
StartLine(o) == o.first \o <<SP>> \o o.second \o <<SP>> \o o.third
AllOf(o) == StartLine(o) \o <<CR, LF>> \o HeaderBlock(o.headers) \o o.data

\* Two texts in a row are a text.
LEMMA TwoTexts ==
  ASSUME NEW s \in Text, NEW t \in Text
  PROVE  s \o t \in Text /\ Len(s \o t) = Len(s) + Len(t) /\ Len(s) \in Nat /\ Len(t) \in Nat
BY DEF Text

\* The parts of a message are texts.
LEMMA MessageTexts ==
  ASSUME NEW o \in Message
  PROVE  /\ o.first \in Text /\ o.second \in Text /\ o.third \in Text /\ o.data \in Text
         /\ o.headers \in Seq(Field) /\ o.kind \in Kind
         /\ StartLine(o) \in Text /\ HeaderBlock(o.headers) \in Text
         /\ AllOf(o) \in Text
<1>1. /\ o.first \in Text /\ o.second \in Text /\ o.third \in Text /\ o.data \in Text
      /\ o.headers \in Seq(Field) /\ o.kind \in Kind
  BY DEF Message
<1>2. StartLine(o) \in Text
  BY <1>1, MessageBytes, TwoTexts DEF StartLine
<1>3. HeaderBlock(o.headers) \in Text
  <2>1. LinesOf(o.headers, HeaderLinesOf(o.headers))
    BY <1>1, HeaderLinesAre
  <2>2. Len(o.headers) \in 0..Len(o.headers)
    BY <1>1
  <2>3. HeaderLinesOf(o.headers)[Len(o.headers)] \in Text
    BY <2>1, <2>2 DEF LinesOf
  <2> QED
    BY <2>3, MessageBytes, TwoTexts DEF HeaderBlock
<1>4. AllOf(o) \in Text
  BY <1>1, <1>2, <1>3, MessageBytes, TwoTexts DEF AllOf
<1> QED
  BY <1>1, <1>2, <1>3, <1>4

\* create() returns the start line, the headers and the body, one after the other.
LEMMA CreatedBytes ==
  ASSUME NEW o \in Message
  PROVE  CreateRetData(o) = AllOf(o)
<1> DEFINE line == StartLine(o) \o <<CR, LF>>
           one == PutBytes(Empty, line)
           two == PutBytes(one, HeaderBlock(o.headers))
           three == PutBytes(two, o.data)
<1>1. line \in Text /\ HeaderBlock(o.headers) \in Text /\ o.data \in Text
  BY MessageTexts, MessageBytes, TwoTexts
<1>2. Created(o) = three
  BY DEF Created, PutLine, StartLine
<1> HIDE DEF line
<1>3. Empty \in Buffer /\ Empty.wpos = Size(Empty) /\ Empty.buf = <<>> /\ Empty.rpos = 0
  BY DEF Empty, Buffer, Size
<1>4. one \in Buffer /\ one.buf = line /\ one.wpos = Size(one) /\ one.rpos = 0
  <2>1. <<>> \o line = line
    BY <1>1, ConcatEmptySeq DEF Text
  <2> QED
    BY <1>1, <1>3, <2>1, PutAtEnd
<1> HIDE DEF one
<1>5. two \in Buffer /\ two.buf = line \o HeaderBlock(o.headers) /\ two.wpos = Size(two)
      /\ two.rpos = 0
  BY <1>1, <1>4, PutAtEnd
<1> HIDE DEF two
<1>6. three \in Buffer /\ three.buf = line \o HeaderBlock(o.headers) \o o.data /\ three.rpos = 0
  <2>1. PutBytes(two, o.data) \in Buffer /\ PutBytes(two, o.data).buf = two.buf \o o.data
        /\ PutBytes(two, o.data).rpos = two.rpos
    BY <1>1, <1>5, PutAtEnd, Zenon
  <2> QED
    BY <1>5, <2>1, Zenon
<1> HIDE DEF three
<1>7. three \in Buffer
  BY <1>6
<1>8. three.buf \in Seq(Byte) /\ Size(three) = Len(three.buf) /\ Size(three) \in Nat
  BY <1>7 DEF Buffer, Size
<1>9. PICK back \in Buffer : back = SetReadPos(three, 0) /\ back.rpos = 0
                             /\ back.buf = three.buf /\ Size(back) = Size(three)
  <2>1. 0 \in Nat
    OBVIOUS
  <2> QED
    BY <1>7, <2>1, AtPosition
<1>10. GetBytes(SetReadPos(three, 0), Size(three)) = SubSeq(three.buf, 0 + 1, 0 + Size(three))
  <2>1. back.rpos + Size(three) <= Size(back)
    BY <1>8, <1>9
  <2>2. GetBytes(back, Size(three)) = SubSeq(back.buf, back.rpos + 1, back.rpos + Size(three))
    BY <1>8, <2>1, SameBytes
  <2> QED
    BY <1>9, <2>2
<1>11. SubSeq(three.buf, 0 + 1, 0 + Size(three)) = three.buf
  BY <1>8, SubSeqFull
<1>12. CreateRetData(o) = three.buf
  BY <1>2, <1>10, <1>11 DEF CreateRetData
<1> QED
  BY <1>6, <1>12 DEF AllOf, line

\* A new object has the bytes it was made of, and its read position is at the start.
LEMMA ConstructedBuffer ==
  ASSUME NEW w \in Text
  PROVE  /\ PutBytes(Empty, w) \in Buffer
         /\ PutBytes(Empty, w).buf = w /\ PutBytes(Empty, w).rpos = 0
<1>1. Empty \in Buffer /\ Empty.wpos = Size(Empty) /\ Empty.buf = <<>> /\ Empty.rpos = 0
  BY DEF Empty, Buffer, Size
<1>2. <<>> \o w = w
  BY ConcatEmptySeq DEF Text
<1> QED
  BY <1>1, <1>2, PutAtEnd

\* A status that is determined is a status, or the one that was there.
LEMMA StatusDetermined ==
  ASSUME NEW reason, NEW old
  PROVE  DetermineStatusCode(reason, old) \in Status \cup {old}
<1> DEFINE hits == {i \in DOMAIN Phrases : Contains(reason, Phrases[i][2])}
<1>1. DOMAIN Phrases = 1..6 /\ \A i \in 1..6 : Phrases[i][1] \in Status
  BY DEF Phrases, Status
<1>2. hits # {} => Min(hits) \in hits
  BY <1>1, MinOf
<1>3. hits # {} => Phrases[Min(hits)][1] \in Status
  BY <1>1, <1>2
<1>4. DetermineStatusCode(reason, old) = IF hits = {} THEN old ELSE Phrases[Min(hits)][1]
  BY DEF DetermineStatusCode
<1> HIDE DEF hits
<1> QED
  BY <1>3, <1>4

\* The key and the value of a line that has a colon, and the trimmed value when
\* value.at(i) does not throw.
LEMMA HeaderType ==
  ASSUME NEW line \in Text, Colons(line) # {}, ~Throws(line)
  PROVE  /\ Key(line) \in Text
         /\ Trimmed(Value(line)) \in Text
<1>1. line \in Seq(Byte) /\ Len(line) \in Nat /\ DOMAIN line = 1..Len(line)
  BY DEF Text
<1>2. PICK c \in Colons(line) : c = Min(Colons(line))
  <2>1. Colons(line) \subseteq Nat
    BY <1>1 DEF Colons
  <2> QED
    BY <2>1, MinOf
<1>3. c \in 1..Len(line) /\ c - 1 \in Nat /\ c + 1 \in Nat \ {0}
  BY <1>1, <1>2 DEF Colons
<1>4. Key(line) \in Text
  BY <1>1, <1>2, <1>3 DEF Key, Text
<1>5. Value(line) \in Seq(Byte)
  BY <1>1, <1>2, <1>3 DEF Value
<1>6. PICK v \in Seq(Byte) : v = Value(line)
  BY <1>5
<1>7. {i \in DOMAIN v : v[i] # SP} # {}
  BY <1>6 DEF Throws
<1>8. DOMAIN v = 1..Len(v) /\ Len(v) \in Nat
  OBVIOUS
<1>9. PICK m : m = Min({i \in DOMAIN v : v[i] # SP})
  OBVIOUS
<1>10. m \in 1..Len(v)
  <2>1. {i \in DOMAIN v : v[i] # SP} \subseteq Nat
    BY <1>8
  <2>2. Min({i \in DOMAIN v : v[i] # SP}) \in {i \in DOMAIN v : v[i] # SP}
    BY <1>7, <2>1, MinOf
  <2> QED
    BY <1>8, <1>9, <2>2
<1>11. Trimmed(v) = SubSeq(v, m, Len(v))
  BY <1>9 DEF Trimmed
<1>12. SubSeq(v, m, Len(v)) \in Seq(Byte)
  BY <1>8, <1>10
<1> QED
  BY <1>4, <1>6, <1>11, <1>12 DEF Text

\* addHeader() adds a pair of texts, or none.
LEMMA AddHeaderType ==
  ASSUME NEW line \in Text, headers \in SUBSET Field, AddHeader(line)
  PROVE  pc' \in {"thrown", "headers"} /\ headers' \in SUBSET Field
<1>1. CASE Throws(line)
  BY <1>1 DEF AddHeader
<1>2. CASE ~Throws(line)
  <2>1. pc' = "headers" /\ headers' = Inserted(line)
    BY <1>2 DEF AddHeader
  <2>2. CASE Colons(line) = {} \/ \E f \in headers : f[1] = Key(line)
    BY <2>1, <2>2 DEF Inserted
  <2>3. CASE ~(Colons(line) = {} \/ \E f \in headers : f[1] = Key(line))
    <3>1. Key(line) \in Text /\ Trimmed(Value(line)) \in Text
      BY <1>2, <2>3, HeaderType
    <3>2. <<Key(line), Trimmed(Value(line))>> \in Field
      BY <3>1 DEF Field
    <3>3. headers' = headers \cup {<<Key(line), Trimmed(Value(line))>>}
      BY <2>1, <2>3 DEF Inserted
    <3> QED
      BY <2>1, <3>2, <3>3
  <2> QED
    BY <2>2, <2>3
<1> QED
  BY <1>1, <1>2

\* atoi() gives an unsigned number.
LEMMA ContentLenType == ContentLen \in Nat
<1>1. \A n \in Numeral : Digit[n] \in Nat
  <2>1. DOMAIN Digits = 1..8
    BY DEF Digits
  <2>2. ASSUME NEW n \in Numeral, n # "-1", n # "0"
        PROVE  (CHOOSE i \in DOMAIN Digits : Digits[i] = n) \in Nat
    <3>1. \E i \in DOMAIN Digits : Digits[i] = n
      BY <2>2 DEF Numeral
    <3> QED
      BY <2>1, <3>1
  <2>3. UintMod - 1 \in Nat
    BY ByteBufferAssumption
  <2> HIDE DEF Numeral, Digits
  <2>4. \A n \in Numeral :
          Digit[n] = IF n = "-1" THEN UintMod - 1
                     ELSE IF n = "0" THEN 0 ELSE CHOOSE i \in DOMAIN Digits : Digits[i] = n
    BY Zenon DEF Digit
  <2> SUFFICES ASSUME NEW n \in Numeral PROVE Digit[n] \in Nat
    OBVIOUS
  <2>5. CASE n = "-1"
    BY <2>3, <2>4, <2>5
  <2>6. CASE n # "-1" /\ n = "0"
    BY <2>4, <2>6
  <2>7. CASE n # "-1" /\ n # "0"
    <3>1. Digit[n] = CHOOSE i \in DOMAIN Digits : Digits[i] = n
      BY <2>4, <2>7, Zenon
    <3> QED
      BY <2>2, <2>7, <3>1, Zenon
  <2> QED
    BY <2>5, <2>6, <2>7
<1> QED
  BY <1>1 DEF ContentLen

\* Every helper of parse(), and every beginning, keeps the types and leaves the
\* read position in the buffer.
LEMMA ParsingStep ==
  ASSUME Parsing, Next
  PROVE  Parsing'
<1>1. /\ bb \in Buffer /\ bb.rpos <= Size(bb) /\ kind \in Kind
      /\ sent \in Message \cup {NoObject}
      /\ first \in Text /\ second \in Text /\ third \in Text
      /\ status \in Status \cup {NoStatus} /\ headers \in SUBSET Field
      /\ hline \in Text /\ dataLen \in Nat
  BY DEF Parsing, TypeOK, PositionInBuffer
<1>2. /\ GetLine(bb).text \in Text /\ GetLine(bb).rest \in Buffer
      /\ GetLine(bb).rest.rpos <= Size(GetLine(bb).rest)
  BY <1>1, GetLineType
<1>3. /\ GetStrElement(bb).text \in Text /\ GetStrElement(bb).rest \in Buffer
      /\ GetStrElement(bb).rest.rpos <= Size(GetStrElement(bb).rest)
  BY <1>1, ElementType
<1>4. ASSUME NEW k \in Kind, NEW w \in Text, Construct(k, w), sent' \in Message \cup {NoObject}
      PROVE  Parsing'
  <2>1. PutBytes(Empty, w) \in Buffer /\ PutBytes(Empty, w).rpos = 0
    BY ConstructedBuffer
  <2>2. bb' \in Buffer /\ bb'.rpos = 0 /\ Size(bb') \in Nat
    BY <1>4, <2>1, BufferNumbers DEF Construct
  <2>3. /\ pc' = "first" /\ kind' \in Kind
        /\ UNCHANGED <<first, second, third, status, headers, hline, dataLen>>
    BY <1>4 DEF Construct
  <2> QED
    BY <1>1, <1>4, <2>2, <2>3 DEF Parsing, TypeOK, PositionInBuffer, Done
<1>5. ASSUME Create PROVE Parsing'
  <2>1. PICK o \in Object : sent' = o /\ Construct(o.kind, CreateRetData(o))
    BY <1>5 DEF Create
  <2>2. o \in Message /\ o.kind \in Kind /\ CreateRetData(o) \in Text
    BY HTTPMessageAssumption, MessageTexts, CreatedBytes
  <2> QED
    BY <1>4, <2>1, <2>2
<1>6. ASSUME Receive PROVE Parsing'
  <2>1. PICK k \in Kind, w \in Wire : Construct(k, w) \/ Construct(k, CString(w))
    BY <1>6 DEF Receive
  <2>2. w \in Text /\ CString(w) \in Text /\ sent' = sent
    BY <1>6, HTTPMessageAssumption, MessageBytes DEF Receive, Text, CString
  <2> QED
    BY <1>1, <1>4, <2>1, <2>2
<1>7. ASSUME ParseFirst PROVE Parsing'
  <2>1. first' \in Text /\ bb' \in Buffer /\ bb'.rpos <= Size(bb')
    BY <1>3, <1>7 DEF ParseFirst
  <2>2. pc' = "second" /\ UNCHANGED <<sent, kind, second, third, status, headers, hline, dataLen>>
    BY <1>7 DEF ParseFirst
  <2> QED
    BY <1>1, <2>1, <2>2 DEF Parsing, TypeOK, PositionInBuffer, Done
<1>8. ASSUME ParseSecond PROVE Parsing'
  <2>1. second' \in Text /\ bb' \in Buffer /\ bb'.rpos <= Size(bb')
    BY <1>3, <1>8 DEF ParseSecond
  <2>2. status' \in Status \cup {NoStatus}
    <3>1. DetermineStatusCode(third, status) \in Status \cup {status}
      BY StatusDetermined
    <3>2. status' = status \/ status' = DetermineStatusCode(third, status)
      BY <1>8 DEF ParseSecond
    <3> QED
      BY <1>1, <3>1, <3>2
  <2>3. pc' = "third" /\ UNCHANGED <<sent, kind, first, third, headers, hline, dataLen>>
    BY <1>8 DEF ParseSecond
  <2> QED
    BY <1>1, <2>1, <2>2, <2>3 DEF Parsing, TypeOK, PositionInBuffer, Done
<1>9. ASSUME ParseThird PROVE Parsing'
  <2>1. third' \in Text /\ bb' \in Buffer /\ bb'.rpos <= Size(bb')
    BY <1>2, <1>9 DEF ParseThird
  <2>2. /\ pc' = "refused" \/ pc' = "headers"
        /\ UNCHANGED <<sent, kind, first, second, status, headers, hline, dataLen>>
    BY <1>9 DEF ParseThird
  <2> QED
    BY <1>1, <2>1, <2>2 DEF Parsing, TypeOK, PositionInBuffer, Done
<1>10. ASSUME ParseHeader PROVE Parsing'
  <2>1. bb' \in Buffer /\ bb'.rpos <= Size(bb')
    BY <1>2, <1>10 DEF ParseHeader
  <2>2. UNCHANGED <<sent, kind, first, second, third, status, dataLen>>
    BY <1>10 DEF ParseHeader
  <2>3. pc' \in {"parsed", "body", "continued", "thrown", "headers"}
        /\ hline' \in Text /\ headers' \in SUBSET Field
    <3>1. CASE GetLine(bb).text = <<>> /\ pc' = AfterHeaders /\ UNCHANGED <<headers, hline>>
      <4>1. AfterHeaders = "parsed" \/ AfterHeaders = "body"
        BY DEF AfterHeaders
      <4> QED
        BY <1>1, <3>1, <4>1
    <3>2. CASE pc' = "continued" /\ hline' = GetLine(bb).text /\ UNCHANGED headers
      BY <1>1, <1>2, <3>2
    <3>3. CASE AddHeader(GetLine(bb).text) /\ UNCHANGED hline
      BY <1>1, <1>2, <3>3, AddHeaderType
    <3> QED
      BY <1>10, <3>1, <3>2, <3>3 DEF ParseHeader
  <2> QED
    BY <1>1, <2>1, <2>2, <2>3 DEF Parsing, TypeOK, PositionInBuffer, Done
<1>11. ASSUME ContinueHeader PROVE Parsing'
  <2>1. bb' \in Buffer /\ bb'.rpos <= Size(bb')
    BY <1>2, <1>11 DEF ContinueHeader
  <2>2. pc = "continued" /\ UNCHANGED <<sent, kind, first, second, third, status, dataLen>>
    BY <1>11 DEF ContinueHeader
  <2>3. hline \o GetLine(bb).text \in Text
    BY <1>1, <1>2, TwoTexts
  <2>4. pc' \in {"continued", "thrown", "headers"} /\ hline' \in Text /\ headers' \in SUBSET Field
    <3>1. CASE hline' = hline \o GetLine(bb).text /\ UNCHANGED <<pc, headers>>
      BY <1>1, <2>2, <2>3, <3>1
    <3>2. CASE hline' = <<>> /\ AddHeader(hline \o GetLine(bb).text)
      BY <1>1, <2>3, <3>2, AddHeaderType, MessageBytes
    <3> QED
      BY <1>11, <3>1, <3>2 DEF ContinueHeader
  <2> QED
    BY <1>1, <2>1, <2>2, <2>4 DEF Parsing, TypeOK, PositionInBuffer, Done
<1>12. ASSUME ParseBody PROVE Parsing'
  <2>1. UNCHANGED <<sent, bb, kind, first, second, third, status, headers, hline>>
    BY <1>12 DEF ParseBody
  <2>2. pc' \in {"parsed", "refused", "crashed"} /\ dataLen' \in {dataLen, ContentLen}
    BY <1>12 DEF ParseBody
  <2>3. dataLen' \in Nat
    BY <1>1, <2>2, ContentLenType
  <2> QED
    BY <1>1, <2>1, <2>2, <2>3 DEF Parsing, TypeOK, PositionInBuffer, Done
<1>13. ASSUME Terminated PROVE Parsing'
  BY <1>13 DEF Terminated, vars, Parsing, TypeOK, PositionInBuffer
<1> QED
  BY <1>5, <1>6, <1>7, <1>8, <1>9, <1>10, <1>11, <1>12, <1>13 DEF Next, ParseStep

\* No helper leaves the types or the buffer.
LEMMA ParsingAlways == Spec => []Parsing
<1>1. Init => Parsing
  <2> SUFFICES ASSUME Init PROVE Parsing
    OBVIOUS
  <2>1. Empty \in Buffer /\ Empty.rpos = 0 /\ Size(Empty) = 0
    BY DEF Empty, Buffer, Size
  <2>2. /\ pc = "new" /\ sent = NoObject /\ bb = Empty /\ kind = "request"
        /\ first = <<>> /\ second = <<>> /\ third = <<>> /\ status = NoStatus
        /\ headers = {} /\ hline = <<>> /\ dataLen = 0
    BY DEF Init
  <2> QED
    BY <2>1, <2>2, MessageBytes DEF Parsing, TypeOK, PositionInBuffer, Kind
<1>2. Parsing /\ [Next]_vars => Parsing'
  <2>1. ASSUME Parsing, UNCHANGED vars PROVE Parsing'
    BY <2>1 DEF vars, Parsing, TypeOK, PositionInBuffer
  <2> QED
    BY <2>1, ParsingStep
<1> QED
  BY <1>1, <1>2, PTL DEF Spec

\* Every variable of the parser keeps its type, whatever arrives.
THEOREM MessageTypeCorrect == Spec => []TypeOK
<1>1. Parsing => TypeOK
  BY DEF Parsing
<1> QED
  BY <1>1, ParsingAlways, PTL

\* No helper of parse() leaves the read position past the end, whatever arrives, so
\* bytesRemaining() does not wrap in parseBody().
THEOREM PositionStaysInBuffer == Spec => []PositionInBuffer
<1>1. Parsing => PositionInBuffer
  BY DEF Parsing
<1> QED
  BY <1>1, ParsingAlways, PTL
----------------------------------------------------------------------------
(* The end of the headers *)

\* No end of line in the first n bytes of the buffer r.
NoEolTo(r, n) == \A i \in 1..n : r.buf[i] \notin Eol

\* The read position is at the start of a line of the head that ends at p.
AtLine(r, p) == /\ r.rpos \in 2..p - 2
                /\ r.buf[r.rpos] = LF /\ r.buf[r.rpos - 1] = CR

\* The first blank line, and a head before it whose lines end in CR LF.
FirstBlank(r, p) ==
  /\ p \in BlankLines(r.buf) /\ \A n \in BlankLines(r.buf) : p <= n
  /\ \A i \in 1..p : /\ r.buf[i] = CR => i < p /\ r.buf[i + 1] = LF
                     /\ r.buf[i] = LF => i > 1 /\ r.buf[i - 1] = CR

\* A regular head without a continued line ends at p.
HeadAt(p) == FirstBlank(bb, p) /\ Without(first \o second, Eol) /\ Uncontinued(p)

\* The words of the start line are behind the read position with no end of line
\* between them; then it is at the start of a line, until the blank one.
HeadRead ==
  /\ pc = "first" => bb.rpos = 0
  /\ pc = "second" /\ Without(first, Eol) => NoEolTo(bb, bb.rpos)
  /\ pc = "third" /\ Without(first \o second, Eol) => NoEolTo(bb, bb.rpos)
  /\ \A p \in BlankLines(bb.buf) : HeadAt(p) =>
       /\ pc # "continued"
       /\ pc = "headers" => AtLine(bb, p)
       /\ pc \in {"body", "parsed"} => bb.rpos = p

\* A blank line, byte by byte.
LEMMA BlankIs ==
  ASSUME NEW w \in Text, NEW p \in Nat
  PROVE  p \in BlankLines(w)
           <=> /\ p \in 4..Len(w)
               /\ w[p - 3] = CR /\ w[p - 2] = LF /\ w[p - 1] = CR /\ w[p] = LF
<1> SUFFICES ASSUME p \in 4..Len(w)
             PROVE  SubSeq(w, p - 3, p) = <<CR, LF, CR, LF>>
                      <=> w[p - 3] = CR /\ w[p - 2] = LF /\ w[p - 1] = CR /\ w[p] = LF
  BY DEF BlankLines
<1>1. w \in Seq(Byte) /\ Len(w) \in Nat /\ p - 3 \in Nat \ {0} /\ p <= Len(w)
  BY DEF Text
<1>2. PICK u \in Seq(Byte) : /\ u = SubSeq(w, p - 3, p) /\ Len(u) = 4
                             /\ \A k \in 1..4 : u[k] = w[p - 3 + k - 1]
  <2>1. /\ SubSeq(w, p - 3, p) \in Seq(Byte)
        /\ Len(SubSeq(w, p - 3, p)) = IF p - 3 <= p THEN p - (p - 3) + 1 ELSE 0
        /\ \A k \in 1..p - (p - 3) + 1 : SubSeq(w, p - 3, p)[k] = w[p - 3 + k - 1]
    BY <1>1, PieceOf
  <2>2. p - (p - 3) + 1 = 4 /\ p - 3 <= p
    BY <1>1
  <2> QED
    BY <2>1, <2>2
<1>3. /\ u[1] = w[p - 3] /\ u[2] = w[p - 2] /\ u[3] = w[p - 1] /\ u[4] = w[p]
  <2>1. /\ p - 3 + 1 - 1 = p - 3 /\ p - 3 + 2 - 1 = p - 2
        /\ p - 3 + 3 - 1 = p - 1 /\ p - 3 + 4 - 1 = p
    BY <1>1
  <2> QED
    BY <1>2, <2>1
<1>4. u = <<CR, LF, CR, LF>> => u[1] = CR /\ u[2] = LF /\ u[3] = CR /\ u[4] = LF
  OBVIOUS
<1>5. u[1] = CR /\ u[2] = LF /\ u[3] = CR /\ u[4] = LF => u = <<CR, LF, CR, LF>>
  <2> SUFFICES ASSUME u[1] = CR, u[2] = LF, u[3] = CR, u[4] = LF
               PROVE  u = <<CR, LF, CR, LF>>
    OBVIOUS
  <2>1. <<CR, LF, CR, LF>> \in Seq(Byte) /\ Len(<<CR, LF, CR, LF>>) = 4
    BY MessageBytes
  <2>2. ASSUME NEW i \in 1..Len(u) PROVE u[i] = <<CR, LF, CR, LF>>[i]
    <3>1. i = 1 \/ i = 2 \/ i = 3 \/ i = 4
      BY <1>2
    <3> QED
      BY <3>1
  <2> QED
    BY <1>2, <2>1, <2>2, SeqEqual
<1> QED
  BY <1>2, <1>3, <1>4, <1>5

\* What FirstBlank says of the bytes.
LEMMA BlankBytes ==
  ASSUME NEW r \in Buffer, NEW p \in Nat, FirstBlank(r, p)
  PROVE  /\ p >= 4 /\ p <= Size(r) /\ Size(r) \in Nat
         /\ r.buf[p - 3] = CR /\ r.buf[p - 2] = LF /\ r.buf[p - 1] = CR /\ r.buf[p] = LF
<1>1. r.buf \in Text /\ Size(r) = Len(r.buf) /\ Size(r) \in Nat /\ p \in BlankLines(r.buf)
  BY DEF Buffer, Size, Text, FirstBlank
<1> QED
  BY <1>1, BlankIs

\* From inside the head getLine() finds a CR LF: that of the blank line when it is
\* there already, and one that ends a line before it otherwise.
LEMMA NextLine ==
  ASSUME NEW r \in Buffer, NEW p \in Nat, FirstBlank(r, p),
         r.rpos <= p - 2, r.rpos = 0 \/ r.buf[r.rpos] # CR
  PROVE  \E e \in Nat :
           /\ EndsAt(r, e) /\ PastEol(r, e) = e + 1
           /\ r.buf[e] = CR /\ r.buf[e + 1] = LF
           /\ \/ e <= p - 3
              \/ e = p - 1 /\ r.rpos = p - 2
<1>1. /\ p >= 4 /\ p <= Size(r) /\ Size(r) \in Nat
      /\ r.buf[p - 2] = LF /\ r.buf[p - 1] = CR
  BY BlankBytes
<1>2. r.rpos \in Nat
  BY BufferNumbers
<1> DEFINE ends == {i \in r.rpos + 1..p - 1 : r.buf[i] \in Eol}
<1>3. p - 1 \in ends /\ ends \subseteq Nat
  BY <1>1, <1>2 DEF Eol
<1>4. PICK e \in ends : \A n \in ends : e <= n
  BY <1>3, LeastNumber
<1>5. e \in r.rpos + 1..p - 1 /\ e \in Nat /\ r.buf[e] \in Eol /\ e \in 1..p
  BY <1>1, <1>2
<1>6. ASSUME NEW i \in r.rpos + 1..e - 1, r.buf[i] \in Eol PROVE FALSE
  <2>1. i \in r.rpos + 1..p - 1 /\ ~(e <= i)
    BY <1>1, <1>2, <1>5
  <2>2. i \in ends
    BY <1>6, <2>1
  <2> HIDE DEF ends
  <2> QED
    BY <1>4, <2>1, <2>2
<1> HIDE DEF ends
<1>7. EndsAt(r, e)
  <2>1. e \in r.rpos + 1..Size(r)
    BY <1>1, <1>2, <1>5
  <2> QED
    BY <1>5, <1>6, <2>1 DEF EndsAt
<1>8. r.buf[e] = CR
  <2> SUFFICES ASSUME r.buf[e] = LF PROVE FALSE
    BY <1>5 DEF Eol
  <2>1. e > 1 /\ r.buf[e - 1] = CR
    BY <1>5 DEF FirstBlank
  <2>2. CASE e - 1 = r.rpos
    BY <1>2, <1>5, <2>1, <2>2
  <2>3. CASE e - 1 # r.rpos
    <3>1. e - 1 \in r.rpos + 1..e - 1
      BY <1>2, <1>5, <2>3
    <3> QED
      BY <1>6, <2>1, <3>1 DEF Eol
  <2> QED
    BY <2>2, <2>3
<1>9. r.buf[e + 1] = LF
  BY <1>5, <1>8 DEF FirstBlank
<1>10. PastEol(r, e) = e + 1
  <2>1. e < Size(r)
    BY <1>1, <1>5
  <2> QED
    BY <1>9, <2>1 DEF PastEol, Eol
<1>11. e # p - 2
  BY <1>1, <1>8 DEF CR, LF
<1>12. e = p - 1 => r.rpos = p - 2
  <2> SUFFICES ASSUME e = p - 1, r.rpos # p - 2 PROVE FALSE
    OBVIOUS
  <2>1. p - 2 \in r.rpos + 1..e - 1
    BY <1>1, <1>2
  <2> QED
    BY <1>1, <1>6, <2>1 DEF Eol
<1>13. e <= p - 3 \/ e = p - 1
  BY <1>1, <1>5, <1>11
<1> QED
  BY <1>5, <1>7, <1>8, <1>9, <1>10, <1>12, <1>13

\* getLine() returns that line.
LEMMA LineRead ==
  ASSUME NEW r \in Buffer, NEW p \in Nat, FirstBlank(r, p),
         r.rpos <= p - 2, r.rpos = 0 \/ r.buf[r.rpos] # CR
  PROVE  \E e \in Nat :
           /\ e \in r.rpos + 1..Size(r)
           /\ GetLine(r).text = SubSeq(r.buf, r.rpos + 1, e - 1)
           /\ GetLine(r).rest.buf = r.buf /\ GetLine(r).rest.rpos = e + 1
           /\ r.buf[e] = CR /\ r.buf[e + 1] = LF
           /\ \/ e <= p - 3
              \/ e = p - 1 /\ r.rpos = p - 2
<1>1. PICK e \in Nat :
           /\ EndsAt(r, e) /\ PastEol(r, e) = e + 1
           /\ r.buf[e] = CR /\ r.buf[e + 1] = LF
           /\ \/ e <= p - 3
              \/ e = p - 1 /\ r.rpos = p - 2
  BY NextLine
<1>2. e \in r.rpos + 1..Size(r) /\ r.buf[e] \in Eol
  BY <1>1 DEF EndsAt
<1>3. PICK d \in Nat : /\ EndsAt(r, d)
                       /\ GetLine(r).text = SubSeq(r.buf, r.rpos + 1, d - 1)
                       /\ GetLine(r).rest = SetReadPos(r, PastEol(r, d))
  BY <1>2, GetLineIs
<1>4. d = e
  BY <1>1, <1>3, OneEnd
<1>5. PICK n \in Nat : n = e + 1
  OBVIOUS
<1>6. SetReadPos(r, n).buf = r.buf /\ SetReadPos(r, n).rpos = n
  BY AtPosition
<1>7. GetLine(r).rest = SetReadPos(r, n)
  BY <1>1, <1>3, <1>4, <1>5
<1> QED
  BY <1>1, <1>2, <1>3, <1>4, <1>5, <1>6, <1>7

\* What a piece of a text does not have, the text does not have there.
LEMMA PieceWithout ==
  ASSUME NEW t \in Seq(Byte), NEW lo \in Nat \ {0}, NEW hi \in Nat, hi <= Len(t), NEW bytes,
         Without(SubSeq(t, lo, hi), bytes), NEW i \in lo..hi
  PROVE  t[i] \notin bytes
<1>1. PICK k \in Nat : k \in 1..hi - lo + 1 /\ lo + k - 1 = i /\ lo <= hi
  <2>1. i - lo + 1 \in Nat /\ i - lo + 1 \in 1..hi - lo + 1 /\ lo + (i - lo + 1) - 1 = i /\ lo <= hi
    OBVIOUS
  <2> QED
    BY <2>1
<1>2. PICK u \in Seq(Byte) : u = SubSeq(t, lo, hi) /\ Len(u) = hi - lo + 1 /\ u[k] = t[lo + k - 1]
  BY <1>1, PieceOf
<1>3. k \in DOMAIN u
  BY <1>1, <1>2
<1> QED
  BY <1>1, <1>2, <1>3 DEF Without

\* A text without ends of lines that was read leaves none behind.
LEMMA TextRead ==
  ASSUME NEW r \in Buffer, NoEolTo(r, r.rpos), NEW e \in r.rpos..Size(r) - 1,
         Without(SubSeq(r.buf, r.rpos + 1, e), Eol), r.buf[e + 1] = SP
  PROVE  NoEolTo(r, e + 1)
<1>1. r.rpos \in Nat /\ Size(r) \in Nat /\ r.buf \in Seq(Byte) /\ Size(r) = Len(r.buf)
  BY BufferNumbers DEF Buffer, Size
<1>2. PICK lo \in Nat \ {0} : lo = r.rpos + 1 /\ e \in Nat /\ e <= Len(r.buf) /\ r.rpos <= e
  BY <1>1
<1>3. \A i \in lo..e : r.buf[i] \notin Eol
  BY <1>1, <1>2, PieceWithout
<1>4. ASSUME NEW i \in 1..e + 1 PROVE i \in 1..r.rpos \/ i \in lo..e \/ i = e + 1
  BY <1>1, <1>2
<1>5. SP \notin Eol
  BY DEF Eol, SP, CR, LF
<1> QED
  BY <1>3, <1>4, <1>5 DEF NoEolTo

\* getStrElement() reads no end of line, when its text has none.
LEMMA ElementRead ==
  ASSUME NEW r \in Buffer, NoEolTo(r, r.rpos), Without(GetStrElement(r).text, Eol)
  PROVE  LET rest == GetStrElement(r).rest IN rest.buf = r.buf /\ NoEolTo(rest, rest.rpos)
<1>1. CASE GetStrElement(r).rest = r
  BY <1>1
<1>2. ASSUME NEW e \in r.rpos..Size(r) - 1,
             Hits(r, SP, r.rpos) # {}, e = Min(Hits(r, SP, r.rpos)),
             GetStrElement(r).text = SubSeq(r.buf, r.rpos + 1, e),
             GetStrElement(r).rest = SetReadPos(r, e + 1)
      PROVE  LET rest == GetStrElement(r).rest IN rest.buf = r.buf /\ NoEolTo(rest, rest.rpos)
  <2>1. r.rpos \in Nat /\ Size(r) \in Nat
    BY BufferNumbers
  <2>2. r.buf[e + 1] = SP
    <3>1. Hits(r, SP, r.rpos) \subseteq Nat
      BY <2>1 DEF Hits
    <3>2. e \in Hits(r, SP, r.rpos)
      BY <1>2, <3>1, MinOf
    <3> QED
      BY <3>2 DEF Hits
  <2>3. NoEolTo(r, e + 1)
    BY <1>2, <2>2, TextRead
  <2>4. PICK n \in Nat : n = e + 1
    BY <2>1
  <2>5. SetReadPos(r, n).buf = r.buf /\ SetReadPos(r, n).rpos = n
    BY AtPosition
  <2> QED
    BY <1>2, <2>3, <2>4, <2>5 DEF NoEolTo
<1> QED
  BY <1>1, <1>2, ElementIs

\* The words of the start line together have no end of line when neither has.
LEMMA WithoutBoth ==
  ASSUME NEW s \in Text, NEW t \in Text, NEW bytes
  PROVE  Without(s \o t, bytes) <=> Without(s, bytes) /\ Without(t, bytes)
<1>1. /\ DOMAIN s = 1..Len(s) /\ DOMAIN t = 1..Len(t) /\ Len(s) \in Nat /\ Len(t) \in Nat
      /\ DOMAIN (s \o t) = 1..Len(s) + Len(t)
  BY DEF Text
<1>2. \A i \in 1..Len(s) + Len(t) : (s \o t)[i] = IF i <= Len(s) THEN s[i] ELSE t[i - Len(s)]
  BY TwoIndex DEF Text
<1>3. ASSUME Without(s \o t, bytes), NEW i \in 1..Len(s) PROVE s[i] \notin bytes
  <2>1. i \in 1..Len(s) + Len(t) /\ i <= Len(s)
    BY <1>1
  <2> QED
    BY <1>1, <1>2, <1>3, <2>1 DEF Without
<1>4. ASSUME Without(s \o t, bytes), NEW i \in 1..Len(t) PROVE t[i] \notin bytes
  <2>1. i + Len(s) \in 1..Len(s) + Len(t) /\ ~(i + Len(s) <= Len(s)) /\ (i + Len(s)) - Len(s) = i
    BY <1>1
  <2>2. (s \o t)[i + Len(s)] = t[i]
    BY <1>2, <2>1
  <2> QED
    BY <1>1, <1>4, <2>1, <2>2 DEF Without
<1>5. ASSUME Without(s, bytes), Without(t, bytes), NEW i \in 1..Len(s) + Len(t)
      PROVE  (s \o t)[i] \notin bytes
  <2>1. CASE i <= Len(s)
    BY <1>1, <1>2, <1>5, <2>1 DEF Without
  <2>2. CASE ~(i <= Len(s))
    <3>1. i - Len(s) \in 1..Len(t)
      BY <1>1, <2>2
    <3> QED
      BY <1>1, <1>2, <1>5, <2>2, <3>1 DEF Without
  <2> QED
    BY <2>1, <2>2
<1> QED
  BY <1>1, <1>3, <1>4, <1>5 DEF Without

\* The line after the words of the start line ends in front of the blank line.
LEMMA StartLineEnds ==
  ASSUME NEW r \in Buffer, NEW p \in Nat, FirstBlank(r, p), NoEolTo(r, r.rpos)
  PROVE  LET rest == GetLine(r).rest IN rest.buf = r.buf /\ AtLine(rest, p)
<1>1. p >= 4 /\ p <= Size(r) /\ Size(r) \in Nat /\ r.buf[p - 3] = CR /\ r.rpos \in Nat
  BY BlankBytes, BufferNumbers
<1>2. r.rpos <= p - 4
  <2> SUFFICES ASSUME p - 3 \in 1..r.rpos PROVE FALSE
    BY <1>1
  <2> QED
    BY <1>1 DEF NoEolTo, Eol
<1>3. r.rpos = 0 \/ r.buf[r.rpos] # CR
  BY <1>1 DEF NoEolTo, Eol
<1>4. r.rpos <= p - 2
  BY <1>1, <1>2
<1>5. PICK e \in Nat : /\ e \in r.rpos + 1..Size(r)
                       /\ GetLine(r).rest.buf = r.buf /\ GetLine(r).rest.rpos = e + 1
                       /\ r.buf[e] = CR /\ r.buf[e + 1] = LF
                       /\ e <= p - 3 \/ (e = p - 1 /\ r.rpos = p - 2)
  BY <1>3, <1>4, LineRead
<1>6. e + 1 \in 2..p - 2 /\ (e + 1) - 1 = e
  BY <1>1, <1>2, <1>5
<1> QED
  BY <1>5, <1>6 DEF AtLine

\* From the start of a line, getLine() gives the blank line when it is there, and
\* otherwise a line that is neither blank nor ends in a comma.
LEMMA HeaderLineEnds ==
  ASSUME bb \in Buffer, NEW p \in Nat, HeadAt(p), AtLine(bb, p)
  PROVE  LET line == GetLine(bb) IN
         /\ line.rest.buf = bb.buf
         /\ \/ line.text = <<>> /\ line.rest.rpos = p
            \/ line.text # <<>> /\ ~EndsInComma(line.text) /\ AtLine(line.rest, p)
<1>1. p >= 4 /\ p <= Size(bb) /\ Size(bb) \in Nat /\ FirstBlank(bb, p)
  BY BlankBytes DEF HeadAt
<1>2. PICK a \in Nat : a = bb.rpos /\ a \in 2..p - 2 /\ bb.buf[a] = LF /\ bb.buf[a - 1] = CR
  BY <1>1 DEF AtLine
<1>3. a # 0 /\ bb.buf[a] # CR /\ a <= p - 2
  BY <1>1, <1>2 DEF CR, LF
<1>4. PICK e \in Nat : /\ e \in a + 1..Size(bb)
                       /\ GetLine(bb).text = SubSeq(bb.buf, a + 1, e - 1)
                       /\ GetLine(bb).rest.buf = bb.buf /\ GetLine(bb).rest.rpos = e + 1
                       /\ bb.buf[e] = CR /\ bb.buf[e + 1] = LF
                       /\ e <= p - 3 \/ (e = p - 1 /\ a = p - 2)
  BY <1>1, <1>2, <1>3, LineRead
<1>5. bb.buf \in Seq(Byte) /\ bb.buf \in Text /\ Size(bb) = Len(bb.buf)
  BY DEF Buffer, Size, Text
<1>6. PICK t \in Seq(Byte) : /\ t = SubSeq(bb.buf, a + 1, e - 1)
                             /\ Len(t) = IF a + 1 <= e - 1 THEN e - 1 - (a + 1) + 1 ELSE 0
                             /\ \A k \in 1..e - 1 - (a + 1) + 1 : t[k] = bb.buf[a + 1 + k - 1]
  <2>1. e >= a + 1 /\ e <= Len(bb.buf)
    BY <1>1, <1>4, <1>5
  <2>2. a + 1 \in Nat \ {0} /\ e - 1 \in Nat /\ e - 1 <= Len(bb.buf)
    BY <2>1
  <2> DEFINE piece == SubSeq(bb.buf, a + 1, e - 1)
  <2>3. /\ piece \in Seq(Byte)
        /\ Len(piece) = IF a + 1 <= e - 1 THEN e - 1 - (a + 1) + 1 ELSE 0
        /\ \A k \in 1..e - 1 - (a + 1) + 1 : piece[k] = bb.buf[a + 1 + k - 1]
    BY <1>5, <2>2, PieceOf, Zenon
  <2> HIDE DEF piece
  <2>4. piece = SubSeq(bb.buf, a + 1, e - 1)
    BY DEF piece
  <2> QED
    BY <2>3, <2>4, Zenon
<1>7. CASE e = p - 1 /\ a = p - 2
  <2>1. Len(t) = 0 /\ e + 1 = p
    BY <1>1, <1>6, <1>7
  <2>2. t = <<>>
    BY <1>6, <2>1, EmptySeq
  <2> QED
    BY <1>4, <1>6, <2>1, <2>2
<1>8. CASE e <= p - 3
  <2>1. e # a + 1
    <3> SUFFICES ASSUME e = a + 1 PROVE FALSE
      OBVIOUS
    <3>1. PICK q \in Nat : q = a + 2
      BY <1>2
    <3>0. p <= Len(bb.buf) /\ a >= 2 /\ Len(bb.buf) \in Nat
      BY <1>1, <1>2, <1>5
    <3>2. /\ q \in 4..Len(bb.buf) /\ q < p
          /\ q - 3 = a - 1 /\ q - 2 = a /\ q - 1 = e /\ q = e + 1
      BY <3>0, <1>8, <3>1
    <3>3. q \in BlankLines(bb.buf)
      BY <1>2, <1>4, <1>5, <3>2, BlankIs
    <3>4. p <= q
      BY <1>1, <3>3 DEF FirstBlank
    <3> QED
      BY <3>2, <3>4
  <2>2. PICK n \in Nat : n = Len(t) /\ n \in 1..e - 1 - (a + 1) + 1 /\ a + 1 + n - 1 = e - 1
    <3>1. e >= a + 1
      BY <1>1, <1>4
    <3>2. e >= a + 2 /\ Len(t) = IF a + 1 <= e - 1 THEN e - 1 - (a + 1) + 1 ELSE 0
      BY <1>6, <2>1, <3>1
    <3> QED
      BY <3>2
  <2>3. t # <<>> /\ t[Len(t)] = bb.buf[e - 1]
    <3>1. t[n] = bb.buf[a + 1 + n - 1]
      BY <1>6, <2>2
    <3>2. t # <<>>
      BY <2>2
    <3> QED
      BY <2>2, <3>1, <3>2
  <2>4. bb.buf[e - 1] # Comma
    <3>1. e - 1 \in 1..p - 1 /\ (e - 1) + 1 = e
      BY <1>2, <1>4, <1>8
    <3>2. bb.buf[e - 1] = Comma => bb.buf[e - 1 + 1] # CR
      BY <3>1 DEF HeadAt, Uncontinued
    <3> QED
      BY <1>4, <3>1, <3>2
  <2>5. AtLine(GetLine(bb).rest, p)
    <3>1. e + 1 \in 2..p - 2 /\ (e + 1) - 1 = e
      BY <1>1, <1>2, <1>4, <1>8
    <3> QED
      BY <1>4, <3>1 DEF AtLine
  <2> QED
    BY <1>4, <1>6, <2>3, <2>4, <2>5 DEF EndsInComma
<1> QED
  BY <1>4, <1>7, <1>8

\* The words stay behind the read position, and the head is left at its end, by
\* every helper of parse().
LEMMA HeadReadStep ==
  ASSUME Parsing, HeadRead, Next
  PROVE  HeadRead'
<1>1. bb \in Buffer /\ first \in Text /\ second \in Text /\ headers \in SUBSET Field
      /\ bb.rpos <= Size(bb)
  BY DEF Parsing, TypeOK, PositionInBuffer
<1>2. GetLine(bb).rest.buf = bb.buf /\ GetLine(bb).text \in Text
      /\ GetStrElement(bb).rest.buf = bb.buf /\ GetStrElement(bb).text \in Text
  BY <1>1, GetLineType, ElementType
<1>3. \A p \in BlankLines(bb.buf) : p \in Nat
  BY <1>1, BufferNumbers DEF BlankLines, Size
<1>4. ASSUME pc' \notin {"second", "third", "continued", "headers", "body", "parsed"},
             pc' = "first" => bb'.rpos = 0
      PROVE  HeadRead'
  BY <1>4 DEF HeadRead
<1>5. ASSUME NEW k, NEW w \in Text, Construct(k, w) PROVE HeadRead'
  <2>1. pc' = "first" /\ bb' = PutBytes(Empty, w)
    BY <1>5 DEF Construct
  <2>2. bb'.rpos = 0
    BY <2>1, ConstructedBuffer
  <2> QED
    BY <1>4, <2>1, <2>2
<1>6. ASSUME Create PROVE HeadRead'
  <2>1. PICK o \in Object : Construct(o.kind, CreateRetData(o))
    BY <1>6 DEF Create
  <2>2. CreateRetData(o) \in Text
    BY HTTPMessageAssumption, MessageTexts, CreatedBytes
  <2> QED
    BY <1>5, <2>1, <2>2
<1>7. ASSUME Receive PROVE HeadRead'
  <2>1. PICK k \in Kind, w \in Wire : Construct(k, w) \/ Construct(k, CString(w))
    BY <1>7 DEF Receive
  <2>2. w \in Text /\ CString(w) \in Text
    BY HTTPMessageAssumption, MessageBytes DEF Text, CString
  <2> QED
    BY <1>5, <2>1, <2>2
<1>8. ASSUME ParseFirst PROVE HeadRead'
  <2>1. /\ pc = "first" /\ pc' = "second"
        /\ first' = GetStrElement(bb).text /\ bb' = GetStrElement(bb).rest
    BY <1>8 DEF ParseFirst
  <2>2. NoEolTo(bb, bb.rpos)
    BY <2>1 DEF HeadRead, NoEolTo
  <2>3. Without(first', Eol) => NoEolTo(bb', bb'.rpos)
    BY <1>1, <2>1, <2>2, ElementRead
  <2> QED
    BY <2>1, <2>3 DEF HeadRead
<1>9. ASSUME ParseSecond PROVE HeadRead'
  <2>1. /\ pc = "second" /\ pc' = "third" /\ first' = first
        /\ second' = GetStrElement(bb).text /\ bb' = GetStrElement(bb).rest
    BY <1>9 DEF ParseSecond
  <2>2. SUFFICES ASSUME Without(first \o GetStrElement(bb).text, Eol)
                 PROVE  NoEolTo(bb', bb'.rpos)
    BY <2>1 DEF HeadRead
  <2>3. Without(first, Eol) /\ Without(GetStrElement(bb).text, Eol)
    BY <1>1, <1>2, <2>2, WithoutBoth
  <2>4. NoEolTo(bb, bb.rpos)
    BY <2>1, <2>3 DEF HeadRead
  <2> QED
    BY <1>1, <2>1, <2>3, <2>4, ElementRead
<1>10. ASSUME ParseThird PROVE HeadRead'
  <2>1. /\ pc = "third" /\ pc' \in {"refused", "headers"}
        /\ first' = first /\ second' = second
        /\ bb' = GetLine(bb).rest /\ bb'.buf = bb.buf
    BY <1>2, <1>10 DEF ParseThird
  <2>2. ASSUME NEW p \in BlankLines(bb.buf), HeadAt(p) PROVE AtLine(bb', p)
    <3>1. FirstBlank(bb, p) /\ NoEolTo(bb, bb.rpos)
      BY <2>1, <2>2 DEF HeadAt, HeadRead
    <3> QED
      BY <1>1, <1>3, <2>1, <3>1, StartLineEnds
  <2>3. \A p : HeadAt(p)' <=> HeadAt(p)
    BY <2>1 DEF HeadAt, FirstBlank, Uncontinued
  <2>4. \A p \in BlankLines(bb'.buf) : HeadAt(p)' => AtLine(bb', p)
    BY <2>1, <2>2, <2>3
  <2> QED
    BY <2>1, <2>4 DEF HeadRead
<1>11. ASSUME ParseHeader PROVE HeadRead'
  <2> DEFINE line == GetLine(bb)
  <2>1. /\ pc = "headers" /\ first' = first /\ second' = second
        /\ bb' = line.rest /\ bb'.buf = bb.buf
    BY <1>2, <1>11 DEF ParseHeader
  <2>2. \/ line.text = <<>> /\ pc' = AfterHeaders
        \/ EndsInComma(line.text) /\ pc' = "continued"
        \/ line.text # <<>> /\ ~EndsInComma(line.text) /\ AddHeader(line.text)
    BY <1>11 DEF ParseHeader
  <2>3. AfterHeaders \in {"parsed", "body"}
    BY DEF AfterHeaders
  <2>4. AddHeader(line.text) => pc' \in {"thrown", "headers"}
    BY <1>1, <1>2, AddHeaderType
  <2>5. pc' \notin {"first", "second", "third"}
    BY <2>2, <2>3, <2>4
  <2>6. ASSUME NEW p \in BlankLines(bb.buf), HeadAt(p)
        PROVE  /\ pc' # "continued"
               /\ pc' = "headers" => AtLine(bb', p)
               /\ pc' \in {"body", "parsed"} => bb'.rpos = p
    <3>1. AtLine(bb, p)
      BY <2>1, <2>6 DEF HeadRead
    <3>2. \/ line.text = <<>> /\ line.rest.rpos = p
          \/ line.text # <<>> /\ ~EndsInComma(line.text) /\ AtLine(line.rest, p)
      BY <1>1, <1>3, <2>6, <3>1, HeaderLineEnds
    <3>3. ~EndsInComma(<<>>)
      BY DEF EndsInComma
    <3> HIDE DEF line
    <3> QED
      BY <2>1, <2>2, <2>3, <2>4, <3>2, <3>3
  <2>7. \A p : HeadAt(p)' <=> HeadAt(p)
    BY <2>1 DEF HeadAt, FirstBlank, Uncontinued
  <2> HIDE DEF line
  <2>8. \A p \in BlankLines(bb'.buf) : HeadAt(p)' =>
          /\ pc' # "continued"
          /\ pc' = "headers" => AtLine(bb', p)
          /\ pc' \in {"body", "parsed"} => bb'.rpos = p
    BY <2>1, <2>6, <2>7
  <2> QED
    BY <2>5, <2>8 DEF HeadRead
<1>12. ASSUME ContinueHeader PROVE HeadRead'
  <2>1. /\ pc = "continued" /\ first' = first /\ second' = second /\ bb'.buf = bb.buf
    BY <1>2, <1>12 DEF ContinueHeader
  <2>2. pc' \in {"continued", "thrown", "headers"}
    <3>1. hline \o GetLine(bb).text \in Text
      BY <1>2, TwoTexts DEF Parsing, TypeOK
    <3>2. AddHeader(hline \o GetLine(bb).text) => pc' \in {"thrown", "headers"}
      BY <1>1, <3>1, AddHeaderType
    <3>3. pc' = pc \/ AddHeader(hline \o GetLine(bb).text)
      BY <1>12 DEF ContinueHeader
    <3> QED
      BY <2>1, <3>2, <3>3
  <2>3. \A p : HeadAt(p)' <=> HeadAt(p)
    BY <2>1 DEF HeadAt, FirstBlank, Uncontinued
  <2>4. \A p \in BlankLines(bb'.buf) : ~HeadAt(p)'
    BY <2>1, <2>3 DEF HeadRead
  <2> QED
    BY <2>2, <2>4 DEF HeadRead
<1>13. ASSUME ParseBody PROVE HeadRead'
  <2>1. /\ pc = "body" /\ pc' \in {"parsed", "refused", "crashed"}
        /\ first' = first /\ second' = second /\ bb' = bb
    BY <1>13 DEF ParseBody
  <2>2. \A p : HeadAt(p)' <=> HeadAt(p)
    BY <2>1 DEF HeadAt, FirstBlank, Uncontinued
  <2>3. \A p \in BlankLines(bb'.buf) : HeadAt(p)' => bb'.rpos = p
    BY <2>1, <2>2 DEF HeadRead
  <2> QED
    BY <2>1, <2>3 DEF HeadRead
<1>14. ASSUME Terminated PROVE HeadRead'
  BY <1>14 DEF Terminated, vars, HeadRead, HeadAt, FirstBlank, Uncontinued
<1> QED
  BY <1>6, <1>7, <1>8, <1>9, <1>10, <1>11, <1>12, <1>13, <1>14 DEF Next, ParseStep

\* A head is a first blank line with regular lines before it.
LEMMA RegularHead ==
  ASSUME bb \in Buffer, BlankLines(bb.buf) # {}, Regular(Min(BlankLines(bb.buf)))
  PROVE  \E p \in Nat : /\ p = Min(BlankLines(bb.buf)) /\ FirstBlank(bb, p)
                        /\ Without(first \o second, Eol)
<1>1. BlankLines(bb.buf) \subseteq Nat
  BY BufferNumbers DEF BlankLines, Size
<1>2. PICK p \in BlankLines(bb.buf) : p = Min(BlankLines(bb.buf))
                                      /\ \A n \in BlankLines(bb.buf) : p <= n
  BY <1>1, MinOf
<1>3. p \in Nat /\ Regular(p)
  BY <1>1, <1>2
<1> QED
  BY <1>2, <1>3 DEF FirstBlank, Regular

\* Whatever arrives, parseHeaders() stops at the blank line that ends the head, and
\* takes no byte of the body for a header, unless a line of the head ends in a
\* comma.
THEOREM BlankLineIsKept == Spec => []BlankLineKept
<1>1. Init => HeadRead
  BY DEF Init, HeadRead
<1>2. Parsing /\ HeadRead /\ [Next]_vars => HeadRead'
  <2>1. ASSUME HeadRead, UNCHANGED vars PROVE HeadRead'
    BY <2>1 DEF vars, HeadRead, HeadAt, FirstBlank, Uncontinued
  <2> QED
    BY <2>1, HeadReadStep
<1>3. Parsing /\ HeadRead => BlankLineKept
  <2> SUFFICES ASSUME Parsing, HeadRead,
                      pc \in {"body", "parsed"}, BlankLines(bb.buf) # {},
                      Regular(Min(BlankLines(bb.buf))), Uncontinued(Min(BlankLines(bb.buf)))
               PROVE  bb.rpos = Min(BlankLines(bb.buf))
    BY DEF BlankLineKept
  <2>1. bb \in Buffer
    BY DEF Parsing, TypeOK
  <2>2. PICK p \in Nat : /\ p = Min(BlankLines(bb.buf)) /\ FirstBlank(bb, p)
                         /\ Without(first \o second, Eol)
    BY <2>1, RegularHead
  <2>3. p \in BlankLines(bb.buf) /\ HeadAt(p)
    BY <2>2 DEF FirstBlank, HeadAt
  <2> QED
    BY <2>2, <2>3 DEF HeadRead
<1> QED
  BY <1>1, <1>2, <1>3, ParsingAlways, PTL DEF Spec
----------------------------------------------------------------------------
(* parse() undoes create() *)

\* The text s is in the bytes w, from position n on.
Holds(w, n, s) == n + Len(s) <= Len(w) /\ \A k \in 1..Len(s) : w[n + k] = s[k]

\* Bytes hold themselves.
LEMMA HoldsSelf ==
  ASSUME NEW w \in Text
  PROVE  Holds(w, 0, w)
BY DEF Holds, Text

\* Where two texts are in a row, each is in its place.
LEMMA HoldsParts ==
  ASSUME NEW w \in Text, NEW n \in Nat, NEW s \in Text, NEW t \in Text, Holds(w, n, s \o t)
  PROVE  Holds(w, n, s) /\ Holds(w, n + Len(s), t)
<1>1. /\ Len(w) \in Nat /\ Len(s) \in Nat /\ Len(t) \in Nat
      /\ Len(s \o t) = Len(s) + Len(t)
  BY TwoTexts DEF Text
<1>2. \A k \in 1..Len(s) + Len(t) : (s \o t)[k] = IF k <= Len(s) THEN s[k] ELSE t[k - Len(s)]
  BY TwoIndex DEF Text
<1>3. n + Len(s) + Len(t) <= Len(w) /\ \A k \in 1..Len(s) + Len(t) : w[n + k] = (s \o t)[k]
  BY <1>1 DEF Holds
<1>4. ASSUME NEW k \in 1..Len(s) PROVE w[n + k] = s[k]
  <2>1. k \in 1..Len(s) + Len(t) /\ k <= Len(s)
    BY <1>1
  <2> QED
    BY <1>2, <1>3, <2>1
<1>5. ASSUME NEW k \in 1..Len(t) PROVE w[n + Len(s) + k] = t[k]
  <2>1. PICK j \in Nat : j = Len(s) + k
    BY <1>1
  <2>2. /\ j \in 1..Len(s) + Len(t) /\ ~(j <= Len(s)) /\ j - Len(s) = k
        /\ n + Len(s) + k = n + j
    BY <1>1, <2>1
  <2>3. w[n + j] = (s \o t)[j] /\ (s \o t)[j] = t[j - Len(s)]
    BY <1>2, <1>3, <2>2
  <2> QED
    BY <2>2, <2>3
<1>6. n + Len(s) <= Len(w) /\ n + Len(s) + Len(t) <= Len(w)
  BY <1>1, <1>3
<1> QED
  BY <1>4, <1>5, <1>6 DEF Holds

\* A text that is in its place is a piece of the bytes.
LEMMA HeldPiece ==
  ASSUME NEW w \in Text, NEW n \in Nat, NEW s \in Text, Holds(w, n, s)
  PROVE  SubSeq(w, n + 1, n + Len(s)) = s
<1>1. w \in Seq(Byte) /\ s \in Seq(Byte) /\ Len(s) \in Nat /\ n + Len(s) <= Len(w)
  BY DEF Holds, Text
<1>2. PICK lo \in Nat \ {0}, hi \in Nat : lo = n + 1 /\ hi = n + Len(s) /\ hi <= Len(w)
  BY <1>1
<1>3. PICK u \in Seq(Byte) : /\ u = SubSeq(w, lo, hi)
                             /\ Len(u) = IF lo <= hi THEN hi - lo + 1 ELSE 0
                             /\ \A k \in 1..hi - lo + 1 : u[k] = w[lo + k - 1]
  <2>1. w \in Seq(Byte) /\ hi <= Len(w)
    BY <1>1, <1>2
  <2> QED
    BY <2>1, PieceOf
<1>4. Len(u) = Len(s) /\ hi - lo + 1 = Len(s)
  BY <1>1, <1>2, <1>3
<1>5. ASSUME NEW k \in 1..Len(u) PROVE u[k] = s[k]
  <2>1. k \in 1..hi - lo + 1 /\ k \in 1..Len(s) /\ lo + k - 1 = n + k
    BY <1>1, <1>2, <1>4
  <2>2. u[k] = w[lo + k - 1] /\ w[n + k] = s[k]
    BY <1>3, <2>1 DEF Holds
  <2> QED
    BY <2>1, <2>2
<1>6. u = s
  BY <1>1, <1>4, <1>5, SeqEqual
<1> QED
  BY <1>2, <1>3, <1>6

\* getStrElement() returns a word that is at the read position, with a space behind
\* it and none in it.
LEMMA HeldWord ==
  ASSUME NEW r \in Buffer, NEW word \in Text,
         Holds(r.buf, r.rpos, word), Holds(r.buf, r.rpos + Len(word), <<SP>>),
         Without(word, {SP, Zero})
  PROVE  /\ GetStrElement(r).text = word
         /\ GetStrElement(r).rest.buf = r.buf
         /\ GetStrElement(r).rest.rpos = r.rpos + Len(word) + 1
<1>1. /\ r.buf \in Text /\ Size(r) = Len(r.buf) /\ Size(r) \in Nat /\ r.rpos \in Nat
      /\ Len(word) \in Nat /\ DOMAIN word = 1..Len(word)
  BY BufferNumbers DEF Buffer, Size, Text
<1>2. PICK n \in Nat, m \in Nat : n = r.rpos /\ m = n + Len(word)
  BY <1>1
<1>3. m + 1 <= Size(r) /\ r.buf[m + 1] = SP
  BY <1>1, <1>2 DEF Holds
<1>4. ASSUME NEW i \in n..m - 1 PROVE r.buf[i + 1] # SP /\ r.buf[i + 1] # Zero
  <2>1. PICK k \in 1..Len(word) : n + k = i + 1
    <3>1. i + 1 - n \in 1..Len(word) /\ n + (i + 1 - n) = i + 1
      BY <1>1, <1>2, SMTT(30)
    <3> QED
      BY <3>1
  <2>2. r.buf[n + k] = word[k]
    BY <1>2 DEF Holds
  <2> QED
    BY <1>1, <2>1, <2>2 DEF Without
<1>5. m \in Hits(r, SP, r.rpos)
  <2>1. m \in r.rpos..Size(r) - 1
    BY <1>1, <1>2, <1>3
  <2>2. ASSUME SP # Zero, NEW j \in r.rpos..m PROVE r.buf[j + 1] # Zero
    <3>1. j = m \/ j \in n..m - 1
      BY <1>2
    <3> QED
      BY <1>3, <1>4, <2>2, <3>1
  <2> QED
    BY <1>3, <2>1, <2>2 DEF Hits
<1>6. ASSUME NEW i \in Hits(r, SP, r.rpos) PROVE m <= i
  <2>1. i \in n..Size(r) - 1 /\ r.buf[i + 1] = SP
    BY <1>2 DEF Hits
  <2>2. i \notin n..m - 1
    BY <1>4, <2>1
  <2> QED
    BY <1>1, <2>1, <2>2
<1>7. Min(Hits(r, SP, r.rpos)) = m
  <2>1. Hits(r, SP, r.rpos) \subseteq Nat
    BY <1>1 DEF Hits
  <2>2. PICK e \in Hits(r, SP, r.rpos) : e = Min(Hits(r, SP, r.rpos))
                                        /\ \A i \in Hits(r, SP, r.rpos) : e <= i
    BY <1>5, <2>1, MinOf
  <2>3. e <= m /\ m <= e /\ e \in Nat
    BY <1>5, <1>6, <2>1, <2>2
  <2> QED
    BY <2>2, <2>3
<1>8. /\ GetStrElement(r).text = SubSeq(r.buf, r.rpos + 1, m)
      /\ GetStrElement(r).rest = SetReadPos(r, m + 1)
  BY <1>5, <1>7, ElementIs
<1>9. SubSeq(r.buf, n + 1, n + Len(word)) = word
  BY <1>1, <1>2, HeldPiece
<1>10. PICK q \in Nat : q = m + 1
  OBVIOUS
<1>11. SetReadPos(r, q).buf = r.buf /\ SetReadPos(r, q).rpos = q
  BY AtPosition
<1> QED
  BY <1>2, <1>8, <1>9, <1>10, <1>11

\* getLine() returns a line that is at the read position, with a CR LF behind it.
LEMMA HeldLine ==
  ASSUME NEW r \in Buffer, NEW line \in Text,
         Holds(r.buf, r.rpos, line), Holds(r.buf, r.rpos + Len(line), <<CR, LF>>),
         Without(line, Eol)
  PROVE  /\ GetLine(r).text = line
         /\ GetLine(r).rest.buf = r.buf
         /\ GetLine(r).rest.rpos = r.rpos + Len(line) + 2
<1>1. /\ r.buf \in Text /\ Size(r) = Len(r.buf) /\ Size(r) \in Nat /\ r.rpos \in Nat
      /\ Len(line) \in Nat /\ DOMAIN line = 1..Len(line)
  BY BufferNumbers DEF Buffer, Size, Text
<1>2. PICK n \in Nat, m \in Nat : n = r.rpos /\ m = n + Len(line)
  BY <1>1
<1>3. PICK e \in Nat : e = m + 1 /\ e + 1 <= Size(r) /\ r.buf[e] = CR /\ r.buf[e + 1] = LF
  <2>1. Len(<<CR, LF>>) = 2 /\ <<CR, LF>>[1] = CR /\ <<CR, LF>>[2] = LF
    OBVIOUS
  <2>2. m + 2 <= Size(r) /\ r.buf[m + 1] = CR /\ r.buf[m + 2] = LF
    BY <1>1, <1>2, <2>1 DEF Holds
  <2>3. m + 1 \in Nat /\ (m + 1) + 1 = m + 2
    OBVIOUS
  <2> QED
    BY <2>2, <2>3
<1>4. ASSUME NEW i \in n + 1..m PROVE r.buf[i] \notin Eol
  <2>1. PICK k \in 1..Len(line) : n + k = i
    <3>1. i - n \in 1..Len(line) /\ n + (i - n) = i
      BY <1>1, <1>2
    <3> QED
      BY <3>1
  <2>2. r.buf[n + k] = line[k]
    BY <1>2 DEF Holds
  <2> QED
    BY <1>1, <2>1, <2>2 DEF Without
<1>5. EndsAt(r, e) /\ PastEol(r, e) = e + 1
  <2>0. n <= m /\ e + 1 <= Size(r) /\ e = m + 1
    BY <1>1, <1>2, <1>3
  <2>1. e \in r.rpos + 1..Size(r) /\ e - 1 = m /\ e < Size(r)
    <3>1. Size(r) \in Nat
      BY <1>1
    <3> QED
      BY <1>2, <2>0, <3>1, SMTT(30)
  <2>2. r.buf[e] \in Eol /\ r.buf[e + 1] \in Eol
    BY <1>3 DEF Eol
  <2> QED
    BY <1>2, <1>4, <2>1, <2>2 DEF EndsAt, PastEol
<1>6. PICK d \in Nat : /\ EndsAt(r, d)
                       /\ GetLine(r).text = SubSeq(r.buf, r.rpos + 1, d - 1)
                       /\ GetLine(r).rest = SetReadPos(r, PastEol(r, d))
  <2>1. e \in r.rpos + 1..Size(r) /\ r.buf[e] \in Eol
    BY <1>5 DEF EndsAt
  <2> QED
    BY <2>1, GetLineIs
<1>7. d = e
  BY <1>5, <1>6, OneEnd
<1>8. SubSeq(r.buf, n + 1, n + Len(line)) = line
  BY <1>1, <1>2, HeldPiece
<1>9. PICK q \in Nat : q = e + 1 /\ d - 1 = m
  BY <1>3, <1>7
<1>10. SetReadPos(r, q).buf = r.buf /\ SetReadPos(r, q).rpos = q
  BY AtPosition
<1>11. q = n + Len(line) + 2
  BY <1>1, <1>2, <1>3, <1>9
<1> QED
  BY <1>2, <1>5, <1>6, <1>7, <1>8, <1>9, <1>10, <1>11

\* Where the headers of a message begin.
HeadersFrom(o) == Len(StartLine(o)) + 2

\* The parts of a message are in its bytes one after the other.
LEMMA MessageHolds ==
  ASSUME NEW o \in Message
  PROVE  \E a, b, c \in Nat :
           /\ a = Len(o.first) /\ b = Len(o.second) /\ c = Len(o.third)
           /\ Holds(AllOf(o), 0, o.first) /\ Holds(AllOf(o), a, <<SP>>)
           /\ Holds(AllOf(o), a + 1, o.second) /\ Holds(AllOf(o), a + 1 + b, <<SP>>)
           /\ Holds(AllOf(o), a + 1 + b + 1, o.third)
           /\ Holds(AllOf(o), a + 1 + b + 1 + c, <<CR, LF>>)
           /\ HeadersFrom(o) = a + 1 + b + 1 + c + 2
           /\ Holds(AllOf(o), HeadersFrom(o), HeaderBlock(o.headers))
           /\ Holds(AllOf(o), HeadersFrom(o) + Len(HeaderBlock(o.headers)), o.data)
           /\ Len(AllOf(o)) = HeadersFrom(o) + Len(HeaderBlock(o.headers)) + Len(o.data)
<1>1. /\ o.first \in Text /\ o.second \in Text /\ o.third \in Text /\ o.data \in Text
      /\ HeaderBlock(o.headers) \in Text /\ AllOf(o) \in Text
      /\ <<SP>> \in Text /\ Len(<<SP>>) = 1 /\ <<CR, LF>> \in Text /\ Len(<<CR, LF>>) = 2
  BY MessageTexts, MessageBytes
<1>0. PICK a \in Nat, b \in Nat, c \in Nat :
        a = Len(o.first) /\ b = Len(o.second) /\ c = Len(o.third)
  BY <1>1 DEF Text
<1>2. PICK w \in Text, x \in Text, y \in Text, z \in Text, d \in Text,
           sp \in Text, nl \in Text, hb \in Text :
        /\ w = AllOf(o) /\ x = o.first /\ y = o.second /\ z = o.third /\ d = o.data
        /\ sp = <<SP>> /\ nl = <<CR, LF>> /\ hb = HeaderBlock(o.headers)
  BY <1>1
<1>3. Len(x) = a /\ Len(y) = b /\ Len(z) = c /\ Len(sp) = 1 /\ Len(nl) = 2
  BY <1>0, <1>1, <1>2
<1>4. /\ x \o sp \in Text
      /\ x \o sp \o y \in Text
      /\ x \o sp \o y \o sp \in Text
      /\ x \o sp \o y \o sp \o z \in Text
      /\ x \o sp \o y \o sp \o z \o nl \in Text
      /\ x \o sp \o y \o sp \o z \o nl \o hb \in Text
      /\ x \o sp \o y \o sp \o z \o nl \o hb \o d \in Text
  BY TwoTexts
<1>5. PICK s1 \in Text, s2 \in Text, s3 \in Text, s4 \in Text, s5 \in Text, s6 \in Text :
        /\ s1 = x \o sp /\ s2 = s1 \o y /\ s3 = s2 \o sp /\ s4 = s3 \o z
        /\ s5 = s4 \o nl /\ s6 = s5 \o hb
  BY <1>4
<1>6. /\ Len(s1) = Len(x) + Len(sp) /\ Len(s2) = Len(s1) + Len(y) /\ Len(s3) = Len(s2) + Len(sp)
      /\ Len(s4) = Len(s3) + Len(z) /\ Len(s5) = Len(s4) + Len(nl) /\ Len(s6) = Len(s5) + Len(hb)
      /\ Len(s6 \o d) = Len(s6) + Len(d) /\ Len(hb) \in Nat /\ Len(d) \in Nat
  BY <1>5, TwoTexts
<1>7. StartLine(o) = s4 /\ w = s6 \o d
  BY <1>2, <1>5 DEF StartLine, AllOf
<1>8. HeadersFrom(o) = Len(s4) + 2
  BY <1>7 DEF HeadersFrom
<1>9. /\ Len(s1) = a + 1 /\ Len(s2) = a + 1 + b /\ Len(s3) = a + 1 + b + 1
      /\ Len(s4) = a + 1 + b + 1 + c /\ Len(s5) = HeadersFrom(o)
      /\ Len(s6) = HeadersFrom(o) + Len(hb) /\ Len(w) = HeadersFrom(o) + Len(hb) + Len(d)
      /\ HeadersFrom(o) = a + 1 + b + 1 + c + 2
  BY <1>3, <1>6, <1>7, <1>8
<1>10. \A s, t \in Text : Holds(w, 0, s \o t) => Holds(w, 0, s) /\ Holds(w, Len(s), t)
  <2> SUFFICES ASSUME NEW s \in Text, NEW t \in Text, Holds(w, 0, s \o t)
               PROVE  Holds(w, 0, s) /\ Holds(w, Len(s), t)
    OBVIOUS
  <2>1. 0 + Len(s) = Len(s)
    BY TwoTexts
  <2>2. Holds(w, 0, s) /\ Holds(w, 0 + Len(s), t)
    BY HoldsParts
  <2> QED
    BY <2>1, <2>2
<1>11. Holds(w, 0, s6 \o d)
  BY <1>7, HoldsSelf
<1>12. Holds(w, 0, s6) /\ Holds(w, Len(s6), d)
  BY <1>10, <1>11
<1>13. Holds(w, 0, s5) /\ Holds(w, Len(s5), hb)
  BY <1>5, <1>10, <1>12
<1>14. Holds(w, 0, s4) /\ Holds(w, Len(s4), nl)
  BY <1>5, <1>10, <1>13
<1>15. Holds(w, 0, s3) /\ Holds(w, Len(s3), z)
  BY <1>5, <1>10, <1>14
<1>16. Holds(w, 0, s2) /\ Holds(w, Len(s2), sp)
  BY <1>5, <1>10, <1>15
<1>17. Holds(w, 0, s1) /\ Holds(w, Len(s1), y)
  BY <1>5, <1>10, <1>16
<1>18. Holds(w, 0, x) /\ Holds(w, Len(x), sp)
  BY <1>5, <1>10, <1>17
<1> QED
  BY <1>0, <1>2, <1>3, <1>9, <1>12, <1>13, <1>14, <1>15, <1>16, <1>17, <1>18

\* The lines of the headers are in the bytes one after the other, then the blank one.
LEMMA HeadersHold ==
  ASSUME NEW w \in Text, NEW h \in Nat, NEW fs \in Seq(Field), Holds(w, h, HeaderBlock(fs))
  PROVE  LET lines == HeaderLinesOf(fs) IN
         /\ lines[0] = <<>> /\ \A k \in 0..Len(fs) : lines[k] \in Text
         /\ Len(HeaderBlock(fs)) = Len(lines[Len(fs)]) + 2
         /\ Holds(w, h + Len(lines[Len(fs)]), <<CR, LF>>)
         /\ \A k \in 0..Len(fs) - 1 :
              /\ Holds(w, h + Len(lines[k]), HeaderLine(fs[k + 1]))
              /\ Holds(w, h + Len(lines[k]) + Len(HeaderLine(fs[k + 1])), <<CR, LF>>)
              /\ Len(lines[k + 1]) = Len(lines[k]) + Len(HeaderLine(fs[k + 1])) + 2
<1> DEFINE n == Len(fs)
<1>1. n \in Nat /\ <<CR, LF>> \in Text /\ Len(<<CR, LF>>) = 2
  BY MessageBytes
<1>2. PICK lines : lines = HeaderLinesOf(fs) /\ LinesOf(fs, lines)
  BY HeaderLinesAre
<1>3. /\ lines[0] = <<>>
      /\ \A k \in 0..n : lines[k] \in Text
      /\ \A k \in 1..n : lines[k] = lines[k - 1] \o HeaderLine(fs[k]) \o <<CR, LF>>
  BY <1>2 DEF LinesOf
<1> HIDE DEF n
<1>4. lines[n] \in Text
  BY <1>1, <1>3
<1>5. PICK nl \in Text : nl = <<CR, LF>> /\ Len(nl) = 2
  BY <1>1
<1>6. /\ HeaderBlock(fs) = lines[n] \o nl /\ Len(lines[n] \o nl) = Len(lines[n]) + 2
  BY <1>2, <1>4, <1>5, TwoTexts DEF HeaderBlock, n
<1>7. Holds(w, h, lines[n]) /\ Holds(w, h + Len(lines[n]), nl)
  BY <1>4, <1>6, HoldsParts
<1>8. ASSUME NEW k \in 1..n, Holds(w, h, lines[k])
      PROVE  /\ Holds(w, h, lines[k - 1])
             /\ Holds(w, h + Len(lines[k - 1]), HeaderLine(fs[k]))
             /\ Holds(w, h + Len(lines[k - 1]) + Len(HeaderLine(fs[k])), nl)
             /\ Len(lines[k]) = Len(lines[k - 1]) + Len(HeaderLine(fs[k])) + 2
  <2>1. k - 1 \in 0..n /\ k \in 1..Len(fs)
    BY <1>1 DEF n
  <2>2. PICK s \in Text, t \in Text : s = lines[k - 1] /\ t = HeaderLine(fs[k])
    BY <1>3, <2>1, HeaderText, ElementOfSeq
  <2>3. /\ s \o t \in Text /\ Len(s \o t) = Len(s) + Len(t) /\ Len(s) \in Nat /\ Len(t) \in Nat
        /\ Len(s \o t \o nl) = Len(s \o t) + 2
    BY <1>5, TwoTexts
  <2>4. lines[k] = s \o t \o nl
    BY <1>3, <1>5, <2>2
  <2>5. Holds(w, h, s \o t) /\ Holds(w, h + Len(s \o t), nl)
    BY <1>8, <2>3, <2>4, HoldsParts
  <2>6. Holds(w, h, s) /\ Holds(w, h + Len(s), t)
    BY <2>5, HoldsParts
  <2>7. h + Len(s \o t) = h + Len(s) + Len(t) /\ Len(lines[k]) = Len(s) + Len(t) + 2
    BY <2>3, <2>4
  <2> QED
    BY <2>2, <2>5, <2>6, <2>7
<1>9. \A k \in 0..n : Holds(w, h, lines[k])
  <2> DEFINE Down == {j \in Nat : j <= n => Holds(w, h, lines[n - j])}
  <2>1. 0 \in Down
    <3>1. n - 0 = n
      BY <1>1
    <3> QED
      BY <1>7, <3>1
  <2>2. ASSUME NEW j \in Nat, j \in Down PROVE j + 1 \in Down
    <3> SUFFICES ASSUME j + 1 <= n PROVE Holds(w, h, lines[n - (j + 1)])
      OBVIOUS
    <3>1. n - j \in 1..n /\ (n - j) - 1 = n - (j + 1) /\ Holds(w, h, lines[n - j])
      BY <1>1, <2>2
    <3>2. Holds(w, h, lines[(n - j) - 1])
      BY <1>8, <3>1
    <3> QED
      BY <3>1, <3>2
  <2> HIDE DEF Down
  <2>3. \A j \in Nat : j \in Down
    BY <2>1, <2>2, InductionOverSet
  <2> SUFFICES ASSUME NEW k \in 0..n PROVE Holds(w, h, lines[k])
    OBVIOUS
  <2>4. n - k \in Nat /\ n - k <= n /\ n - (n - k) = k
    BY <1>1
  <2> QED
    BY <2>3, <2>4 DEF Down
<1>10. ASSUME NEW k \in 0..n - 1
       PROVE  /\ Holds(w, h + Len(lines[k]), HeaderLine(fs[k + 1]))
              /\ Holds(w, h + Len(lines[k]) + Len(HeaderLine(fs[k + 1])), nl)
              /\ Len(lines[k + 1]) = Len(lines[k]) + Len(HeaderLine(fs[k + 1])) + 2
  <2>1. PICK j \in 1..n : j = k + 1 /\ j - 1 = k
    BY <1>1
  <2>2. j \in 0..n
    BY <1>1
  <2> QED
    BY <1>8, <1>9, <2>1, <2>2
<1> QED
  BY <1>2, <1>3, <1>5, <1>6, <1>7, <1>10 DEF n

\* The line of a header that can get through, as addHeader() takes it apart again.
LEMMA HeaderParsed ==
  ASSUME NEW f \in Field, Without(f[1], Eol \cup {Colon}), Without(f[2], Eol),
         f[2] # <<>>, f[2][1] # SP, f[2][Len(f[2])] # Comma
  PROVE  LET line == HeaderLine(f) IN
         /\ line # <<>> /\ ~EndsInComma(line) /\ Without(line, Eol)
         /\ Colons(line) # {} /\ ~Throws(line)
         /\ Key(line) = f[1] /\ Trimmed(Value(line)) = f[2]
<1>1. PICK key \in Text, value \in Text, line \in Text :
        key = f[1] /\ value = f[2] /\ line = HeaderLine(f)
  BY HeaderText
<1>2. PICK cs \in Text : cs = <<Colon, SP>> /\ Len(cs) = 2 /\ cs[1] = Colon /\ cs[2] = SP
  BY MessageBytes
<1>3. PICK a \in Nat, b \in Nat : a = Len(key) /\ b = Len(value) /\ b >= 1
  <2>1. Len(value) # 0
    BY <1>1, EmptySeq DEF Text
  <2> QED
    BY <2>1 DEF Text
<1>4. PICK kc \in Text : /\ kc = key \o cs /\ Len(kc) = a + 2
                         /\ \A i \in 1..a + 2 : kc[i] = IF i <= a THEN key[i] ELSE cs[i - a]
  <2>1. /\ key \o cs \in Text
        /\ \A i \in 1..Len(key) + Len(cs) :
             (key \o cs)[i] = IF i <= Len(key) THEN key[i] ELSE cs[i - Len(key)]
        /\ Len(key \o cs) = Len(key) + Len(cs)
    BY TwoIndex DEF Text
  <2> QED
    BY <1>2, <1>3, <2>1
<1>5. /\ Len(line) = a + 2 + b
      /\ \A i \in 1..a + 2 + b : line[i] = IF i <= a + 2 THEN kc[i] ELSE value[i - (a + 2)]
  <2>1. line = kc \o value
    BY <1>1, <1>2, <1>4 DEF HeaderLine
  <2>2. /\ Len(kc \o value) = Len(kc) + Len(value)
        /\ \A i \in 1..Len(kc) + Len(value) :
             (kc \o value)[i] = IF i <= Len(kc) THEN kc[i] ELSE value[i - Len(kc)]
    BY TwoIndex DEF Text
  <2>3. Len(kc) = a + 2 /\ Len(value) = b
    BY <1>3, <1>4
  <2> QED
    BY <2>1, <2>2, <2>3
<1>6. /\ \A i \in 1..a : line[i] = key[i]
      /\ line[a + 1] = Colon /\ line[a + 2] = SP
      /\ \A i \in 1..b : line[a + 2 + i] = value[i]
  <2>1. ASSUME NEW i \in 1..a PROVE line[i] = key[i]
    <3>1. i \in 1..a + 2 + b /\ i \in 1..a + 2 /\ i <= a /\ i <= a + 2
      OBVIOUS
    <3> QED
      BY <1>4, <1>5, <3>1
  <2>2. line[a + 1] = Colon /\ line[a + 2] = SP
    <3>1. /\ a + 1 \in 1..a + 2 + b /\ a + 1 \in 1..a + 2 /\ ~(a + 1 <= a) /\ (a + 1) - a = 1
          /\ a + 2 \in 1..a + 2 + b /\ a + 2 \in 1..a + 2 /\ ~(a + 2 <= a) /\ (a + 2) - a = 2
          /\ a + 1 <= a + 2
      OBVIOUS
    <3>2. line[a + 1] = kc[a + 1] /\ line[a + 2] = kc[a + 2]
      BY <1>5, <3>1
    <3>3. kc[a + 1] = cs[1] /\ kc[a + 2] = cs[2]
      BY <1>4, <3>1
    <3> QED
      BY <1>2, <3>2, <3>3
  <2>3. ASSUME NEW i \in 1..b PROVE line[a + 2 + i] = value[i]
    <3>1. a + 2 + i \in 1..a + 2 + b /\ ~(a + 2 + i <= a + 2) /\ (a + 2 + i) - (a + 2) = i
      OBVIOUS
    <3> QED
      BY <1>5, <3>1
  <2> QED
    BY <2>1, <2>2, <2>3
<1>7. /\ DOMAIN line = 1..a + 2 + b /\ DOMAIN key = 1..a /\ DOMAIN value = 1..b
      /\ line \in Seq(Byte) /\ value \in Seq(Byte) /\ key \in Seq(Byte)
  BY <1>3, <1>5 DEF Text
<1>8. line # <<>> /\ ~EndsInComma(line) /\ Without(line, Eol)
  <2>1. line # <<>>
    BY <1>3, <1>5, EmptySeq
  <2>2. line[Len(line)] # Comma
    <3>1. b \in 1..b
      BY <1>3
    <3>2. line[a + 2 + b] = value[b]
      BY <1>6, <3>1
    <3> QED
      BY <1>1, <1>3, <1>5, <3>2
  <2>3. ASSUME NEW i \in DOMAIN line PROVE line[i] \notin Eol
    <3>1. \/ i \in 1..a \/ i = a + 1 \/ i = a + 2
          \/ \E j \in 1..b : i = a + 2 + j
      <4>1. i \in 1..a + 2 + b
        BY <1>7
      <4>2. i > a + 2 => i - (a + 2) \in 1..b /\ i = a + 2 + (i - (a + 2))
        BY <4>1
      <4> QED
        BY <4>1, <4>2, SMTT(30)
    <3>2. \A j \in 1..a : key[j] \notin Eol
      BY <1>1, <1>7 DEF Without
    <3>3. \A j \in 1..b : value[j] \notin Eol
      BY <1>1, <1>7 DEF Without
    <3>4. Colon \notin Eol /\ SP \notin Eol
      BY DEF Eol, CR, LF, SP, Colon
    <3> QED
      BY <1>6, <3>1, <3>2, <3>3, <3>4
  <2> QED
    BY <2>1, <2>2, <2>3 DEF EndsInComma, Without
<1>9. a + 1 \in Colons(line) /\ \A i \in Colons(line) : a + 1 <= i /\ i \in Nat
  <2>1. a + 1 \in DOMAIN line
    BY <1>7
  <2>2. ASSUME NEW i \in Colons(line) PROVE a + 1 <= i /\ i \in Nat
    <3>1. i \in 1..a + 2 + b /\ line[i] = Colon
      BY <1>7 DEF Colons
    <3>2. \A j \in 1..a : key[j] # Colon
      BY <1>1, <1>7 DEF Without
    <3>3. i \notin 1..a
      BY <1>6, <3>1, <3>2
    <3> QED
      BY <3>1, <3>3
  <2> QED
    BY <1>6, <2>1, <2>2 DEF Colons
<1>10. Min(Colons(line)) = a + 1
  <2>1. Colons(line) \subseteq Nat /\ Colons(line) # {}
    BY <1>9
  <2>2. PICK m \in Colons(line) : m = Min(Colons(line)) /\ \A i \in Colons(line) : m <= i
    BY <2>1, MinOf
  <2>3. m <= a + 1 /\ a + 1 <= m /\ m \in Nat
    BY <1>9, <2>2
  <2> QED
    BY <2>2, <2>3
<1>11. Key(line) = key
  <2>1. (a + 1) - 1 = a /\ a <= Len(line)
    BY <1>3, <1>5
  <2>2. Key(line) = SubSeq(line, 1, a)
    BY <1>10, <2>1 DEF Key
  <2>3. Holds(line, 0, key)
    <3>1. \A k \in 1..a : 0 + k = k
      OBVIOUS
    <3>2. 0 + a <= Len(line) /\ \A k \in 1..a : line[0 + k] = key[k]
      BY <1>6, <2>1, <3>1
    <3> QED
      BY <1>3, <3>2 DEF Holds
  <2>4. SubSeq(line, 0 + 1, 0 + Len(key)) = key
    BY <2>3, HeldPiece
  <2> QED
    BY <1>3, <2>2, <2>4
<1>12. PICK v \in Seq(Byte) : /\ v = Value(line) /\ Len(v) = b + 1
                              /\ v[1] = SP /\ \A i \in 1..b : v[i + 1] = value[i]
  <2>1. Value(line) = SubSeq(line, a + 2, a + 2 + b)
    <3>1. (a + 1) + 1 = a + 2
      OBVIOUS
    <3> QED
      BY <1>5, <1>10, <3>1 DEF Value
  <2>2. PICK lo \in Nat \ {0}, hi \in Nat : lo = a + 2 /\ hi = a + 2 + b /\ hi <= Len(line)
    BY <1>5
  <2>3. PICK v \in Seq(Byte) : /\ v = SubSeq(line, lo, hi)
                               /\ Len(v) = IF lo <= hi THEN hi - lo + 1 ELSE 0
                               /\ \A k \in 1..hi - lo + 1 : v[k] = line[lo + k - 1]
    <3>1. line \in Seq(Byte) /\ hi <= Len(line)
      BY <1>7, <2>2
    <3> DEFINE piece == SubSeq(line, lo, hi)
    <3>2. /\ piece \in Seq(Byte)
          /\ Len(piece) = IF lo <= hi THEN hi - lo + 1 ELSE 0
          /\ \A k \in 1..hi - lo + 1 : piece[k] = line[lo + k - 1]
      BY <3>1, PieceOf, Zenon
    <3> HIDE DEF piece
    <3>3. piece = SubSeq(line, lo, hi)
      BY DEF piece
    <3> QED
      BY <3>2, <3>3, Zenon
  <2>4. Len(v) = b + 1 /\ hi - lo + 1 = b + 1
    BY <2>2, <2>3
  <2>5. v[1] = SP
    <3>1. 1 \in 1..hi - lo + 1 /\ lo + 1 - 1 = a + 2
      BY <2>2, <2>4
    <3> QED
      BY <1>6, <2>3, <3>1
  <2>6. ASSUME NEW i \in 1..b PROVE v[i + 1] = value[i]
    <3>1. i + 1 \in 1..hi - lo + 1 /\ lo + (i + 1) - 1 = a + 2 + i
      BY <2>2, <2>4
    <3>2. v[i + 1] = line[lo + (i + 1) - 1]
      BY <2>3, <3>1
    <3> QED
      BY <1>6, <3>1, <3>2
  <2> QED
    BY <2>1, <2>2, <2>3, <2>4, <2>5, <2>6
<1>13. DOMAIN v = 1..b + 1 /\ v[2] # SP /\ 2 \in 1..b + 1
  <2>1. 1 \in 1..b /\ 1 + 1 = 2 /\ 2 \in 1..b + 1
    BY <1>3
  <2>2. v[2] = value[1]
    BY <1>12, <2>1
  <2> QED
    BY <1>1, <1>12, <2>1, <2>2
<1>14. ~Throws(line)
  BY <1>12, <1>13 DEF Throws
<1>15. Trimmed(v) = value
  <2> DEFINE start == {i \in DOMAIN v : v[i] # SP}
  <2>1. start \subseteq Nat /\ 2 \in start /\ \A i \in start : 2 <= i
    BY <1>12, <1>13
  <2>2. PICK m \in start : m = Min(start) /\ \A i \in start : m <= i
    BY <2>1, MinOf
  <2>3. m = 2
    <3>1. m \in Nat /\ m <= 2 /\ 2 <= m
      BY <2>1, <2>2
    <3> QED
      BY <3>1
  <2>4. Trimmed(v) = SubSeq(v, 2, Len(v))
    BY <2>2, <2>3 DEF Trimmed
  <2>5. Holds(v, 1, value)
    <3>1. \A k \in 1..Len(value) : v[1 + k] = value[k]
      BY <1>3, <1>12
    <3> QED
      BY <1>3, <1>12, <3>1 DEF Holds
  <2>6. SubSeq(v, 1 + 1, 1 + Len(value)) = value
    BY <2>5, HeldPiece DEF Text
  <2>7. 1 + 1 = 2 /\ 1 + Len(value) = Len(v)
    BY <1>3, <1>12
  <2> QED
    BY <2>4, <2>6, <2>7
<1> QED
  BY <1>1, <1>8, <1>9, <1>11, <1>12, <1>14, <1>15

\* The pairs of the first k headers.
FirstHeaders(o, k) == {o.headers[i] : i \in 1..k}

\* What parse() has read when it has come to a place in the bytes of a message that
\* can get through.
ReadUpTo(o) ==
  /\ bb.buf = AllOf(o) /\ kind = o.kind
  /\ kind = "request" => KnownMethod(o.first)
  /\ pc \in {"first", "second", "third", "headers", "body", "parsed"}
  /\ pc # "first" => first = o.first
  /\ pc \notin {"first", "second"} => second = o.second
  /\ pc \notin {"first", "second", "third"} => third = o.third
  /\ pc \in {"first", "second", "third"} => headers = {}
  /\ pc = "first" => bb.rpos = 0
  /\ pc = "second" => bb.rpos = Len(o.first) + 1
  /\ pc = "third" => bb.rpos = Len(o.first) + 1 + Len(o.second) + 1
  /\ pc = "headers" => \E k \in 0..Len(o.headers) :
       /\ bb.rpos = HeadersFrom(o) + Len(HeaderLinesOf(o.headers)[k])
       /\ headers = FirstHeaders(o, k)
  /\ pc \in {"body", "parsed"} =>
       /\ bb.rpos = HeadersFrom(o) + Len(HeaderBlock(o.headers))
       /\ headers = FirstHeaders(o, Len(o.headers))
  /\ pc = "parsed" /\ o.data # <<>> => dataLen = Len(o.data)

\* The reader undoes what create() did, part by part.
Undoing ==
  /\ pc = "new" => sent = NoObject /\ headers = {}
  /\ sent # NoObject /\ Transportable(sent) => ReadUpTo(sent)

\* What Transportable says of the parts.
LEMMA TransportableParts ==
  ASSUME NEW o \in Message, Transportable(o)
  PROVE  /\ Without(o.first, {SP, Zero}) /\ Without(o.second, {SP, Zero}) /\ Without(o.third, Eol)
         /\ \A i, j \in 1..Len(o.headers) : o.headers[i][1] = o.headers[j][1] => i = j
         /\ \A i \in 1..Len(o.headers) :
              /\ o.headers[i] \in Field
              /\ Without(o.headers[i][1], Eol \cup {Colon}) /\ Without(o.headers[i][2], Eol)
              /\ o.headers[i][2] # <<>> /\ o.headers[i][2][1] # SP
              /\ o.headers[i][2][Len(o.headers[i][2])] # Comma
              /\ o.headers[i][1] = <<"Content-Length">>
                   => o.headers[i][2][1] \in Numeral /\ Digit[o.headers[i][2][1]] = Len(o.data)
<1>1. /\ o.first \in Text /\ o.second \in Text /\ o.third \in Text
      /\ o.headers \in Seq(Field) /\ DOMAIN o.headers = 1..Len(o.headers)
  BY MessageTexts
<1>2. Without(o.first \o o.second, Eol \cup {SP, Zero}) /\ Without(o.third, Eol)
  BY DEF Transportable
<1>3. Without(o.first, Eol \cup {SP, Zero}) /\ Without(o.second, Eol \cup {SP, Zero})
  BY <1>1, <1>2, WithoutBoth
<1>4. Without(o.first, {SP, Zero}) /\ Without(o.second, {SP, Zero})
  BY <1>3 DEF Without
<1>5. \A i, j \in 1..Len(o.headers) : o.headers[i][1] = o.headers[j][1] => i = j
  BY <1>1 DEF Transportable
<1>6. ASSUME NEW i \in 1..Len(o.headers)
      PROVE  /\ o.headers[i] \in Field
             /\ Without(o.headers[i][1], Eol \cup {Colon}) /\ Without(o.headers[i][2], Eol)
             /\ o.headers[i][2] # <<>> /\ o.headers[i][2][1] # SP
             /\ o.headers[i][2][Len(o.headers[i][2])] # Comma
             /\ o.headers[i][1] = <<"Content-Length">>
                  => o.headers[i][2][1] \in Numeral /\ Digit[o.headers[i][2][1]] = Len(o.data)
  <2>1. o.headers[i] \in Field
    BY <1>1, ElementOfSeq
  <2> QED
    BY <1>1, <2>1, Zenon DEF Transportable
<1> QED
  BY <1>2, <1>4, <1>5, <1>6

\* The words of the start line are read.
LEMMA UndoStartLine ==
  ASSUME NEW o \in Message, bb \in Buffer, Transportable(o), ReadUpTo(o),
         ParseFirst \/ ParseSecond \/ ParseThird
  PROVE  ReadUpTo(o)'
<1>0. PICK w \in Text : w = AllOf(o) /\ w = bb.buf
  BY MessageTexts DEF ReadUpTo
<1>1. PICK a \in Nat, b \in Nat, c \in Nat :
        /\ a = Len(o.first) /\ b = Len(o.second) /\ c = Len(o.third)
        /\ Holds(AllOf(o), 0, o.first) /\ Holds(AllOf(o), a, <<SP>>)
        /\ Holds(AllOf(o), a + 1, o.second) /\ Holds(AllOf(o), a + 1 + b, <<SP>>)
        /\ Holds(AllOf(o), a + 1 + b + 1, o.third)
        /\ Holds(AllOf(o), a + 1 + b + 1 + c, <<CR, LF>>)
        /\ HeadersFrom(o) = a + 1 + b + 1 + c + 2
  BY MessageHolds
<1>2. a = Len(o.first) /\ b = Len(o.second) /\ c = Len(o.third)
  BY <1>1
<1>3. /\ Holds(bb.buf, 0, o.first) /\ Holds(bb.buf, a, <<SP>>)
      /\ Holds(bb.buf, a + 1, o.second) /\ Holds(bb.buf, a + 1 + b, <<SP>>)
      /\ Holds(bb.buf, a + 1 + b + 1, o.third)
      /\ Holds(bb.buf, a + 1 + b + 1 + c, <<CR, LF>>)
      /\ HeadersFrom(o) = a + 1 + b + 1 + c + 2
  BY <1>0, <1>1
<1>4. /\ o.first \in Text /\ o.second \in Text /\ o.third \in Text
      /\ Without(o.first, {SP, Zero}) /\ Without(o.second, {SP, Zero}) /\ Without(o.third, Eol)
  BY MessageTexts, TransportableParts
<1>5. CASE ParseFirst
  <2>1. bb.rpos = 0 /\ 0 + a = a
    BY <1>5 DEF ReadUpTo, ParseFirst
  <2>2. /\ GetStrElement(bb).text = o.first
        /\ GetStrElement(bb).rest.buf = bb.buf
        /\ GetStrElement(bb).rest.rpos = 0 + a + 1
    BY <1>2, <1>3, <1>4, <2>1, HeldWord
  <2>3. /\ pc' = "second" /\ first' = o.first /\ bb'.buf = bb.buf /\ bb'.rpos = a + 1
        /\ UNCHANGED <<kind, second, third, status, headers, hline, dataLen>>
    BY <1>5, <2>1, <2>2 DEF ParseFirst
  <2>4. pc = "first"
    BY <1>5 DEF ParseFirst
  <2> QED
    BY <1>2, <2>3, <2>4 DEF ReadUpTo
<1>6. CASE ParseSecond
  <2>1. bb.rpos = a + 1 /\ pc = "second"
    BY <1>2, <1>6 DEF ReadUpTo, ParseSecond
  <2>2. /\ GetStrElement(bb).text = o.second
        /\ GetStrElement(bb).rest.buf = bb.buf
        /\ GetStrElement(bb).rest.rpos = a + 1 + b + 1
    BY <1>2, <1>3, <1>4, <2>1, HeldWord
  <2>3. /\ pc' = "third" /\ second' = o.second /\ bb'.buf = bb.buf /\ bb'.rpos = a + 1 + b + 1
        /\ UNCHANGED <<kind, first, third, headers, hline, dataLen>>
    BY <1>6, <2>2 DEF ParseSecond
  <2> QED
    BY <1>2, <2>1, <2>3 DEF ReadUpTo
<1>7. CASE ParseThird
  <2>1. bb.rpos = a + 1 + b + 1 /\ pc = "third"
    BY <1>2, <1>7 DEF ReadUpTo, ParseThird
  <2>2. /\ GetLine(bb).text = o.third
        /\ GetLine(bb).rest.buf = bb.buf
        /\ GetLine(bb).rest.rpos = a + 1 + b + 1 + c + 2
    BY <1>2, <1>3, <1>4, <2>1, HeldLine
  <2>3. first = o.first /\ (kind = "request" => KnownMethod(first))
    BY <2>1 DEF ReadUpTo
  <2>4. /\ pc' = "headers" /\ third' = o.third /\ bb'.buf = bb.buf /\ bb'.rpos = HeadersFrom(o)
        /\ UNCHANGED <<kind, first, second, headers, hline, dataLen>>
    BY <1>3, <1>7, <2>2, <2>3 DEF ParseThird
  <2>5. \E k \in 0..Len(o.headers) :
          /\ bb'.rpos = HeadersFrom(o) + Len(HeaderLinesOf(o.headers)[k])
          /\ headers' = FirstHeaders(o, k)
    <3>1. Len(o.headers) \in Nat /\ HeaderLinesOf(o.headers)[0] = <<>> /\ Len(<<>>) = 0
      <4>1. o.headers \in Seq(Field)
        BY MessageTexts
      <4>2. LinesOf(o.headers, HeaderLinesOf(o.headers))
        BY <4>1, HeaderLinesAre
      <4> QED
        BY <4>1, <4>2 DEF LinesOf
    <3>2. headers' = {} /\ FirstHeaders(o, 0) = {}
      BY <2>1, <2>4 DEF ReadUpTo, FirstHeaders
    <3>3. HeadersFrom(o) = HeadersFrom(o) + 0
      BY <1>3
    <3>4. 0 \in 0..Len(o.headers)
      BY <3>1
    <3>5. bb'.rpos = HeadersFrom(o) + Len(HeaderLinesOf(o.headers)[0])
      BY <2>4, <3>1, <3>3
    <3> QED
      BY <3>2, <3>4, <3>5
  <2> QED
    BY <2>1, <2>4, <2>5 DEF ReadUpTo
<1> QED
  BY <1>5, <1>6, <1>7

\* Of the headers that are read, none has the key of a later one.
LEMMA NewKey ==
  ASSUME NEW o \in Message, Transportable(o), NEW k \in Nat, k + 1 <= Len(o.headers),
         NEW f \in FirstHeaders(o, k)
  PROVE  f[1] # o.headers[k + 1][1]
<1>1. PICK i \in 1..k : f = o.headers[i]
  BY DEF FirstHeaders
<1>2. i \in 1..Len(o.headers) /\ k + 1 \in 1..Len(o.headers) /\ i # k + 1
  BY MessageTexts
<1>3. o.headers[i][1] = o.headers[k + 1][1] => i = k + 1
  BY <1>2, TransportableParts
<1> QED
  BY <1>1, <1>2, <1>3

\* A line of the headers is read, or the blank line.
LEMMA UndoHeader ==
  ASSUME NEW o \in Message, bb \in Buffer, Transportable(o), ReadUpTo(o), ParseHeader
  PROVE  ReadUpTo(o)'
<1>1. PICK w \in Text : w = AllOf(o) /\ w = bb.buf
  BY MessageTexts DEF ReadUpTo
<1>2. PICK h \in Nat : h = HeadersFrom(o) /\ Holds(w, h, HeaderBlock(o.headers))
  <2>1. Holds(AllOf(o), HeadersFrom(o), HeaderBlock(o.headers))
    BY MessageHolds
  <2>2. HeadersFrom(o) \in Nat
    <3>1. Len(StartLine(o)) \in Nat
      BY MessageTexts DEF Text
    <3> QED
      BY <3>1 DEF HeadersFrom
  <2> QED
    BY <1>1, <2>1, <2>2
<1>3. o.headers \in Seq(Field) /\ Len(o.headers) \in Nat /\ DOMAIN o.headers = 1..Len(o.headers)
  BY MessageTexts
<1>4. PICK lines : lines = HeaderLinesOf(o.headers)
  OBVIOUS
<1>5. /\ \A k \in 0..Len(o.headers) : lines[k] \in Text
      /\ Len(HeaderBlock(o.headers)) = Len(lines[Len(o.headers)]) + 2
      /\ Holds(w, h + Len(lines[Len(o.headers)]), <<CR, LF>>)
      /\ \A k \in 0..Len(o.headers) - 1 :
           /\ Holds(w, h + Len(lines[k]), HeaderLine(o.headers[k + 1]))
           /\ Holds(w, h + Len(lines[k]) + Len(HeaderLine(o.headers[k + 1])), <<CR, LF>>)
           /\ Len(lines[k + 1]) = Len(lines[k]) + Len(HeaderLine(o.headers[k + 1])) + 2
  BY <1>2, <1>3, <1>4, HeadersHold
<1>6. pc = "headers" /\ UNCHANGED <<sent, kind, first, second, third, status, dataLen>>
  BY DEF ParseHeader
<1>7. PICK k \in 0..Len(o.headers) : bb.rpos = h + Len(lines[k]) /\ headers = FirstHeaders(o, k)
  BY <1>2, <1>4, <1>6 DEF ReadUpTo
<1>8. lines[k] \in Text /\ Len(lines[k]) \in Nat /\ k \in Nat
  BY <1>3, <1>5 DEF Text
<1>9. CASE k < Len(o.headers)
  <2>1. k \in 0..Len(o.headers) - 1 /\ k + 1 \in 0..Len(o.headers) /\ k + 1 \in 1..Len(o.headers)
    BY <1>3, <1>9
  <2>2. PICK f \in Field : f = o.headers[k + 1]
    BY <1>3, <2>1, ElementOfSeq
  <2>3. PICK line \in Text : line = HeaderLine(f) /\ Len(line) \in Nat
    BY HeaderText DEF Text
  <2>4. /\ Without(f[1], Eol \cup {Colon}) /\ Without(f[2], Eol)
        /\ f[2] # <<>> /\ f[2][1] # SP /\ f[2][Len(f[2])] # Comma
    BY <2>1, <2>2, TransportableParts
  <2>5. /\ line # <<>> /\ ~EndsInComma(line) /\ Without(line, Eol)
        /\ Colons(line) # {} /\ ~Throws(line)
        /\ Key(line) = f[1] /\ Trimmed(Value(line)) = f[2]
    BY <2>3, <2>4, HeaderParsed
  <2>6. /\ Holds(bb.buf, bb.rpos, line) /\ Holds(bb.buf, bb.rpos + Len(line), <<CR, LF>>)
        /\ Len(lines[k + 1]) = Len(lines[k]) + Len(line) + 2
    BY <1>1, <1>5, <1>7, <2>1, <2>2, <2>3
  <2>7. /\ GetLine(bb).text = line /\ GetLine(bb).rest.buf = bb.buf
        /\ GetLine(bb).rest.rpos = bb.rpos + Len(line) + 2
    BY <2>5, <2>6, HeldLine
  <2>8. bb'.buf = bb.buf /\ bb'.rpos = h + Len(lines[k + 1])
    <3>1. h + Len(lines[k]) + Len(line) + 2 = h + (Len(lines[k]) + Len(line) + 2)
      BY <1>8, <2>3
    <3> QED
      BY <1>7, <2>6, <2>7, <3>1 DEF ParseHeader
  <2>9. AddHeader(line)
    BY <2>5, <2>7 DEF ParseHeader
  <2>10. pc' = "headers" /\ headers' = Inserted(line)
    BY <2>5, <2>9 DEF AddHeader
  <2>11. headers' = FirstHeaders(o, k + 1)
    <3>1. ~\E g \in headers : g[1] = Key(line)
      <4>1. k + 1 <= Len(o.headers)
        BY <2>1
      <4> QED
        BY <1>7, <1>8, <2>2, <2>5, <4>1, NewKey
    <3>2. headers' = headers \cup {<<f[1], f[2]>>}
      BY <2>5, <2>10, <3>1 DEF Inserted
    <3>3. f = <<f[1], f[2]>>
      BY DEF Field
    <3>4. headers' = headers \cup {o.headers[k + 1]}
      BY <2>2, <3>2, <3>3
    <3>5. \A i : i \in 1..k + 1 <=> i \in 1..k \/ i = k + 1
      BY <1>8
    <3> QED
      BY <1>7, <3>4, <3>5 DEF FirstHeaders
  <2>12. \E j \in 0..Len(o.headers) :
           /\ bb'.rpos = HeadersFrom(o) + Len(HeaderLinesOf(o.headers)[j])
           /\ headers' = FirstHeaders(o, j)
    BY <1>2, <1>4, <2>1, <2>8, <2>11
  <2> QED
    BY <1>6, <2>8, <2>10, <2>12 DEF ReadUpTo
<1>10. CASE k = Len(o.headers)
  <2>1. <<>> \in Text /\ Len(<<>>) = 0
    BY MessageBytes
  <2>2. bb.rpos + 0 = bb.rpos /\ bb.rpos \in Nat
    BY BufferNumbers
  <2>3. Holds(bb.buf, bb.rpos, <<>>) /\ Holds(bb.buf, bb.rpos + Len(<<>>), <<CR, LF>>)
    <3>1. Holds(w, bb.rpos, <<CR, LF>>)
      BY <1>5, <1>7, <1>10
    <3>2. bb.rpos + 2 <= Len(w) /\ Len(w) \in Nat
      BY <3>1 DEF Holds, Text
    <3> QED
      BY <1>1, <2>1, <2>2, <3>1, <3>2 DEF Holds
  <2>4. Without(<<>>, Eol)
    BY DEF Without
  <2>5. /\ GetLine(bb).text = <<>> /\ GetLine(bb).rest.buf = bb.buf
        /\ GetLine(bb).rest.rpos = bb.rpos + Len(<<>>) + 2
    BY <2>1, <2>3, <2>4, HeldLine
  <2>6. bb'.buf = bb.buf /\ bb'.rpos = h + Len(HeaderBlock(o.headers))
    <3>1. bb.rpos + Len(<<>>) + 2 = h + (Len(lines[k]) + 2)
      BY <1>7, <1>8, <2>1
    <3> QED
      BY <1>5, <1>10, <2>5, <3>1 DEF ParseHeader
  <2>7. pc' = AfterHeaders /\ headers' = headers
    <3>1. ~EndsInComma(<<>>)
      BY DEF EndsInComma
    <3> QED
      BY <2>5, <3>1 DEF ParseHeader
  <2>8. pc' = "body" \/ (pc' = "parsed" /\ o.data = <<>>)
    <3>1. first = o.first /\ kind = o.kind
      BY <1>6 DEF ReadUpTo
    <3>2. o.data # <<>> => o.kind = "response" \/ o.first[1] \in {"POST", "PUT"}
      BY Zenon DEF Transportable
    <3> QED
      BY <2>7, <3>1, <3>2 DEF AfterHeaders
  <2> QED
    BY <1>2, <1>6, <1>7, <1>10, <2>6, <2>7, <2>8 DEF ReadUpTo
<1> QED
  BY <1>3, <1>9, <1>10

\* The body is read, as long as Content-Length says.
LEMMA UndoBody ==
  ASSUME NEW o \in Message, bb \in Buffer, Transportable(o), ReadUpTo(o), ParseBody
  PROVE  ReadUpTo(o)'
<1>1. PICK h \in Nat, n \in Nat, d \in Nat :
        /\ h = HeadersFrom(o) /\ n = Len(HeaderBlock(o.headers)) /\ d = Len(o.data)
        /\ Len(AllOf(o)) = h + n + d
  <2>1. Len(StartLine(o)) \in Nat /\ Len(HeaderBlock(o.headers)) \in Nat /\ Len(o.data) \in Nat
    BY MessageTexts DEF Text
  <2>2. HeadersFrom(o) \in Nat
    BY <2>1 DEF HeadersFrom
  <2>3. Len(AllOf(o)) = HeadersFrom(o) + Len(HeaderBlock(o.headers)) + Len(o.data)
    BY MessageHolds
  <2> QED
    BY <2>1, <2>2, <2>3
<1>2. /\ pc = "body" /\ UNCHANGED <<sent, bb, kind, first, second, third, status, headers, hline>>
  BY DEF ParseBody
<1>3. bb.rpos = h + n /\ bb.buf = AllOf(o) /\ headers = FirstHeaders(o, Len(o.headers))
  BY <1>1, <1>2 DEF ReadUpTo
<1>4. Size(bb) = h + n + d /\ Size(bb) - bb.rpos = d
  <2>1. Size(bb) = h + n + d
    BY <1>1, <1>3 DEF Size
  <2> QED
    BY <1>3, <2>1
<1>5. DOMAIN o.headers = 1..Len(o.headers) /\ Len(o.headers) \in Nat
  BY MessageTexts
<1>6. CASE LengthFields = {}
  <2>1. pc' = "parsed" /\ UNCHANGED dataLen
    BY <1>6 DEF ParseBody
  <2>2. o.data = <<>>
    <3>1. SUFFICES ASSUME o.data # <<>> PROVE FALSE
      OBVIOUS
    <3>2. PICK i \in 1..Len(o.headers) : o.headers[i][1] = <<"Content-Length">>
      BY <1>5, <3>1, Zenon DEF Transportable
    <3>3. o.headers[i] \in headers
      BY <1>3 DEF FirstHeaders
    <3> QED
      BY <1>6, <3>2, <3>3 DEF LengthFields
  <2> QED
    BY <1>2, <2>1, <2>2 DEF ReadUpTo
<1>7. CASE LengthFields # {}
  <2>1. ContentLen = d
    <3>1. PICK f \in LengthFields : f = CHOOSE g \in LengthFields : TRUE
      BY <1>7
    <3>2. f \in headers /\ f[1] = <<"Content-Length">>
      BY DEF LengthFields
    <3>3. PICK i \in 1..Len(o.headers) : f = o.headers[i]
      BY <1>3, <3>2 DEF FirstHeaders
    <3>4. f[2][1] \in Numeral /\ Digit[f[2][1]] = d
      BY <1>1, <3>2, <3>3, TransportableParts
    <3> QED
      BY <3>1, <3>4 DEF ContentLen
  <2>2. ~(ContentLen > (BytesRemaining(bb) + 1) % UintMod)
    <3>1. UintMod \in Nat \ {0} /\ d + 1 < UintMod
      BY <1>1, ByteBufferAssumption, Zenon DEF Transportable
    <3>2. d % UintMod = d /\ (d + 1) % UintMod = d + 1
      BY <3>1
    <3>3. BytesRemaining(bb) = d
      BY <1>4, <3>2 DEF BytesRemaining
    <3> QED
      BY <2>1, <3>2, <3>3
  <2>3. Len(Copied) = d
    <3>1. bb.buf \in Seq(Byte) /\ Size(bb) = Len(bb.buf)
      BY DEF Buffer, Size
    <3>2. PICK lo \in Nat \ {0}, hi \in Nat : lo = bb.rpos + 1 /\ hi = Size(bb) /\ hi <= Len(bb.buf)
      BY <1>3, <1>4, <3>1
    <3>3. Len(SubSeq(bb.buf, lo, hi)) = IF lo <= hi THEN hi - lo + 1 ELSE 0
      BY <3>1, <3>2, PieceOf
    <3>4. lo = h + n + 1 /\ hi = h + n + d
      BY <1>3, <1>4, <3>2
    <3>5. (IF lo <= hi THEN hi - lo + 1 ELSE 0) = d
      BY <3>4
    <3> QED
      BY <3>2, <3>3, <3>5 DEF Copied
  <2>4. pc' = "parsed" /\ dataLen' = d
    <3>1. dataLen' = ContentLen /\ (pc' = "parsed" \/ Len(Copied) > ContentLen)
      BY <1>7, <2>2 DEF ParseBody
    <3> QED
      BY <2>1, <2>3, <3>1
  <2> QED
    BY <1>1, <1>2, <2>4 DEF ReadUpTo
<1> QED
  BY <1>6, <1>7

\* Every step keeps what has been read.
LEMMA UndoingStep ==
  ASSUME Parsing, Undoing, Next
  PROVE  Undoing'
<1>1. bb \in Buffer /\ sent \in Message \cup {NoObject}
  BY DEF Parsing, TypeOK
<1>2. NoObject \notin Message
  BY HTTPMessageAssumption
<1>3. ASSUME Create PROVE Undoing'
  <2>1. PICK o \in Object : /\ o.kind = "request" => KnownMethod(o.first)
                            /\ sent' = o /\ Construct(o.kind, CreateRetData(o))
    BY <1>3 DEF Create
  <2>2. o \in Message /\ CreateRetData(o) = AllOf(o) /\ AllOf(o) \in Text
    BY HTTPMessageAssumption, MessageTexts, CreatedBytes
  <2>3. bb' = PutBytes(Empty, AllOf(o)) /\ pc' = "first" /\ kind' = o.kind /\ headers' = headers
    BY <2>1, <2>2 DEF Construct
  <2>4. bb'.buf = AllOf(o) /\ bb'.rpos = 0
    BY <2>2, <2>3, ConstructedBuffer
  <2>5. headers = {}
    BY <1>3 DEF Create, Undoing
  <2> QED
    BY <2>1, <2>3, <2>4, <2>5 DEF Undoing, ReadUpTo
<1>4. ASSUME Receive PROVE Undoing'
  <2>1. sent' = sent /\ sent = NoObject
    BY <1>4 DEF Receive, Undoing
  <2>2. pc' = "first"
    BY <1>4 DEF Receive, Construct
  <2> QED
    BY <2>1, <2>2 DEF Undoing
<1>5. ASSUME ParseStep PROVE Undoing'
  <2>1. sent' = sent /\ pc # "new"
    BY <1>5 DEF ParseStep, ParseFirst, ParseSecond, ParseThird, ParseHeader, ContinueHeader, ParseBody
  <2>2. pc' # "new"
    <3>1. AfterHeaders \in {"parsed", "body"}
      BY DEF AfterHeaders
    <3>2. \A line : AddHeader(line) => pc' \in {"thrown", "headers"}
      BY DEF AddHeader
    <3> QED
      BY <1>5, <2>1, <3>1, <3>2
      DEF ParseStep, ParseFirst, ParseSecond, ParseThird, ParseHeader, ContinueHeader, ParseBody
  <2> SUFFICES ASSUME sent # NoObject, Transportable(sent) PROVE ReadUpTo(sent)'
    BY <2>1, <2>2 DEF Undoing
  <2>3. PICK o \in Message : o = sent /\ Transportable(o) /\ ReadUpTo(o)
    BY <1>1 DEF Undoing
  <2>4. ReadUpTo(o)'
    <3>1. CASE ParseFirst \/ ParseSecond \/ ParseThird
      BY <1>1, <2>3, <3>1, UndoStartLine
    <3>2. CASE ParseHeader
      BY <1>1, <2>3, <3>2, UndoHeader
    <3>3. CASE ContinueHeader
      <4>1. pc = "continued"
        BY <3>3 DEF ContinueHeader
      <4> QED
        BY <2>3, <4>1 DEF ReadUpTo
    <3>4. CASE ParseBody
      BY <1>1, <2>3, <3>4, UndoBody
    <3> QED
      BY <1>5, <3>1, <3>2, <3>3, <3>4 DEF ParseStep
  <2>5. o = sent'
    BY <2>1, <2>3
  <2> QED
    BY <2>4, <2>5 DEF ReadUpTo
<1>6. ASSUME Terminated PROVE Undoing'
  BY <1>6 DEF Terminated, vars, Undoing, ReadUpTo
<1> QED
  BY <1>3, <1>4, <1>5, <1>6 DEF Next

\* What create() makes of a message that can get through is read part by part.
LEMMA UndoingAlways == Spec => []Undoing
<1>1. Init => Undoing
  BY DEF Init, Undoing
<1>2. Parsing /\ Undoing /\ [Next]_vars => Undoing'
  <2>1. ASSUME Undoing, UNCHANGED vars PROVE Undoing'
    BY <2>1 DEF vars, Undoing, ReadUpTo
  <2> QED
    BY <2>1, UndoingStep
<1> QED
  BY <1>1, <1>2, ParsingAlways, PTL DEF Spec

\* parse() gives back the message that create() was called for: the words of the
\* start line, the headers and the body, for every message of both classes that
\* can get through.
THEOREM ParseUndoesCreate == Spec => []RoundTrip
<1>1. Parsing /\ Undoing => RoundTrip
  <2> SUFFICES ASSUME Parsing, Undoing, sent # NoObject, Transportable(sent), pc \in Done
               PROVE  /\ pc = "parsed"
                      /\ <<first, second, third>> = <<sent.first, sent.second, sent.third>>
                      /\ headers = {sent.headers[i] : i \in DOMAIN sent.headers}
                      /\ sent.data # <<>> => dataLen = Len(sent.data) /\ Copied = sent.data
    BY DEF RoundTrip
  <2>1. bb \in Buffer /\ sent \in Message
    BY DEF Parsing, TypeOK
  <2>2. ReadUpTo(sent)
    BY DEF Undoing
  <2>3. pc = "parsed"
    BY <2>2 DEF ReadUpTo, Done
  <2>4. first = sent.first /\ second = sent.second /\ third = sent.third
    BY <2>2, <2>3 DEF ReadUpTo
  <2>5. headers = {sent.headers[i] : i \in DOMAIN sent.headers}
    <3>1. DOMAIN sent.headers = 1..Len(sent.headers)
      BY <2>1, MessageTexts
    <3>2. headers = FirstHeaders(sent, Len(sent.headers))
      BY <2>2, <2>3 DEF ReadUpTo
    <3> QED
      BY <3>1, <3>2 DEF FirstHeaders
  <2>6. sent.data # <<>> => dataLen = Len(sent.data)
    BY <2>2, <2>3 DEF ReadUpTo
  <2>7. Copied = sent.data
    <3>1. PICK w \in Text, d \in Text : w = bb.buf /\ w = AllOf(sent) /\ d = sent.data
      BY <2>1, <2>2, MessageTexts DEF ReadUpTo
    <3>2. PICK n \in Nat : n = bb.rpos
      BY <2>1, BufferNumbers
    <3>3. Holds(w, n, d) /\ Len(w) = n + Len(d)
      <4>1. bb.rpos = HeadersFrom(sent) + Len(HeaderBlock(sent.headers))
        BY <2>2, <2>3 DEF ReadUpTo
      <4>2. /\ Holds(AllOf(sent), HeadersFrom(sent) + Len(HeaderBlock(sent.headers)), sent.data)
            /\ Len(AllOf(sent)) = HeadersFrom(sent) + Len(HeaderBlock(sent.headers)) + Len(sent.data)
        BY <2>1, MessageHolds
      <4> QED
        BY <3>1, <3>2, <4>1, <4>2
    <3>4. SubSeq(w, n + 1, n + Len(d)) = d
      BY <3>3, HeldPiece
    <3> QED
      BY <3>1, <3>2, <3>3, <3>4 DEF Copied, Size
  <2> QED
    BY <2>3, <2>4, <2>5, <2>6, <2>7
<1> QED
  BY <1>1, ParsingAlways, UndoingAlways, PTL
=============================================================================
