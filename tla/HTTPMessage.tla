---------------------------- MODULE HTTPMessage ----------------------------
(***************************************************************************)
(* One message on its way: an HTTPRequest or HTTPResponse is turned into   *)
(* bytes by create(), or bytes arrive from some other program, and an      *)
(* object at the receiver parses them.  A step is one helper of parse():   *)
(* the start line, a line of the headers, the body.                        *)
(***************************************************************************)
EXTENDS ByteBuffer
LOCAL INSTANCE FiniteSetsExt

CONSTANTS
  Object,     \* the messages that are created
  Wire,       \* the byte sequences that arrive from elsewhere
  NoObject    \* the sender of such a sequence is not known

CR == "CR"
LF == "LF"
SP == "SP"
Colon == ":"
Comma == ","
Eol == {CR, LF}

Kind == {"request", "response"}
Text == Seq(Byte)
Field == Text \X Text

\* requestMethodStr
Methods == {"HEAD", "GET", "POST", "PUT", "DELETE", "TRACE", "OPTIONS",
            "CONNECT", "PATCH"}

\* enum Status, as create() writes it
Status == {"100", "200", "400", "404", "500", "501"}
NoStatus == "0"

\* The object of a sender: the words of the start line, the headers in the
\* order of the map, the body.
Message == [kind : Kind, first : Text, second : Text, third : Text,
            headers : Seq(Field), data : Text]

\* Numbers that can be the value of a header, as unsigned integers.
Digits == <<"1", "2", "3", "4", "5", "6", "7", "8">>
Numeral == {"-1", "0"} \cup {Digits[i] : i \in DOMAIN Digits}
Digit == [n \in Numeral |->
            IF n = "-1" THEN UintMod - 1
            ELSE IF n = "0" THEN 0 ELSE CHOOSE i \in DOMAIN Digits : Digits[i] = n]

ASSUME HTTPMessageAssumption ==
  /\ Object \subseteq Message
  /\ Wire \subseteq Text
  /\ NoObject \notin Message
  /\ {CR, LF, SP, Colon, Comma} \subseteq Byte

VARIABLES
  pc,        \* the helper of parse() that is next, or how parse() ended
  sent,      \* the object the bytes were created from
  bb,        \* the buffer of the receiver's object
  kind,      \* its class
  first, second, third,    \* the words of its start line
  status,    \* the status code of a response
  headers,   \* its map, as the set of its pairs
  hline,     \* parseHeaders: the header read so far, if a comma ended its line
  dataLen    \* the length it has for the body

vars == <<pc, sent, bb, kind, first, second, third, status, headers, hline, dataLen>>

Done == {"parsed", "refused", "thrown", "crashed"}

TypeOK ==
  /\ pc \in {"new", "first", "second", "third", "headers", "continued", "body"} \cup Done
  /\ sent \in Message \cup {NoObject}
  /\ bb \in Buffer
  /\ kind \in Kind
  /\ first \in Text /\ second \in Text /\ third \in Text
  /\ status \in Status \cup {NoStatus}
  /\ headers \in SUBSET Field
  /\ hline \in Text
  /\ dataLen \in Nat

Init ==
  /\ pc = "new"
  /\ sent = NoObject
  /\ bb = Empty
  /\ kind = "request"
  /\ first = <<>> /\ second = <<>> /\ third = <<>>
  /\ status = NoStatus
  /\ headers = {}
  /\ hline = <<>>
  /\ dataLen = 0
----------------------------------------------------------------------------
(* The status code and the reason of a response *)

DetermineReasonStr(s) ==
  CASE s = "100" -> <<"Continue">>
    [] s = "200" -> <<"OK">>
    [] s = "400" -> <<"Bad", SP, "Request">>
    [] s = "404" -> <<"Not", SP, "Found">>
    [] s = "500" -> <<"Internal", SP, "Server", SP, "Error">>
    [] s = "501" -> <<"Not", SP, "Implemented">>

\* setStatus() sets the reason of a response with its status code.
ASSUME SetStatusAssumption ==
  \A o \in Object : o.kind = "response" /\ o.second[1] \in Status
                     => o.third = DetermineReasonStr(o.second[1])

Contains(t, u) == \E i \in 0..Len(t) - Len(u) : SubSeq(t, i + 1, i + Len(u)) = u

\* In the order of the tests.
Phrases == <<
  <<"100", <<"Continue">>>>,
  <<"200", <<"OK">>>>,
  <<"400", <<"Bad", SP, "Request">>>>,
  <<"404", <<"Not", SP, "Found">>>>,
  <<"500", <<"Server", SP, "Error">>>>,
  <<"501", <<"Not", SP, "Implemented">>>>>>

DetermineStatusCode(reason, old) ==
  LET hits == {i \in DOMAIN Phrases : Contains(reason, Phrases[i][2])}
  IN IF hits = {} THEN old ELSE Phrases[Min(hits)][1]

\* The response that sendStatusResponse and sendResponse put together, with its
\* headers in the order of the map.
StatusResponse(s, msg) ==
  LET body == DetermineReasonStr(s) \o <<Colon, SP>> \o msg IN
  [kind |-> "response", first |-> <<"HTTP/1.1">>, second |-> <<s>>,
   third |-> DetermineReasonStr(s),
   headers |-> <<<<<<"Connection">>, <<"close">>>>,
                 <<<<"Content-Length">>, <<Digits[Len(body)]>>>>,
                 <<<<"Content-Type">>, <<"text/plain">>>>>>,
   data |-> body]

----------------------------------------------------------------------------
(* create() *)

PutLine(b, s) == PutBytes(b, s \o <<CR, LF>>)

HeaderLine(f) == f[1] \o <<Colon, SP>> \o f[2]

\* putHeaders: a line for each pair, and a blank one.  What the first i lines are:
HeaderLinesOf(fs) ==
  LET lines[i \in 0..Len(fs)] ==
        IF i = 0 THEN <<>> ELSE lines[i - 1] \o HeaderLine(fs[i]) \o <<CR, LF>>
  IN lines

HeaderBlock(fs) == HeaderLinesOf(fs)[Len(fs)] \o <<CR, LF>>

Created(o) ==
  LET line == o.first \o <<SP>> \o o.second \o <<SP>> \o o.third
  IN PutBytes(PutBytes(PutLine(Empty, line), HeaderBlock(o.headers)), o.data)

\* The array that create() returns: everything, read from position 0.
CreateRetData(o) == GetBytes(SetReadPos(Created(o), 0), Size(Created(o)))

\* A new object of class k for the bytes w.
Construct(k, w) ==
  /\ pc' = "first"
  /\ kind' = k
  /\ bb' = PutBytes(Empty, w)
  /\ UNCHANGED <<first, second, third, status, headers, hline, dataLen>>

\* An object that is made of a std::string gets the 0 at its end as well.
CString(w) == Append(w, Zero)

\* methodStrToInt and methodIntToStr know the name.
KnownMethod(name) == Len(name) = 1 /\ name[1] \in Methods

Create ==
  /\ pc = "new"
  /\ \E o \in Object :
       /\ o.kind = "request" => KnownMethod(o.first)
       /\ sent' = o
       /\ Construct(o.kind, CreateRetData(o))

Receive ==
  /\ pc = "new"
  /\ \E k \in Kind, w \in Wire : Construct(k, w) \/ Construct(k, CString(w))
  /\ UNCHANGED sent
----------------------------------------------------------------------------
(* parse() *)

\* getStrElement: the text before the next space, and the buffer past it.
GetStrElement(b) ==
  LET end == Find(b, SP, b.rpos) IN
  IF end = -1
  THEN [text |-> <<>>, rest |-> b]
  ELSE [text |-> GetBytes(b, end - b.rpos), rest |-> SetReadPos(b, end + 1)]

\* Two ways of leaving a line that would be wrong: always past two bytes, and
\* past every byte of the chain.
PastTwo(b, e) == e + 1
PastChain(b, e) ==
  Max({j \in e..Size(b) : \A i \in e..j : b.buf[i] \in Eol})

\* The end of line at index e is a CR or LF, and at most one more of them.
PastEol(b, e) == IF e < Size(b) /\ b.buf[e + 1] \in Eol THEN e + 1 ELSE e

\* A line that does not end before the buffer does is no line; to return it
\* without moving past it would be wrong.
LastLine(b) == SubSeq(b.buf, b.rpos + 1, Size(b))
Unterminated(b) == <<>>

GetLine(b) ==
  LET ends == {i \in b.rpos + 1..Size(b) : b.buf[i] \in Eol} IN
  IF ends = {}
  THEN [text |-> Unterminated(b), rest |-> b]
  ELSE [text |-> SubSeq(b.buf, b.rpos + 1, Min(ends) - 1),
        rest |-> SetReadPos(b, PastEol(b, Min(ends)))]

ParseFirst ==
  LET element == GetStrElement(bb) IN
  /\ pc = "first"
  /\ first' = element.text
  /\ bb' = element.rest
  /\ pc' = "second"
  /\ UNCHANGED <<sent, kind, second, third, status, headers, hline, dataLen>>

\* The status code is determined from the reason, which is the next word.
ParseSecond ==
  LET element == GetStrElement(bb) IN
  /\ pc = "second"
  /\ second' = element.text
  /\ bb' = element.rest
  /\ pc' = "third"
  /\ status' = IF kind = "response" THEN DetermineStatusCode(third, status) ELSE status
  /\ UNCHANGED <<sent, kind, first, third, headers, hline, dataLen>>

\* The rest of the line; then a request is refused if its method is unknown.
ParseThird ==
  LET line == GetLine(bb) IN
  /\ pc = "third"
  /\ third' = line.text
  /\ bb' = line.rest
  /\ pc' = IF kind = "request" /\ ~KnownMethod(first) THEN "refused" ELSE "headers"
  /\ UNCHANGED <<sent, kind, first, second, status, headers, hline, dataLen>>

\* The value without its leading spaces, or with them.
Untrimmed(v) == v
Trimmed(v) ==
  LET start == Min({i \in DOMAIN v : v[i] # SP}) IN SubSeq(v, start, Len(v))

Colons(line) == {i \in DOMAIN line : line[i] = Colon}
Key(line) == SubSeq(line, 1, Min(Colons(line)) - 1)
Value(line) == SubSeq(line, Min(Colons(line)) + 1, Len(line))

\* value.at(i) of an empty value, or past the spaces of a blank one.
Throws(line) ==
  Colons(line) # {} /\ \A i \in DOMAIN Value(line) : Value(line)[i] = SP

\* map::insert keeps the pair that has the key already.
Inserted(line) ==
  IF Colons(line) = {} \/ \E f \in headers : f[1] = Key(line)
  THEN headers
  ELSE headers \cup {<<Key(line), Trimmed(Value(line))>>}

AddHeader(line) ==
  IF Throws(line)
  THEN pc' = "thrown" /\ UNCHANGED headers
  ELSE pc' = "headers" /\ headers' = Inserted(line)

EndsInComma(s) == s # <<>> /\ s[Len(s)] = Comma

\* Only POST and PUT, and every response, can have a body.
AfterHeaders ==
  IF kind = "request" /\ first[1] \notin {"POST", "PUT"} THEN "parsed" ELSE "body"

ParseHeader ==
  LET line == GetLine(bb) IN
  /\ pc = "headers"
  /\ bb' = line.rest
  /\ \/ /\ line.text = <<>>
        /\ pc' = AfterHeaders
        /\ UNCHANGED <<headers, hline>>
     \/ /\ EndsInComma(line.text)
        /\ pc' = "continued"
        /\ hline' = line.text
        /\ UNCHANGED headers
     \/ /\ line.text # <<>> /\ ~EndsInComma(line.text)
        /\ AddHeader(line.text)
        /\ UNCHANGED hline
  /\ UNCHANGED <<sent, kind, first, second, third, status, dataLen>>

\* The inner loop: any line continues the header, a blank one as well.  The
\* byte in front of an empty string is never a comma.
ContinueHeader ==
  LET line == GetLine(bb) IN
  /\ pc = "continued"
  /\ bb' = line.rest
  /\ IF EndsInComma(line.text)
     THEN hline' = hline \o line.text /\ UNCHANGED <<pc, headers>>
     ELSE hline' = <<>> /\ AddHeader(hline \o line.text)
  /\ UNCHANGED <<sent, kind, first, second, third, status, dataLen>>

LengthFields == {f \in headers : f[1] = <<"Content-Length">>}

\* A conversion that would tell a word that is no number from 0.
CheckedLen ==
  LET value == (CHOOSE f \in LengthFields : TRUE)[2]
  IN IF value[1] \in Numeral THEN Digit[value[1]] ELSE -1

\* atoi of the value of Content-Length
ContentLen ==
  LET value == (CHOOSE f \in LengthFields : TRUE)[2]
  IN IF value[1] \in Numeral THEN Digit[value[1]] ELSE 0

\* What is copied into the array of dataLen bytes: all that follows the head.
Copied == SubSeq(bb.buf, bb.rpos + 1, Size(bb))

\* A byte past the end of the array may end the process.
ParseBody ==
  /\ pc = "body"
  /\ \/ LengthFields = {} /\ pc' = "parsed" /\ UNCHANGED dataLen
     \/ /\ LengthFields # {}
        /\ IF ContentLen > (BytesRemaining(bb) + 1) % UintMod
           THEN pc' = "refused" /\ UNCHANGED dataLen
           ELSE /\ dataLen' = ContentLen
                /\ \/ pc' = "parsed"
                   \/ Len(Copied) > ContentLen /\ pc' = "crashed"
  /\ UNCHANGED <<sent, bb, kind, first, second, third, status, headers, hline>>
----------------------------------------------------------------------------
ParseStep ==
  \/ ParseFirst \/ ParseSecond \/ ParseThird
  \/ ParseHeader \/ ContinueHeader
  \/ ParseBody

Terminated == pc \in Done /\ UNCHANGED vars

Next == Create \/ Receive \/ ParseStep \/ Terminated

Spec == Init /\ [][Next]_vars

\* parse() runs to its end once it has been called.
FairSpec == Spec /\ WF_vars(ParseStep)
----------------------------------------------------------------------------
Without(t, bytes) == \A i \in DOMAIN t : t[i] \notin bytes

\* What a sender has to respect for its message to get through.
Transportable(o) ==
  /\ Without(o.first \o o.second, Eol \cup {SP, Zero})
  /\ Without(o.third, Eol)
  /\ \A i, j \in DOMAIN o.headers : o.headers[i][1] = o.headers[j][1] => i = j
  /\ \A i \in DOMAIN o.headers :
       LET key == o.headers[i][1]
           value == o.headers[i][2]
       IN /\ Without(key, Eol \cup {Colon})
          /\ Without(value, Eol)
          /\ value # <<>> /\ value[1] # SP /\ value[Len(value)] # Comma
          /\ key = <<"Content-Length">>
               => value[1] \in Numeral /\ Digit[value[1]] = Len(o.data)
  /\ o.data # <<>> =>
       /\ o.kind = "response" \/ o.first[1] \in {"POST", "PUT"}
       /\ \E i \in DOMAIN o.headers : o.headers[i][1] = <<"Content-Length">>
  /\ Len(o.data) + 1 < UintMod

\* What create() makes of a message, parse() turns back into the same message:
\* start line, headers and body, for both classes.
RoundTrip ==
  sent # NoObject /\ Transportable(sent) /\ pc \in Done =>
    /\ pc = "parsed"
    /\ <<first, second, third>> = <<sent.first, sent.second, sent.third>>
    /\ headers = {sent.headers[i] : i \in DOMAIN sent.headers}
    /\ sent.data # <<>> => dataLen = Len(sent.data) /\ Copied = sent.data

\* No helper leaves the read position past the end, where bytesRemaining()
\* would wrap and parseBody's test against Content-Length would let all pass.
PositionInBuffer == bb.rpos <= Size(bb)

\* The ends of the blank lines in the bytes w.
BlankLines(w) == {p \in 4..Len(w) : SubSeq(w, p - 3, p) = <<CR, LF, CR, LF>>}

\* The head that ends at p is made of lines that end in CR LF, the spaces of
\* the start line are in its first line.
Regular(p) ==
  /\ \A i \in 1..p :
       /\ bb.buf[i] = CR => i < p /\ bb.buf[i + 1] = LF
       /\ bb.buf[i] = LF => i > 1 /\ bb.buf[i - 1] = CR
  /\ Without(first \o second, Eol)

\* No line of the head ends in a comma.
Uncontinued(p) == \A i \in 1..p - 1 : bb.buf[i] = Comma => bb.buf[i + 1] # CR

\* parseHeaders(): "Parse headers will move the read position past the blank
\* line that signals the end of the headers", and not further: no byte of the
\* body is taken for a header.
HeadersEndAtBlankLine ==
  LET blanks == BlankLines(bb.buf) IN
  pc \in {"body", "parsed"} /\ blanks # {} /\ Regular(Min(blanks))
    => bb.rpos = Min(blanks)

\* The same for a head without a continued line: getLine never runs over a
\* blank line, wherever the bytes are cut and whatever the body begins with.
BlankLineKept ==
  LET blanks == BlankLines(bb.buf) IN
  pc \in {"body", "parsed"} /\ blanks # {}
    /\ Regular(Min(blanks)) /\ Uncontinued(Min(blanks))
      => bb.rpos = Min(blanks)

\* parseBody(): "contentLen should NOT exceed the remaining number of bytes in
\* the buffer": a body is never longer than what arrived of it.
BodyIsThere == pc = "parsed" => dataLen <= Len(Copied)

\* parse() ends on every input, also on one that ends in a continued header.
ParseEnds == pc = "first" ~> pc \in Done
=============================================================================
