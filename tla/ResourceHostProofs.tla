------------------------- MODULE ResourceHostProofs -------------------------
(***************************************************************************)
(* Proofs about ResourceHost, for every file system.  A body is of one     *)
(* file, whatever other programs do between the system calls of a request; *)
(* and while they do nothing the answer is the one that the comments       *)
(* promise, for all that the comments speak of.                            *)
(***************************************************************************)
EXTENDS ResourceHost, TLAPS
LOCAL INSTANCE FiniteSetsExt

\* What has been read is of the open file, and of its version unless a file was
\* rewritten where it is.
Reading ==
  /\ pc # "read" => data = <<>>
  /\ \A i \in DOMAIN data : data[i][1] = handle
  /\ inPlace \/ \A i \in DOMAIN data : data[i] = <<handle, version[handle]>>

FileInv == TypeOK /\ Reading /\ OneFile

Index(k) == req.uri \o <<validIndexes[k]>>

\* The index that the probes find: the first that is there.
FirstIndex(k) ==
  k \in {1, 2} /\ NodeAt(Index(k)) # NoNode /\ (k = 2 => NodeAt(Index(1)) = NoNode)

\* The path is the file that was asked for, or the index of the directory.
Located ==
  \/ path = req.uri /\ KindAt(path) = "file"
  \/ KindAt(req.uri) \in TakenForDir /\ \E k \in {1, 2} : FirstIndex(k) /\ path = Index(k)

\* What the lookup has found out at each step, as long as nothing changes.
AtRest ==
  /\ pc = "stat" => path = req.uri
  /\ pc \in {"probe1", "probe2", "list"} =>
       path = req.uri /\ KindAt(path) \in TakenForDir /\ dirSb = StatOf(at[path])
  /\ pc \in {"probe2", "list"} => NodeAt(Index(1)) = NoNode
  /\ pc = "list" => NodeAt(Index(2)) = NoNode
  /\ pc \in {"open", "read"} =>
       Located /\ NodeAt(path) # NoNode /\ sb = StatOf(at[path])
  /\ pc = "read" =>
       /\ handle = at[path] /\ Len(data) <= size[handle]
       /\ sb.owner /\ KindAt(path) \in CanBeOpened

\* A file that is rewritten where it is ends the rest.
RestInv ==
  /\ quiet => ~inPlace /\ AtRest
  /\ QuietExact
----------------------------------------------------------------------------
(* The types *)

\* A path that refers to something refers to a node, and stat says what it is.
LEMMA StatType ==
  ASSUME TypeOK, NEW p, NodeAt(p) # NoNode
  PROVE  p \in Path /\ at[p] \in Node /\ NodeAt(p) = at[p] /\ StatOf(at[p]) \in Stat
<1>1. p \in Path /\ at[p] \in Node /\ NodeAt(p) = at[p]
  BY DEF NodeAt, TypeOK
<1>2. /\ Attr[at[p]].kind \in Kind /\ Attr[at[p]].owner \in BOOLEAN
      /\ size[at[p]] \in Nat
  BY <1>1, ResourceHostAssumption DEF TypeOK
<1>3. (IF Attr[at[p]].kind = "dir" THEN DirSize ELSE size[at[p]]) \in Nat
  BY <1>2 DEF DirSize
<1> QED
  BY <1>1, <1>2, <1>3 DEF StatOf, Stat

\* Every file system of Layout is of the types.
LEMMA TypeInit == Init => TypeOK
<1> SUFFICES ASSUME Init PROVE TypeOK
  OBVIOUS
<1>1. at \in [Path -> Node \cup {NoNode}] /\ version \in [Node -> Nat]
  BY ResourceHostAssumption DEF Init
<1>2. size \in [Node -> 0..MaxSize]
  <2> SUFFICES \A n \in Node : (IF Attr[n].kind = "file" THEN 1 ELSE 0) \in 0..MaxSize
    BY DEF Init
  <2> QED
    BY ResourceHostAssumption
<1>3. NoStat \in Stat
  BY DEF NoStat, Stat, Kind
<1>4. pc = "idle" /\ sb = NoStat /\ dirSb = NoStat /\ handle = NoNode /\ data = <<>>
  BY DEF Init
<1>5. Len(data) <= sb.size
  BY <1>4 DEF NoStat
<1> QED
  BY <1>1, <1>2, <1>3, <1>4, <1>5 DEF TypeOK

\* Whatever is found or not, the answer is given and the call is over.
LEMMA Answered ==
  ASSUME NEW type, NEW length, NEW blocks, NEW links,
         Found(type, length, blocks, links) \/ Missing
  PROVE  pc' = "answered" /\ answer'.blocks \in {blocks, <<>>}
<1>1. CASE Found(type, length, blocks, links)
  BY <1>1 DEF Found, Ok, Response
<1>2. CASE Missing
  BY <1>2 DEF Missing, NotFound, Response
<1> QED
  BY <1>1, <1>2

\* What a step of the call does to its own variables; the answer changes only
\* when it is given.
LEMMA CallKeepsTypes ==
  ASSUME TypeOK, Reading, CallStep, UNCHANGED fsVars
  PROVE  TypeOK'
<1>0. /\ at' \in [Path -> Node \cup {NoNode}] /\ version' \in [Node -> Nat]
      /\ size' \in [Node -> 0..MaxSize]
  BY DEF TypeOK, fsVars
<1>a. ASSUME pc # "read", UNCHANGED data, sb' \in Stat PROVE Len(data') <= sb'.size
  <2>1. data' = <<>> /\ Len(<<>>) = 0 /\ sb'.size \in Nat
    BY <1>a DEF Reading, Stat
  <2> QED
    BY <2>1
<1>1. CASE Call
  <2>1. pc = "idle" /\ pc' \in {"stat", "answered"} /\ UNCHANGED <<sb, dirSb, handle, data>>
    BY <1>1 DEF Call, Missing
  <2> QED
    BY <1>0, <2>1 DEF TypeOK
<1>2. CASE StatPath
  <2>1. pc = "stat" /\ UNCHANGED <<handle, data>>
    BY <1>2 DEF StatPath
  <2>2. CASE /\ KindAt(path) \in {"none", "char", "pipe"} /\ Missing
             /\ UNCHANGED <<sb, dirSb>>
    BY <1>0, <2>1, <2>2 DEF TypeOK, Missing
  <2>3. CASE /\ KindAt(path) \in TakenForDir
             /\ dirSb' = StatOf(at[path]) /\ pc' = "probe1" /\ UNCHANGED <<sb, answer>>
    <3>1. dirSb' \in Stat
      BY <2>3, StatType DEF KindAt, TakenForDir
    <3> QED
      BY <1>0, <2>1, <2>3, <3>1 DEF TypeOK
  <2>4. CASE /\ KindAt(path) = "file"
             /\ sb' = StatOf(at[path]) /\ pc' = "open" /\ UNCHANGED <<dirSb, answer>>
    <3>1. sb' \in Stat
      BY <2>4, StatType DEF KindAt
    <3>2. Len(data') <= sb'.size
      BY <1>a, <2>1, <3>1
    <3> QED
      BY <1>0, <2>1, <2>4, <3>1, <3>2 DEF TypeOK
  <2> QED
    BY <1>2, <2>2, <2>3, <2>4 DEF StatPath
<1>3. ASSUME NEW k \in {1, 2}, pc \in {"probe1", "probe2"}, Probe(k) PROVE TypeOK'
  <2> DEFINE index == path \o <<validIndexes[k]>>
  <2>1. UNCHANGED <<dirSb, handle, data>>
    BY <1>3 DEF Probe
  <2>2. CASE NodeAt(index) # NoNode
    <3>1. sb' = StatOf(NodeAt(index)) /\ pc' = "open"
      BY <1>3, <2>2 DEF Probe, StatOfIndex
    <3>2. sb' \in Stat
      BY <2>2, <3>1, StatType
    <3>3. Len(data') <= sb'.size
      BY <1>3, <1>a, <2>1, <3>2
    <3> QED
      BY <1>0, <1>3, <2>1, <3>1, <3>2, <3>3 DEF TypeOK
  <2>3. CASE NodeAt(index) = NoNode
    <3>1. pc' \in {"probe2", "list"} /\ sb' = sb
      BY <1>3, <2>3 DEF Probe
    <3> QED
      BY <1>0, <1>3, <2>1, <3>1 DEF TypeOK
  <2> QED
    BY <2>2, <2>3
<1>4. CASE GenerateDirList
  <2>1. pc = "list" /\ UNCHANGED <<sb, dirSb, handle, data>>
    BY <1>4 DEF GenerateDirList
  <2>2. pc' = "answered"
    BY <1>4, Answered DEF GenerateDirList
  <2> QED
    BY <1>0, <2>1, <2>2 DEF TypeOK
<1>5. CASE OpenFile
  <2>1. pc = "open" /\ UNCHANGED <<sb, dirSb, data>>
    BY <1>5 DEF OpenFile
  <2>2. CASE KindAt(path) \in CanBeOpened /\ handle' = at[path] /\ pc' = "read"
    <3>1. handle' \in Node
      BY <2>2, StatType DEF KindAt, CanBeOpened
    <3> QED
      BY <1>0, <2>1, <2>2, <3>1, ResourceHostAssumption DEF TypeOK
  <2>3. CASE Missing /\ UNCHANGED handle
    BY <1>0, <2>1, <2>3 DEF TypeOK, Missing
  <2>4. CASE pc' = "blocked" /\ UNCHANGED <<handle, answer>>
    BY <1>0, <2>1, <2>4 DEF TypeOK
  <2> QED
    BY <1>5, <2>2, <2>3, <2>4 DEF OpenFile
<1>6. CASE ReadBlock
  <2>1. /\ pc = "read" /\ UNCHANGED <<pc, sb, dirSb, handle>>
        /\ Len(data) # sb.size
        /\ data' = Append(data, <<handle, version[handle]>>)
    BY <1>6 DEF ReadBlock, ReadEnds, Source
  <2>2. handle \in Node /\ version[handle] \in Nat
    BY <2>1 DEF TypeOK
  <2>3. <<handle, version[handle]>> \in Block \cup {Unset}
    BY <2>2 DEF Block
  <2>4. data' \in Seq(Block \cup {Unset}) /\ Len(data') = Len(data) + 1
    BY <2>1, <2>3 DEF TypeOK
  <2>5. sb.size \in Nat /\ Len(data) <= sb.size /\ Len(data) \in Nat
    BY DEF TypeOK, Stat
  <2>6. Len(data') <= sb'.size
    BY <2>1, <2>4, <2>5
  <2> QED
    BY <1>0, <2>1, <2>4, <2>6 DEF TypeOK
<1>7. CASE FinishRead
  <2>1. handle' = NoNode /\ data' = <<>> /\ UNCHANGED <<sb, dirSb>>
    BY <1>7 DEF FinishRead
  <2>2. pc' = "answered"
    BY <1>7, Answered DEF FinishRead
  <2>3. Len(data') <= sb'.size /\ data' \in Seq(Block \cup {Unset})
    BY <2>1 DEF TypeOK, Stat
  <2> QED
    BY <1>0, <2>1, <2>2, <2>3 DEF TypeOK
<1> QED
  BY <1>1, <1>2, <1>3, <1>4, <1>5, <1>6, <1>7 DEF CallStep, ProbeFirst, ProbeSecond

\* Other programs leave the variables of the call alone, and files of the types.
LEMMA OthersKeepTypes ==
  ASSUME TypeOK, Others
  PROVE  TypeOK'
<1>1. UNCHANGED callVars
  BY DEF Others
<1>2. /\ at' \in [Path -> Node \cup {NoNode}] /\ version' \in [Node -> Nat]
      /\ size' \in [Node -> 0..MaxSize]
  <2>1. ASSUME NEW p \in Path, Remove(p) PROVE <1>2
    BY <2>1 DEF Remove, TypeOK
  <2>2. ASSUME NEW p \in Path, NEW n \in Node, Place(p, n) PROVE <1>2
    BY <2>2 DEF Place, TypeOK
  <2>3. ASSUME NEW n \in Node, NEW s \in 0..MaxSize, Rewrite(n, s) PROVE <1>2
    BY <2>3 DEF Rewrite, TypeOK
  <2> QED
    BY <2>1, <2>2, <2>3 DEF Others
<1> QED
  BY <1>1, <1>2 DEF TypeOK, callVars
----------------------------------------------------------------------------
(* What has been read, and the answer *)

\* No other program opens, reads or answers; a file rewritten where it is is noted.
LEMMA OthersKeepFile ==
  ASSUME FileInv, Others
  PROVE  Reading' /\ OneFile'
<1>1. pc' = pc /\ handle' = handle /\ data' = data /\ answer' = answer
  BY DEF Others, callVars
<1>2. inPlace' \/ (version' = version /\ inPlace' = inPlace)
  BY DEF Others, Remove, Place
<1>3. CASE inPlace'
  BY <1>1, <1>3 DEF FileInv, Reading, OneFile
<1>4. CASE version' = version /\ inPlace' = inPlace
  BY <1>1, <1>4 DEF FileInv, Reading, OneFile
<1> QED
  BY <1>2, <1>3, <1>4

\* A step of the call reads from the file that is open, or reads nothing.
LEMMA CallKeepsReading ==
  ASSUME FileInv, CallStep, UNCHANGED fsVars, inPlace' = inPlace
  PROVE  Reading'
<1>0. /\ version' = version
      /\ pc # "read" => data = <<>>
      /\ \A i \in DOMAIN data : data[i][1] = handle
      /\ inPlace \/ \A i \in DOMAIN data : data[i] = <<handle, version[handle]>>
  BY DEF fsVars, FileInv, Reading
<1>1. ASSUME data' = <<>> PROVE Reading'
  <2>1. DOMAIN data' = {}
    BY <1>1
  <2> QED
    BY <1>1, <2>1 DEF Reading
<1>2. CASE pc # "read"
  <2>1. data' = data
    BY <1>2 DEF CallStep, Call, StatPath, ProbeFirst, ProbeSecond, Probe, GenerateDirList,
                OpenFile, ReadBlock, FinishRead
  <2> QED
    BY <1>0, <1>1, <1>2, <2>1
<1>3. CASE pc = "read"
  <2>1. ReadBlock \/ FinishRead
    BY <1>3 DEF CallStep, Call, StatPath, ProbeFirst, ProbeSecond, Probe, GenerateDirList,
                OpenFile
  <2>2. CASE FinishRead
    BY <1>1, <2>2 DEF FinishRead
  <2>3. CASE ReadBlock
    <3> DEFINE x == <<handle, version[handle]>>
    <3>1. pc' = pc /\ handle' = handle /\ data' = Append(data, x)
      BY <2>3 DEF ReadBlock, Source
    <3>2. data \in Seq(Block \cup {Unset})
      BY DEF FileInv, TypeOK
    <3>3. \A i \in DOMAIN data' : data'[i] = x \/ (i \in DOMAIN data /\ data'[i] = data[i])
      <4> HIDE DEF x
      <4> QED
        BY <3>1, <3>2
    <3>4. x[1] = handle
      OBVIOUS
    <3> QED
      BY <1>0, <1>3, <3>1, <3>3, <3>4 DEF Reading
  <2> QED
    BY <2>1, <2>2, <2>3
<1> QED
  BY <1>2, <1>3

\* An answer without a body is of one file.
LEMMA NoBody ==
  ASSUME answer'.blocks = <<>>
  PROVE  OneFile'
<1>1. DOMAIN answer'.blocks = {}
  OBVIOUS
<1> QED
  BY <1>1 DEF OneFile

\* The body is what has been read, and then memory that was not read into.
LEMMA PaddedBody ==
  ASSUME FileInv, pc = "read", answer'.blocks = Padded, inPlace' = inPlace
  PROVE  OneFile'
<1>0. /\ \A i \in DOMAIN data : data[i][1] = handle
      /\ inPlace \/ \A i \in DOMAIN data : data[i] = <<handle, version[handle]>>
      /\ handle \in Node /\ handle # NoNode
      /\ data \in Seq(Block \cup {Unset}) /\ sb.size \in Nat
  BY DEF FileInv, Reading, TypeOK, Stat
<1>1. DOMAIN Padded = 1..sb.size
      /\ \A i \in 1..sb.size : Padded[i] = IF i \in DOMAIN data THEN data[i] ELSE Unset
  BY DEF Padded
<1>2. Unset[1] = NoNode
  BY DEF Unset
<1>3. ASSUME NEW i \in 1..sb.size, NEW j \in 1..sb.size, i < j
      PROVE  LET x == Padded[i]
                 y == Padded[j]
             IN \/ y = Unset
                \/ x # Unset /\ x[1] = y[1] /\ (x = y \/ inPlace)
  <2>1. CASE j \notin DOMAIN data
    BY <1>1, <2>1
  <2>2. CASE j \in DOMAIN data
    <3>1. i \in DOMAIN data
      BY <1>0, <1>3, <2>2
    <3>2. Padded[i] = data[i] /\ Padded[j] = data[j]
      BY <1>1, <2>2, <3>1
    <3>3. data[i][1] = handle /\ data[j][1] = handle /\ data[i] # Unset
      BY <1>0, <1>2, <2>2, <3>1
    <3>4. inPlace \/ data[i] = data[j]
      BY <1>0, <2>2, <3>1
    <3> QED
      BY <3>2, <3>3, <3>4
  <2> QED
    BY <2>1, <2>2
<1> QED
  BY <1>1, <1>3 DEF OneFile

\* A step of the call that answers answers with one file.
LEMMA CallKeepsOneFile ==
  ASSUME FileInv, CallStep, inPlace' = inPlace
  PROVE  OneFile'
<1>1. ASSUME answer' = answer PROVE OneFile'
  BY <1>1 DEF FileInv, OneFile
<1>2. ASSUME Missing PROVE OneFile'
  BY <1>2, NoBody DEF Missing, NotFound, Response
<1>3. CASE Call
  BY <1>1, <1>2, <1>3 DEF Call
<1>4. CASE StatPath
  BY <1>1, <1>2, <1>4 DEF StatPath
<1>5. CASE ProbeFirst \/ ProbeSecond
  BY <1>1, <1>5 DEF ProbeFirst, ProbeSecond, Probe
<1>6. CASE GenerateDirList
  <2>1. answer'.blocks \in {<<>>}
    BY <1>6, Answered DEF GenerateDirList
  <2> QED
    BY <2>1, NoBody
<1>7. CASE OpenFile
  BY <1>1, <1>2, <1>7 DEF OpenFile
<1>8. CASE ReadBlock
  BY <1>1, <1>8 DEF ReadBlock
<1>9. CASE FinishRead
  <2>1. pc = "read" /\ answer'.blocks \in {Padded, <<>>}
    BY <1>9, Answered DEF FinishRead
  <2> QED
    BY <2>1, NoBody, PaddedBody
<1> QED
  BY <1>3, <1>4, <1>5, <1>6, <1>7, <1>8, <1>9 DEF CallStep
----------------------------------------------------------------------------
(* A file system at rest *)

\* What is promised depends on the file system and on the request.
LEMMA PromiseStays ==
  ASSUME UNCHANGED <<at, version, size, req>>
  PROVE  Promise(req.uri)' = Promise(req.uri) /\ Described(req.uri)' = Described(req.uri)
<1>1. \A p : NodeAt(p)' = NodeAt(p)
  BY DEF NodeAt
<1>2. \A p : KindAt(p)' = KindAt(p)
  BY <1>1 DEF KindAt
<1>3. \A p : Indexes(p)' = Indexes(p) /\ IndexOf(p)' = IndexOf(p)
  BY <1>1 DEF Indexes, IndexOf
<1>4. \A p : Links(p)' = Links(p)
  BY <1>2 DEF Links, IsDir
<1>5. \A n : Content(n)' = Content(n)
  BY DEF Content
<1>6. \A p : Serves(p)' = Serves(p)
  BY <1>2, <1>5 DEF Serves
<1> QED
  BY <1>2, <1>3, <1>4, <1>6 DEF Promise, Described, IsDir

\* HEAD gets what GET gets, without the body.
LEMMA FoundAnswer ==
  ASSUME NEW type, NEW length, NEW blocks, NEW links, Found(type, length, blocks, links)
  PROVE  LET whole == Ok(type, length, blocks, links, Closes(req))
         IN answer' = IF req.method = "GET" THEN whole ELSE Headed(whole)
BY DEF Found, Headed, Ok, Response

LEMMA MissingAnswer ==
  ASSUME Missing
  PROVE  answer' = NotFound /\ Headed(NotFound) = NotFound
BY DEF Missing, Headed, NotFound, Response

\* The first index is the one with the least number.
LEMMA IndexServed ==
  ASSUME KindAt(req.uri) \in TakenForDir, Described(req.uri), NEW k \in {1, 2}, FirstIndex(k)
  PROVE  Promise(req.uri) = Serves(Index(k)) /\ KindAt(Index(k)) = "file"
<1>1. DOMAIN validIndexes = {1, 2}
  BY DEF validIndexes
<1>2. Indexes(req.uri) \subseteq {1, 2} /\ k \in Indexes(req.uri)
      /\ \A j \in Indexes(req.uri) : k <= j
  BY <1>1 DEF Indexes, FirstIndex, Index
<1>3. Min(Indexes(req.uri)) = k
  BY <1>2 DEF Min
<1>4. Indexes(req.uri) # {} /\ IndexOf(req.uri) = Index(k)
  BY <1>2, <1>3 DEF IndexOf, Index
<1>5. KindAt(req.uri) = "dir" /\ IsDir(req.uri)
  BY DEF Described, IsDir, TakenForDir
<1> QED
  BY <1>4, <1>5 DEF Promise, Described

\* No index is there.
LEMMA ListServed ==
  ASSUME KindAt(req.uri) \in TakenForDir, Described(req.uri),
         NodeAt(Index(1)) = NoNode, NodeAt(Index(2)) = NoNode
  PROVE  Promise(req.uri) =
           IF Attr[at[req.uri]].owner
           THEN Ok("text/html", Cardinality(Links(req.uri)), <<>>, Links(req.uri), Closes(req))
           ELSE NotFound
<1>1. DOMAIN validIndexes = {1, 2}
  BY DEF validIndexes
<1>2. Indexes(req.uri) = {}
  BY <1>1 DEF Indexes, Index
<1>3. KindAt(req.uri) = "dir" /\ IsDir(req.uri)
  BY DEF Described, IsDir, TakenForDir
<1> QED
  BY <1>2, <1>3 DEF Promise

\* The path that is opened is the one that serves the request.
LEMMA PathServed ==
  ASSUME AtRest, pc \in {"open", "read"}, Described(req.uri)
  PROVE  Promise(req.uri) = Serves(path) /\ KindAt(path) = "file"
<1>1. CASE path = req.uri /\ KindAt(path) = "file"
  BY <1>1 DEF Promise, IsDir
<1>2. ASSUME KindAt(req.uri) \in TakenForDir,
             NEW k \in {1, 2}, FirstIndex(k), path = Index(k)
      PROVE  Promise(req.uri) = Serves(path) /\ KindAt(path) = "file"
  BY <1>2, IndexServed
<1> QED
  BY <1>1, <1>2 DEF AtRest, Located

\* What was read to the end of a file at rest is its content.
LEMMA WholeContent ==
  ASSUME FileInv, RestInv, quiet, pc = "read", ReadEnds, KindAt(path) = "file"
  PROVE  /\ Padded = Content(at[path]) /\ Len(Content(at[path])) = sb.size
<1>1. /\ handle = at[path] /\ handle \in Node /\ sb = StatOf(handle)
      /\ Len(data) <= size[handle] /\ size[handle] \in Nat /\ sb.size \in Nat
      /\ data \in Seq(Block \cup {Unset})
      /\ \A i \in DOMAIN data : data[i] = <<handle, version[handle]>>
      /\ Len(data) = sb.size \/ Len(data) >= size[handle]
  BY DEF FileInv, RestInv, AtRest, Reading, TypeOK, Stat, ReadEnds, Source
<1>2. Attr[handle].kind = "file"
  BY <1>1, StatType DEF KindAt, FileInv
<1>3. sb.size = size[handle] /\ DOMAIN data = 1..sb.size
  BY <1>1, <1>2 DEF StatOf
<1>4. Content(handle) = [i \in 1..sb.size |-> <<handle, version[handle]>>]
  BY <1>3 DEF Content
<1>5. Padded = [i \in 1..sb.size |-> <<handle, version[handle]>>]
  BY <1>1, <1>3 DEF Padded
<1> QED
  BY <1>1, <1>4, <1>5

\* A step of the lookup goes on from what the step before has found out, and an
\* answer is what is promised.
LEMMA CallKeepsRest ==
  ASSUME FileInv, RestInv, quiet, CallStep, UNCHANGED <<fsVars, quiet, inPlace>>
  PROVE  AtRest' /\ QuietExact'
<1>0. /\ UNCHANGED <<at, version, size>> /\ quiet' = quiet
      /\ \A p : NodeAt(p)' = NodeAt(p) /\ KindAt(p)' = KindAt(p)
      /\ \A n : StatOf(n)' = StatOf(n)
      /\ AtRest
  BY DEF fsVars, NodeAt, KindAt, StatOf, RestInv
<1>1. ASSUME req' = req, pc' = "answered",
             Described(req.uri) =>
               answer' = IF req.method = "GET" THEN Promise(req.uri)
                         ELSE Headed(Promise(req.uri))
      PROVE  AtRest' /\ QuietExact'
  <2>1. Promise(req.uri)' = Promise(req.uri) /\ Described(req.uri)' = Described(req.uri)
    BY <1>0, <1>1, PromiseStays
  <2>2. Headed(Promise(req.uri))' = Headed(Promise(req.uri))
    BY <2>1 DEF Headed
  <2>3. QuietExact'
    BY <1>1, <2>1, <2>2 DEF QuietExact
  <2>4. AtRest'
    BY <1>1 DEF AtRest
  <2> QED
    BY <2>3, <2>4
<1>2. ASSUME Missing, req' = req, Described(req.uri) => Promise(req.uri) = NotFound
      PROVE  AtRest' /\ QuietExact'
  <2>1. pc' = "answered"
    BY <1>2 DEF Missing
  <2> QED
    BY <1>1, <1>2, <2>1, MissingAnswer
<1>3. ASSUME NEW type, NEW length, NEW blocks, NEW links, req' = req,
             Found(type, length, blocks, links),
             Described(req.uri) =>
               Promise(req.uri) = Ok(type, length, blocks, links, Closes(req))
      PROVE  AtRest' /\ QuietExact'
  <2>1. pc' = "answered"
    BY <1>3 DEF Found
  <2> QED
    BY <1>1, <1>3, <2>1, FoundAnswer
<1>4. ASSUME pc' # "answered" PROVE QuietExact'
  BY <1>4 DEF QuietExact
<1>5. CASE Call
  <2>1. CASE req.uri = TooLong
    <3>1. NodeAt(req.uri) = NoNode /\ KindAt(req.uri) = "none"
      BY <2>1, ResourceHostAssumption DEF NodeAt, KindAt
    <3>2. Promise(req.uri) = NotFound
      BY <3>1 DEF Promise, IsDir
    <3> QED
      BY <1>2, <1>5, <2>1, <3>2 DEF Call
  <2>2. CASE req.uri # TooLong
    <3>1. pc' = "stat" /\ path' = req.uri /\ req' = req
      BY <1>5, <2>2 DEF Call
    <3> QED
      BY <1>4, <3>1 DEF AtRest
  <2> QED
    BY <2>1, <2>2
<1>6. CASE StatPath
  <2>1. pc = "stat" /\ path = req.uri /\ req' = req /\ path' = path
    BY <1>0, <1>6 DEF StatPath, AtRest
  <2>2. CASE KindAt(path) \in {"none", "char", "pipe"} /\ Missing
    BY <1>2, <2>1, <2>2 DEF Promise, IsDir
  <2>3. CASE KindAt(path) \in TakenForDir /\ dirSb' = StatOf(at[path]) /\ pc' = "probe1"
    BY <1>0, <1>4, <2>1, <2>3 DEF AtRest
  <2>4. CASE KindAt(path) = "file" /\ sb' = StatOf(at[path]) /\ pc' = "open"
    <3>1. NodeAt(path) # NoNode
      BY <2>4 DEF KindAt
    <3> QED
      BY <1>0, <1>4, <2>1, <2>4, <3>1 DEF AtRest, Located
  <2> QED
    BY <1>6, <2>2, <2>3, <2>4 DEF StatPath
<1>7. ASSUME NEW k \in {1, 2}, pc \in {"probe1", "probe2"}, Probe(k),
             k = 1 => pc = "probe1", k = 2 => pc = "probe2"
      PROVE  AtRest' /\ QuietExact'
  <2>1. /\ path = req.uri /\ KindAt(path) \in TakenForDir /\ dirSb = StatOf(at[path])
        /\ k = 2 => NodeAt(Index(1)) = NoNode
        /\ req' = req /\ dirSb' = dirSb
    BY <1>0, <1>7 DEF AtRest, Probe
  <2>2. \A j : Index(j)' = Index(j)
    BY <2>1 DEF Index
  <2>3. CASE NodeAt(Index(k)) # NoNode
    <3>1. path' = Index(k) /\ sb' = StatOf(NodeAt(Index(k))) /\ pc' = "open"
      BY <1>7, <2>1, <2>3 DEF Probe, Index, StatOfIndex
    <3>2. NodeAt(Index(k)) = at[Index(k)]
      BY <2>3, StatType DEF FileInv
    <3>3. FirstIndex(k)'
      BY <1>0, <2>1, <2>2, <2>3 DEF FirstIndex
    <3>4. AtRest'
      BY <1>0, <2>1, <2>2, <2>3, <3>1, <3>2, <3>3 DEF AtRest, Located
    <3> QED
      BY <1>4, <3>1, <3>4
  <2>4. CASE NodeAt(Index(k)) = NoNode
    <3>1. path' = path /\ pc' = (IF k = 1 THEN "probe2" ELSE "list")
      BY <1>7, <2>1, <2>4 DEF Probe, Index
    <3>2. AtRest'
      BY <1>0, <2>1, <2>2, <2>4, <3>1 DEF AtRest
    <3> QED
      BY <1>4, <3>1, <3>2
  <2> QED
    BY <2>3, <2>4
<1>8. CASE GenerateDirList
  <2>1. /\ path = req.uri /\ KindAt(path) \in TakenForDir /\ dirSb = StatOf(at[path])
        /\ NodeAt(Index(1)) = NoNode /\ NodeAt(Index(2)) = NoNode
        /\ req' = req
    BY <1>0, <1>8 DEF GenerateDirList, AtRest
  <2>2. dirSb.owner = Attr[at[path]].owner
    BY <2>1 DEF StatOf
  <2>3. CASE dirSb.owner
    <3>1. Found("text/html", Cardinality(Links(path)), <<>>, Links(path))
      BY <1>8, <2>3 DEF GenerateDirList
    <3>2. Described(req.uri) =>
            Promise(req.uri) = Ok("text/html", Cardinality(Links(path)), <<>>, Links(path),
                                  Closes(req))
      BY <2>1, <2>2, <2>3, ListServed
    <3> QED
      BY <1>3, <2>1, <3>1, <3>2
  <2>4. CASE ~dirSb.owner
    BY <1>2, <1>8, <2>1, <2>2, <2>4, ListServed DEF GenerateDirList
  <2> QED
    BY <2>3, <2>4
<1>9. CASE OpenFile
  <2>1. /\ pc = "open" /\ UNCHANGED <<req, path, sb, data>>
        /\ NodeAt(path) # NoNode /\ NodeAt(path) = at[path] /\ sb = StatOf(at[path])
        /\ data = <<>> /\ at[path] \in Node /\ size[at[path]] \in Nat
    BY <1>0, <1>9, StatType DEF OpenFile, AtRest, FileInv, Reading, TypeOK
  <2>2. CASE sb.owner /\ KindAt(path) \in CanBeOpened /\ handle' = at[path] /\ pc' = "read"
    <3>1. Located'
      BY <1>0, <2>1 DEF AtRest, Located, FirstIndex, Index
    <3>4. Len(data') <= size'[handle']
      BY <1>0, <2>1, <2>2
    <3>5. NodeAt(path)' # NoNode /\ (sb = StatOf(at[path]))' /\ KindAt(path)' = KindAt(path)
      BY <1>0, <2>1
    <3>6. AtRest'
      BY <1>0, <2>1, <2>2, <3>1, <3>4, <3>5 DEF AtRest
    <3> QED
      BY <1>4, <2>2, <3>6
  <2>3. CASE pc' = "blocked"
    BY <1>4, <2>3 DEF AtRest
  <2>4. CASE (~sb.owner \/ KindAt(path) \in {"none", "socket"}) /\ Missing
    <3>1. KindAt(path) = "file" => Serves(path) = NotFound
      BY <2>1, <2>4 DEF Serves, StatOf
    <3>2. Described(req.uri) => Promise(req.uri) = NotFound
      BY <1>0, <2>1, <3>1, PathServed
    <3> QED
      BY <1>2, <2>1, <2>4, <3>2
  <2> QED
    BY <1>9, <2>2, <2>3, <2>4 DEF OpenFile
<1>10. CASE ReadBlock
  <2>1. /\ pc = "read" /\ UNCHANGED <<pc, req, path, sb, handle>>
        /\ Len(data) < size[handle]
        /\ data' = Append(data, <<handle, version[handle]>>)
    BY <1>10 DEF ReadBlock, Source
  <2>2. data \in Seq(Block \cup {Unset}) /\ size[handle] \in Nat
    BY <2>1 DEF FileInv, TypeOK
  <2>3. Len(data') = Len(data) + 1
    <3> DEFINE x == <<handle, version[handle]>>
    <3>1. data' = Append(data, x)
      BY <2>1
    <3> HIDE DEF x
    <3> QED
      BY <2>2, <3>1
  <2>4. Len(data') <= size'[handle']
    BY <1>0, <2>1, <2>2, <2>3
  <2>5. Located'
    BY <1>0, <2>1 DEF AtRest, Located, FirstIndex, Index
  <2>6. AtRest'
    BY <1>0, <2>1, <2>4, <2>5 DEF AtRest
  <2> QED
    BY <1>4, <2>1, <2>6
<1>11. CASE FinishRead
  <2>1. /\ pc = "read" /\ ReadEnds /\ req' = req
        /\ Found(LookupMimeType(GetExtension(path)), sb.size, Padded, {})
        /\ sb = StatOf(at[path]) /\ sb.owner /\ KindAt(path) \in CanBeOpened
    BY <1>0, <1>11 DEF FinishRead, AtRest
  <2> DEFINE whole == Ok(LookupMimeType(GetExtension(path)), sb.size, Padded, {}, Closes(req))
  <2>2. ASSUME Described(req.uri) PROVE Promise(req.uri) = whole
    <3>1. Promise(req.uri) = Serves(path) /\ KindAt(path) = "file"
      BY <1>0, <2>1, <2>2, PathServed
    <3>2. Padded = Content(at[path]) /\ Len(Content(at[path])) = sb.size
      BY <2>1, <3>1, WholeContent
    <3>3. Serves(path) = whole
      BY <2>1, <3>2 DEF Serves, StatOf
    <3> QED
      BY <3>1, <3>3
  <2> QED
    BY <1>3, <2>1, <2>2
<1> QED
  BY <1>5, <1>6, <1>7, <1>8, <1>9, <1>10, <1>11 DEF CallStep, ProbeFirst, ProbeSecond

----------------------------------------------------------------------------
(* The theorems *)

\* The request begins with nothing read and no body.
LEMMA FileInit == Init => FileInv
<1> SUFFICES ASSUME Init PROVE FileInv
  OBVIOUS
<1>1. DOMAIN data = {} /\ data = <<>>
  BY DEF Init
<1>2. DOMAIN answer.blocks = {}
  BY DEF Init, NotFound, Response
<1> QED
  BY <1>1, <1>2, TypeInit DEF FileInv, Reading, OneFile

\* Every step of the request and of the other programs keeps the invariant.
LEMMA FileStep == FileInv /\ [Next]_vars => FileInv'
<1>1. ASSUME FileInv, CallStep, UNCHANGED <<fsVars, quiet, inPlace>> PROVE FileInv'
  <2>1. UNCHANGED fsVars /\ inPlace' = inPlace
    BY <1>1
  <2> QED
    BY <1>1, <2>1, CallKeepsTypes, CallKeepsReading, CallKeepsOneFile DEF FileInv
<1>2. ASSUME FileInv, Others PROVE FileInv'
  BY <1>2, OthersKeepTypes, OthersKeepFile DEF FileInv
<1>3. ASSUME FileInv, UNCHANGED vars PROVE FileInv'
  BY <1>3 DEF FileInv, TypeOK, Reading, OneFile, vars, fsVars, callVars
<1> QED
  BY <1>1, <1>2, <1>3 DEF Next

\* Whatever other programs do between the system calls, the types and what the
\* open file says of the data hold.
THEOREM FileAlways == Spec => []FileInv
BY FileInit, FileStep, PTL DEF Spec

\* Every variable keeps its type; a file is open exactly while it is read, and
\* no more is read than stat promised (readFile).
THEOREM ResourceTypeCorrect == Spec => []TypeOK
<1>1. FileInv => TypeOK
  BY DEF FileInv
<1> QED
  BY <1>1, FileAlways, PTL

\* A body never mixes two files, nor two versions of one unless it was rewritten
\* where it is (readFile keeps the file open).
THEOREM BodyOfOneFile == Spec => []OneFile
<1>1. FileInv => OneFile
  BY DEF FileInv
<1> QED
  BY <1>1, FileAlways, PTL

\* Before the lookup nothing is known.
LEMMA RestInit == Init => RestInv
<1> SUFFICES ASSUME Init PROVE RestInv
  OBVIOUS
<1>1. pc = "idle" /\ ~inPlace
  BY DEF Init
<1>2. AtRest /\ QuietExact
  BY <1>1 DEF AtRest, QuietExact
<1> QED
  BY <1>1, <1>2 DEF RestInv

\* The first change ends the rest; until then every step keeps what is known.
LEMMA RestStep == FileInv /\ RestInv /\ [Next]_vars => RestInv'
<1>1. ASSUME FileInv, RestInv, CallStep, UNCHANGED <<fsVars, quiet, inPlace>> PROVE RestInv'
  <2>1. UNCHANGED <<quiet, inPlace>>
    BY <1>1
  <2>2. CASE quiet
    <3>1. AtRest' /\ QuietExact'
      BY <1>1, <2>2, CallKeepsRest
    <3> QED
      BY <1>1, <2>1, <3>1 DEF RestInv
  <2>3. CASE ~quiet
    BY <1>1, <2>1, <2>3 DEF RestInv, QuietExact
  <2> QED
    BY <2>2, <2>3
<1>2. ASSUME FileInv, RestInv, Others PROVE RestInv'
  <2>1. ~quiet'
    BY <1>2 DEF Others
  <2> QED
    BY <2>1 DEF RestInv, QuietExact
<1>3. ASSUME FileInv, RestInv, UNCHANGED vars PROVE RestInv'
  <2>1. /\ UNCHANGED <<at, version, size, req, pc, path, sb, dirSb, handle, data, answer>>
        /\ UNCHANGED <<quiet, inPlace>>
    BY <1>3 DEF vars, fsVars, callVars
  <2>2. AtRest' = AtRest
    BY <2>1 DEF AtRest, Located, NodeAt, KindAt, StatOf, FirstIndex, Index
  <2>3. Promise(req.uri)' = Promise(req.uri) /\ Described(req.uri)' = Described(req.uri)
    BY <2>1, PromiseStays
  <2>4. QuietExact' = QuietExact
    BY <2>1, <2>3 DEF QuietExact, Headed
  <2> QED
    BY <1>3, <2>1, <2>2, <2>4 DEF RestInv
<1> QED
  BY <1>1, <1>2, <1>3 DEF Next

\* When no other program changes anything during a request for what the comments of
\* getResource speak of, the answer has the status, type, length and body that they
\* promise; sockets, block devices and an index that is no file are left out.
THEOREM ExactAtRest == Spec => []QuietExact
<1>1. RestInv => QuietExact
  BY DEF RestInv
<1> QED
  BY <1>1, FileAlways, RestInit, RestStep, PTL DEF Spec
=============================================================================
