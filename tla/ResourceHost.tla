---------------------------- MODULE ResourceHost ----------------------------
(***************************************************************************)
(* A GET or HEAD request served from the file system: handleGet of         *)
(* HTTPServer.cpp, ResourceHost and Resource.  A step is one system call   *)
(* of the lookup, because other programs may change the file system in     *)
(* between: the path is resolved anew by every stat, open and opendir,     *)
(* while a file that is open stays the same file.                          *)
(*                                                                         *)
(* The host's only caller is handleGet, whose own call is commented out in *)
(* handleRequest; what is modelled is that code as it stands.              *)
(***************************************************************************)
EXTENDS Integers, Sequences, FiniteSets
LOCAL INSTANCE FiniteSetsExt

CONSTANTS
  Path,         \* paths below baseDiskPath; a path is a sequence of names
  Node,         \* the files, directories, ... that paths refer to
  NoNode,
  Attr,         \* kind and mode of each node
  Layout,       \* the file systems to begin with
  Request,      \* what clients ask for
  TooLong,      \* a URI of more than 255 characters, or of none
  MaxSize,      \* bound of the model: blocks of a file,
  MaxChanges    \* and changes that other programs make

\* A name is the sequence of its parts between the dots; a hidden one begins
\* with an empty part.
Hidden(name) == name[1] = ""

\* "block" and "char" are devices.  S_IFDIR is one bit of the type of a socket
\* too, and of a block device.
Kind == {"file", "dir", "socket", "block", "char", "pipe"}
TakenForDir == {"dir", "socket", "block"}

\* A directory can be opened, a socket cannot, and to open a pipe waits for a
\* program at its other end.
CanBeOpened == {"file", "dir", "block", "char"}

ASSUME ResourceHostAssumption ==
  /\ NoNode \notin Node
  /\ Attr \in [Node -> [kind : Kind, owner : BOOLEAN]]   \* owner: mode & S_IRWXU
  /\ Layout \subseteq [Path -> Node \cup {NoNode}]
  /\ TooLong \notin Path
  /\ Request \subseteq [method : {"GET", "HEAD"}, uri : Path \cup {TooLong},
                        version : {"HTTP/1.0", "HTTP/1.1"}, close : BOOLEAN]
  /\ MaxSize \in Nat \ {0} /\ MaxChanges \in Nat

VARIABLES
  at,         \* the node of each path
  version,    \* of each node: counts the times it was rewritten,
  size,       \* and the blocks it has
  changes,    \* changes made so far
  pc,
  req,        \* the request in hand
  path,       \* the path that the next step looks at
  sb,         \* what the last successful stat said: kind, mode and size
  dirSb,      \* what it said of the directory whose indexes are probed
  handle,     \* the node of the open file
  data,       \* the blocks read so far
  answer,     \* the response
  quiet,      \* history: no change since the request came,
  inPlace     \* a node was rewritten, cut or extended since then

fsVars == <<at, version, size, changes>>
callVars == <<pc, req, path, sb, dirSb, handle, data, answer>>
vars == <<fsVars, callVars, quiet, inPlace>>

NodeAt(p) == IF p \in Path THEN at[p] ELSE NoNode

KindAt(p) == IF NodeAt(p) = NoNode THEN "none" ELSE Attr[NodeAt(p)].kind

\* A block is what a node held at some time; Unset is memory that nothing has
\* been read into.
Unset == <<NoNode, 0>>
Block == Node \X Nat
Stat == [kind : Kind, owner : BOOLEAN, size : Nat]
NoStat == [kind |-> "pipe", owner |-> FALSE, size |-> 0]

Response(status, type, length, blocks, links, close) ==
  [status |-> status, type |-> type, length |-> length, blocks |-> blocks,
   links |-> links, close |-> close]
Ok(type, length, blocks, links, close) == Response("OK", type, length, blocks, links, close)
NotFound == Response("NOT_FOUND", "text/plain", 0, <<>>, {}, TRUE)

TypeOK ==
  /\ at \in [Path -> Node \cup {NoNode}]
  /\ version \in [Node -> Nat]
  /\ size \in [Node -> 0..MaxSize]
  /\ pc \in {"idle", "stat", "probe1", "probe2", "list", "open", "read", "blocked", "answered"}
  /\ sb \in Stat /\ dirSb \in Stat
  /\ handle \in Node \cup {NoNode}
  /\ data \in Seq(Block \cup {Unset})
  /\ Len(data) <= sb.size
  /\ pc = "read" <=> handle # NoNode

Init ==
  /\ at \in Layout
  /\ version = [n \in Node |-> 0]
  /\ size = [n \in Node |-> IF Attr[n].kind = "file" THEN 1 ELSE 0]
  /\ changes = 0
  /\ pc = "idle"
  /\ req \in Request
  /\ path = <<>>
  /\ sb = NoStat /\ dirSb = NoStat
  /\ handle = NoNode
  /\ data = <<>>
  /\ answer = NotFound
  /\ quiet = TRUE /\ inPlace = FALSE
----------------------------------------------------------------------------
(* Other programs *)

Used(n) == \E p \in Path : at[p] = n
Below(p) == {q \in Path : Len(q) = Len(p) + 1 /\ SubSeq(q, 1, Len(p)) = p}
IsDir(p) == KindAt(p) = "dir"
Parent(p) == SubSeq(p, 1, Len(p) - 1)

\* A new file, or one that is renamed over what was there.
Place(p, n) ==
  /\ p # <<>> /\ IsDir(Parent(p)) /\ ~IsDir(p)
  /\ ~Used(n) /\ Attr[n].kind # "dir"
  /\ at' = [at EXCEPT ![p] = n]
  /\ UNCHANGED <<version, size>>

Remove(p) ==
  /\ p # <<>> /\ NodeAt(p) # NoNode
  /\ \A q \in Below(p) : at[q] = NoNode
  /\ at' = [at EXCEPT ![p] = NoNode]
  /\ UNCHANGED <<version, size>>

\* The file is written where it is: new content of any length.
Rewrite(n, s) ==
  /\ Attr[n].kind = "file" /\ Used(n)
  /\ version' = [version EXCEPT ![n] = @ + 1]
  /\ size' = [size EXCEPT ![n] = s]
  /\ UNCHANGED at

Others ==
  /\ changes < MaxChanges
  /\ pc \notin {"idle", "blocked", "answered"}
  /\ changes' = changes + 1
  /\ quiet' = FALSE
  /\ \/ /\ \E p \in Path : Remove(p) \/ \E n \in Node : Place(p, n)
        /\ UNCHANGED inPlace
     \/ /\ \E n \in Node, s \in 0..MaxSize : Rewrite(n, s)
        /\ inPlace' = TRUE
  /\ UNCHANGED callVars
----------------------------------------------------------------------------
(* Resource and handleGet *)

validIndexes == <<<<"index", "html">>, <<"index", "htm">>>>

\* Entries of MimeTypes.inc: an extension is there once, twice with different
\* types, as iges and ten others are, or not at all.
mimePairs == <<<<"html", "text/html">>, <<"iges", "application/iges">>,
               <<"iges", "model/iges">>, <<"txt", "text/plain">>>>

Pairs(ext) == {i \in DOMAIN mimePairs : mimePairs[i][1] = ext}

\* The dictionary keeps the first pair of an extension.
LookupMimeType(ext) ==
  IF Pairs(ext) = {} THEN "text/html" ELSE mimePairs[Min(Pairs(ext))][2]

\* What follows the last dot of the whole path: with no dot in the last name
\* that is "" or text with a slash in it, for which there is no entry.
GetExtension(p) ==
  IF p = <<>> \/ Len(p[Len(p)]) = 1 THEN "" ELSE p[Len(p)][Len(p[Len(p)])]

\* HTTP/1.0, or a header Connection: close
Closes(r) == r.version = "HTTP/1.0" \/ r.close

\* A resource was found: the length is its size, the body goes out for GET only.
Found(type, length, blocks, links) ==
  /\ pc' = "answered"
  /\ answer' = IF req.method = "GET"
               THEN Ok(type, length, blocks, links, Closes(req))
               ELSE Ok(type, length, <<>>, {}, Closes(req))

\* No resource; to look again until there is one would be wrong.
TryAgain == pc' = "stat" /\ UNCHANGED answer

Missing == pc' = "answered" /\ answer' = NotFound

Call ==
  /\ pc = "idle"
  /\ IF req.uri = TooLong
     THEN Missing /\ UNCHANGED path
     ELSE pc' = "stat" /\ path' = req.uri /\ UNCHANGED answer
  /\ UNCHANGED <<req, sb, dirSb, handle, data>>
----------------------------------------------------------------------------
(* getResource, readDirectory, readFile *)

DirSize == 1    \* st_size of a directory is not 0, and nothing can be read

StatOf(n) ==
  [kind |-> Attr[n].kind, owner |-> Attr[n].owner,
   size |-> IF Attr[n].kind = "dir" THEN DirSize ELSE size[n]]

StatPath ==
  /\ pc = "stat"
  /\ \/ /\ KindAt(path) \in {"none", "char", "pipe"}
        /\ Missing
        /\ UNCHANGED <<sb, dirSb>>
     \/ /\ KindAt(path) \in TakenForDir
        /\ dirSb' = StatOf(at[path])
        /\ pc' = "probe1"
        /\ UNCHANGED <<sb, answer>>
     \/ /\ KindAt(path) = "file"
        /\ sb' = StatOf(at[path])
        /\ pc' = "open"
        /\ UNCHANGED <<dirSb, answer>>
  /\ UNCHANGED <<req, path, handle, data>>

\* readFile gets what stat said of the index; what it said of the directory
\* would be wrong.
StatOfDir(n) == dirSb
StatOfIndex(n) == StatOf(n)

\* An index may be anything that has the name, a directory as well.
Probe(k) ==
  LET index == path \o <<validIndexes[k]>> IN
  /\ IF NodeAt(index) # NoNode
     THEN path' = index /\ sb' = StatOfIndex(NodeAt(index)) /\ pc' = "open"
     ELSE pc' = (IF k = 1 THEN "probe2" ELSE "list") /\ UNCHANGED <<path, sb>>
  /\ UNCHANGED <<req, dirSb, handle, data, answer>>

ProbeFirst == pc = "probe1" /\ Probe(1)

ProbeSecond == pc = "probe2" /\ Probe(2)

\* The links of a listing begin with what find_last_of leaves of the path: a
\* slash, for every directory.  The listing of what is no directory is "".
Links(p) ==
  IF IsDir(p)
  THEN {<<q[Len(q)]>> : q \in {q \in Below(p) : at[q] # NoNode /\ ~Hidden(q[Len(q)])}}
  ELSE {}

GenerateDirList ==
  /\ pc = "list"
  /\ IF dirSb.owner
     THEN Found("text/html", Cardinality(Links(path)), <<>>, Links(path))
     ELSE Missing
  /\ UNCHANGED <<req, path, sb, dirSb, handle, data>>

\* The check of the mode is about the file of the stat, the open may find
\* another one.  Nobody opens the other end of a pipe.
OpenFile ==
  /\ pc = "open"
  /\ \/ /\ sb.owner /\ KindAt(path) \in CanBeOpened
        /\ handle' = at[path]
        /\ pc' = "read"
        /\ UNCHANGED answer
     \/ /\ sb.owner /\ KindAt(path) = "pipe"
        /\ pc' = "blocked"
        /\ UNCHANGED <<handle, answer>>
     \/ /\ ~sb.owner \/ KindAt(path) \in {"none", "socket"}
        /\ Missing
        /\ UNCHANGED handle
  /\ UNCHANGED <<req, path, sb, dirSb, data>>

\* Each block comes from the open file; to go by the path would be wrong.
SourceByPath == IF NodeAt(path) = NoNode THEN handle ELSE NodeAt(path)
Source == handle

\* The read ends at the length of the stat, or at the end of the file, which
\* the code does not look at; to go by the end of the file alone would be wrong.
AtEof == Len(data) >= size[Source]
ReadEnds == Len(data) = sb.size \/ Len(data) >= size[Source]

ReadBlock ==
  /\ pc = "read"
  /\ ~ReadEnds /\ Len(data) < size[Source]
  /\ data' = Append(data, <<Source, version[Source]>>)
  /\ UNCHANGED <<pc, req, path, sb, dirSb, handle, answer>>

\* The array of the new Resource has the length of the stat, whatever was read.
Padded == [i \in 1..sb.size |-> IF i \in DOMAIN data THEN data[i] ELSE Unset]

FinishRead ==
  /\ pc = "read"
  /\ ReadEnds
  /\ Found(LookupMimeType(GetExtension(path)), sb.size, Padded, {})
  /\ handle' = NoNode
  /\ data' = <<>>
  /\ UNCHANGED <<req, path, sb, dirSb>>
----------------------------------------------------------------------------
CallStep ==
  \/ Call
  \/ StatPath
  \/ ProbeFirst
  \/ ProbeSecond
  \/ GenerateDirList
  \/ OpenFile
  \/ ReadBlock
  \/ FinishRead

Next ==
  \/ CallStep /\ UNCHANGED <<fsVars, quiet, inPlace>>
  \/ Others
  \/ pc \in {"blocked", "answered"} /\ UNCHANGED vars

Spec == Init /\ [][Next]_vars

\* The call runs; nothing is assumed of the other programs.
FairSpec == Spec /\ WF_vars(CallStep /\ UNCHANGED <<fsVars, quiet, inPlace>>)
----------------------------------------------------------------------------
(* Properties *)

\* The content of the file n as it is now.
Content(n) == [i \in 1..size[n] |-> <<n, version[n]>>]

\* A file is served when its owner may do anything with it.
Serves(p) ==
  IF Attr[at[p]].owner
  THEN Ok(LookupMimeType(GetExtension(p)), Len(Content(at[p])), Content(at[p]), {},
          Closes(req))
  ELSE NotFound

Indexes(p) == {i \in DOMAIN validIndexes : NodeAt(p \o <<validIndexes[i]>>) # NoNode}
IndexOf(p) == p \o <<validIndexes[Min(Indexes(p))]>>

\* What the comments of getResource speak of: a directory, with a file for its
\* index if it has one, a regular file, and what is neither.  A socket and a block
\* device should be neither, but the test of S_IFDIR takes them for directories.
Described(p) ==
  /\ KindAt(p) \notin TakenForDir \ {"dir"}
  /\ IsDir(p) /\ Indexes(p) # {} => KindAt(IndexOf(p)) = "file"

\* What the comments promise for it: the file; for a directory its index, or the
\* list of its visible entries; nothing for all else.
Promise(p) ==
  CASE KindAt(p) = "file" -> Serves(p)
    [] IsDir(p) /\ Indexes(p) # {} -> Serves(IndexOf(p))
    [] IsDir(p) /\ Indexes(p) = {} /\ Attr[at[p]].owner ->
         Ok("text/html", Cardinality(Links(p)), <<>>, Links(p), Closes(req))
    [] OTHER -> NotFound

Headed(a) == Response(a.status, a.type, a.length, <<>>, {}, a.close)

\* When nothing changes during the request the answer is the one that the comments
\* of getResource promise, in status, type, length and body, for all that they speak
\* of; and HEAD gets what GET gets without the body.
QuietExact ==
  pc = "answered" /\ quiet /\ Described(req.uri) =>
    answer = IF req.method = "GET" THEN Promise(req.uri) ELSE Headed(Promise(req.uri))

\* However files are replaced during the request, a body never mixes two files,
\* and never two versions of a file unless it is rewritten where it is; memory
\* that was not read into is only at the end (readFile keeps the file open).
OneFile ==
  \A i, j \in DOMAIN answer.blocks :
    LET x == answer.blocks[i]
        y == answer.blocks[j]
    IN i < j => \/ y = Unset
                \/ x # Unset /\ x[1] = y[1] /\ (x = y \/ inPlace)

\* Every request is answered, whatever vanishes or shrinks on the way, unless what
\* is opened is a pipe: no step of getResource is tried again and the read does not
\* wait for what is missing.
EveryCallAnswered == pc = "idle" ~> pc \in {"blocked", "answered"}
=============================================================================
