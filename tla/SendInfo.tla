------------------------------ MODULE SendInfo ------------------------------
(***************************************************************************)
(* What a post says about its file, and what the answer says: main() of    *)
(* client.c splits the chosen line of source.txt, getSendInfo fills the    *)
(* memory that malloc returned, postUrl names the type of the file with    *)
(* getFileType of util.c, and response() of server.c calls the same        *)
(* function for the type it was sent.                                      *)
(*                                                                         *)
(* A name is the sequence of its parts between the dots; of a part only    *)
(* the first three characters matter.  path, author and age lie side by    *)
(* side, 32 bytes each, and nothing checks that what is written fits.  The *)
(* exchange itself is in UploadClient.                                     *)
(***************************************************************************)
EXTENDS Integers, Sequences

CONSTANTS
  Part,      \* parts of names
  First3,    \* [part -> its first three characters]
  Line,      \* the lines of source.txt: the path and the words behind it
  Value,     \* what follows the first colon of a word
  Long,      \* the values that do not fit, with the key, into 32 bytes
  Garbage    \* any bytes nobody meant for the field, of a field beside it too

Key == {"author", "age"}

\* A word behind the path; one with another key is ignored.
Info == [key : Key \cup {"other"}, value : Value]
Name == Seq(Part) \ {<<>>}

Row(ext, type) == [ext |-> ext, type |-> type]

\* The comparisons of getFileType, in their order; the types as names.
Table ==
  << Row("bmp", <<"image/bmp">>),
     Row("gif", <<"image/gif">>),
     Row("ico", <<"image/x-icon">>),
     Row("jpg", <<"image/jpeg">>),
     Row("avi", <<"video/avi">>),
     Row("css", <<"text/css">>),
     Row("dll", <<"application/x-msdownload">>),
     Row("exe", <<"application/x-msdownload">>),
     Row("dtd", <<"text/xml">>),
     Row("mp3", <<"audio/mp3">>),
     Row("mpg", <<"video/mpg">>),
     Row("png", <<"image/png">>),
     Row("ppt", <<"application/vnd", "ms-powerpoint">>),
     Row("xls", <<"application/vnd", "ms-excel">>),
     Row("doc", <<"application/msword">>),
     Row("mp4", <<"video/mpeg4">>),
     Row("ppt", <<"application/x-ppt">>),
     Row("wma", <<"audio/x-ms-wma">>),
     Row("wmv", <<"video/x-ms-wmv">>) >>

Html == <<"text/html">>

ASSUME SendInfoAssumption ==
  /\ Line \subseteq [path : Name, long : BOOLEAN, info : Seq(Info)]
  /\ Long \subseteq Value
  /\ Garbage \notin Value
  /\ First3["ms-powerpoint"] = "ms-"
  /\ First3["ms-excel"] = "ms-"

VARIABLES
  at,       \* where the two programs are
  chosen,   \* the line that was chosen
  token,    \* the word that strtok returns next
  sInfo,    \* the author and the age that the memory of malloc holds
  posted,   \* the header lines of the post
  answer    \* the type that the response names

infoVars == <<at, chosen, token, sInfo, posted, answer>>

Unset == [key \in Key |-> Garbage]
NoLine == [path |-> <<>>, long |-> FALSE, info |-> <<>>]
Types == {Html} \cup {Table[n].type : n \in DOMAIN Table}

InfoTypeOK ==
  /\ at \in {"menu", "words", "sent", "ended"}
  /\ chosen \in Line \cup {NoLine}
  /\ token \in 1..(Len(chosen.info) + 1)
  /\ sInfo \in [Key -> Value \cup {Garbage}]
  /\ posted \in [type : Types, info : [Key -> Value \cup {Garbage}]]
  /\ answer \in Types

InfoInit ==
  /\ at = "menu"
  /\ chosen = NoLine
  /\ token = 1
  /\ sInfo = Unset
  /\ posted = [type |-> Html, info |-> Unset]
  /\ answer = Html
----------------------------------------------------------------------------
(* getFileType() *)

\* The first row that matches; without one, or without a dot, the type is HTML.
TypeOfRows(rows) ==
  IF rows = {} THEN Html
  ELSE Table[CHOOSE n \in rows : \A m \in rows : n <= m].type

\* The scan from the front stops at the first dot.
GetFileType(name) ==
  TypeOfRows({n \in DOMAIN Table : Len(name) > 1 /\ Table[n].ext = First3[name[2]]})
----------------------------------------------------------------------------
(* The client *)

\* malloc may return the memory that the last free gave back, with or without what
\* it held; nothing clears it.  An author that is too long goes on in the age and
\* is lost with it; a path that is too long goes on in the author, or beyond.
ChooseLine ==
  /\ at = "menu"
  /\ chosen' \in Line
  /\ token' = 1
  /\ \E lost \in SUBSET Key :
       /\ "age" \in lost /\ sInfo["author"] \in Long => "author" \in lost
       /\ chosen'.long => "author" \in lost
       /\ sInfo' = [k \in Key |-> IF k \in lost THEN Garbage ELSE sInfo[k]]
  /\ at' = "words"
  /\ UNCHANGED <<posted, answer>>

\* Comparisons that both take a word for an age.
EitherKey(w) == IF w.key \in Key THEN "age" ELSE w.key

KeyOf(w) == w.key

\* Every author in a field that is too small for it.
AlwaysRunsOver(key, v) == TRUE

\* An author that is too long runs over into the age, and an age is written over
\* the rest of such an author.
RunsOver(key, v) == IF key = "author" THEN v \in Long ELSE sInfo["author"] \in Long

\* sprintf into one field, and what that makes of the other.
Filled(key, v) ==
  [k \in Key |-> IF k = key THEN v ELSE IF RunsOver(key, v) THEN Garbage ELSE sInfo[k]]

\* The header is what follows the first colon, and replaces an earlier one.
GetSendInfo ==
  /\ at = "words"
  /\ token \in DOMAIN chosen.info
  /\ LET w == chosen.info[token] IN
       sInfo' = IF KeyOf(w) \in Key THEN Filled(KeyOf(w), w.value) ELSE sInfo
  /\ token' = token + 1
  /\ UNCHANGED <<at, chosen, posted, answer>>

\* A word has been written over the end of the path: it is another name.
PathCut == chosen.long /\ \E n \in DOMAIN chosen.info : chosen.info[n].key \in Key

\* Every type overflows type[20], a path or an age may overflow what it is in, so
\* the client may crash here; without the file it ends.
PostUrl ==
  /\ at = "words"
  /\ token = Len(chosen.info) + 1
  /\ \/ /\ \E type \in IF PathCut THEN Types ELSE {GetFileType(chosen.path)} :
              posted' = [type |-> type, info |-> sInfo]
        /\ at' = "sent"
     \/ /\ at' = "ended"
        /\ UNCHANGED posted
  /\ UNCHANGED <<chosen, token, sInfo, answer>>
----------------------------------------------------------------------------
(* The server, and the end of the post *)

\* content_Type is the value of the header line, with the CR behind it.
TypeAnswered == GetFileType(posted.type)

Reply ==
  /\ at = "sent"
  /\ answer' = TypeAnswered
  /\ at' = "menu"
  /\ UNCHANGED <<chosen, token, sInfo, posted>>

InfoNext ==
  \/ ChooseLine
  \/ GetSendInfo
  \/ PostUrl
  \/ Reply
  \/ at = "ended" /\ UNCHANGED infoVars

InfoSpec == InfoInit /\ [][InfoNext]_infoVars
----------------------------------------------------------------------------
(* Properties *)

WordsOf(key) == {n \in DOMAIN chosen.info : chosen.info[n].key = key}

\* The authors that the line names fit into their field.
AuthorsFit == \A n \in WordsOf("author") : chosen.info[n].value \notin Long

\* The author and the age of a post are those of the line that was chosen when it
\* names them, the last if it does so twice, in whatever order and whatever an
\* earlier post left in the memory, a long author too; only an author of the line
\* itself that is too long may spoil one of them (getSendInfo).
HeadersOfLine ==
  at = "sent" /\ AuthorsFit =>
    \A key \in Key : \A n \in WordsOf(key) :
      (\A m \in WordsOf(key) : m <= n) => posted.info[key] = chosen.info[n].value

\* An author or age that the line does not name is the one of the post before, or
\* garbage, which may be what ran over from the field beside it: the memory is not
\* cleared, and a word never passes for the other header (main, getSendInfo).
HeadersLeft ==
  [][at = "words" /\ at' = "sent" =>
       \A key \in Key :
         WordsOf(key) = {} => posted'.info[key] \in {posted.info[key], Garbage}]_infoVars

\* The answer names HTML whatever was posted: a type has no dot, or none with a
\* known extension behind it (response with getFileType).
AnswerIsHtml == answer = Html
=============================================================================
