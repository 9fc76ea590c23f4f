------------------------------- MODULE MCParts -------------------------------
(* Values and the run of the parts that nothing else runs beside: BufferUse,     *)
(* SendQueue and SendInfo, each with any caller.  They share nothing, so the run *)
(* has one of them at a time in use, and not every combination.                  *)
EXTENDS BufferUse, SendQueue, SendInfo

Bytes == {Zero, "a", "b"}

\* A byte, and a value of several bytes.
Widths == {1, 2}

PartsInit == Init /\ QueueInit /\ InfoInit

PartsNext ==
  \/ QueueInit /\ InfoInit /\ Next /\ UNCHANGED <<queueVars, infoVars>>
  \/ Init /\ InfoInit /\ QueueNext /\ UNCHANGED <<vars, infoVars>>
  \/ Init /\ QueueInit /\ InfoNext /\ UNCHANGED <<vars, queueVars>>

PartsSpec == PartsInit /\ [][PartsNext]_<<vars, queueVars, infoVars>>

\* The parts of the types have dots between them too.
PartBegins ==
  [part \in {"luoye", "source/text/info", "", "/luoye", "jpg", "jpgx", "ppt", "txt",
             "ms-powerpoint", "ms-excel"} |->
     CASE part = "luoye" -> "luo"
       [] part = "source/text/info" -> "sou"
       [] part = "" -> ""
       [] part = "/luoye" -> "/lu"
       [] part \in {"jpg", "jpgx"} -> "jpg"
       [] part = "ppt" -> "ppt"
       [] part = "txt" -> "txt"
       [] OTHER -> "ms-"]

Parts == DOMAIN PartBegins

TooLong == "renyifan and everybody else"
LongValues == {TooLong}
HeaderValues == {"renyifan", "24", TooLong}

Word(k, v) == [key |-> k, value |-> v]

Named(path, info) == [path |-> path, long |-> FALSE, info |-> info]
LongPath(path, info) == [Named(path, info) EXCEPT !.long = TRUE]

Author(v) == Word("author", v)
Age(v) == Word("age", v)

\* Names without a dot, with one and with two; words twice, in both orders, and
\* others; authors and paths that are too long, with and without an age.
Lines ==
  { Named(<<"luoye", "jpg">>, <<Author("renyifan"), Age("24")>>),
    Named(<<"luoye", "jpgx">>, <<Age("24"), Author("24")>>),
    Named(<<"luoye", "ppt">>, <<>>),
    Named(<<"source/text/info", "txt">>,
          <<Author("24"), Word("other", "24"), Author("renyifan")>>),
    Named(<<"luoye">>, <<Age("renyifan")>>),
    Named(<<"luoye", "txt", "jpg">>, <<Author(TooLong)>>),
    Named(<<"luoye", "jpg">>, <<Age("24"), Author(TooLong)>>),
    LongPath(<<"", "/luoye", "jpg">>, <<Word("other", "24")>>),
    LongPath(<<"luoye", "jpg">>, <<Author("24")>>) }
=============================================================================
