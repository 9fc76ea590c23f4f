--------------------------- MODULE MCResourceHost ---------------------------
(* File systems and requests for the run of ResourceHost. *)
EXTENDS ResourceHost

d == <<"d">>
index1 == <<"index", "html">>
index2 == <<"index", "htm">>
model == <<"m", "iges">>
Long == <<<<"too", "long">>>>

\* The base directory with a file, a directory below it, and what is in that.
Paths == {<<>>, <<model>>, <<d>>, <<d, index1>>, <<d, index2>>, <<d, <<"", "h">>>>}

Nodes == {"base", "dir", "sub", "file1", "file2", "locked", "socket", "pipe", "device"}
Attrs == [n \in Nodes |->
            [kind |-> CASE n \in {"base", "dir", "sub"} -> "dir"
                        [] n = "socket" -> "socket"
                        [] n = "pipe" -> "pipe"
                        [] n = "device" -> "block"
                        [] OTHER -> "file",
             owner |-> n # "locked"]]

Only(p, n) == [q \in Paths |-> IF q = p THEN n
                               ELSE IF q = <<>> THEN "base" ELSE "none"]
Dir(i1, i2, h) ==
  [Only(<<d>>, "dir") EXCEPT ![<<d, index1>>] = i1, ![<<d, index2>>] = i2,
                             ![<<d, <<"", "h">>>>] = h]

Layouts ==
  {Only(<<model>>, n) : n \in {"file1", "locked", "pipe", "none"}}
    \cup {Only(<<d>>, n) : n \in {"socket", "device"}}
    \cup {Dir(n, "none", "none") : n \in {"pipe", "device"}}
    \cup {Dir(i1, i2, h) : i1 \in {"none", "file1", "sub", "locked"},
                           i2 \in {"none", "file2"}, h \in {"none", "socket"}}

Get(p) == [method |-> "GET", uri |-> p, version |-> "HTTP/1.1", close |-> FALSE]

Requests ==
  {Get(<<model>>), Get(<<d>>), Get(<<>>), Get(Long),
   [Get(<<d>>) EXCEPT !.method = "HEAD"], [Get(<<model>>) EXCEPT !.version = "HTTP/1.0"],
   [Get(<<model>>) EXCEPT !.close = TRUE]}
=============================================================================
