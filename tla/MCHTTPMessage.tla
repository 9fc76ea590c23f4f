--------------------------- MODULE MCHTTPMessage ---------------------------
(* Messages and byte sequences for the runs of HTTPMessage. *)
EXTENDS HTTPMessage

AllBytes == {Zero, CR, LF, SP, Colon, Comma, "a", "/u", "HTTP/1.1", "OK",
             "Content-Length", "Content-Type", "text/plain", "Connection", "close",
             "Continue", "Bad", "Request", "Not", "Found", "Internal", "Server", "Error",
             "Implemented"} \cup Methods \cup Numeral \cup Status

Length(n) == <<<<"Content-Length">>, <<n>>>>
Values == {<<"a">>, <<"a", SP, "a">>, <<"a", Comma>>, <<Comma, "a">>, <<Colon, "a">>}
HeaderLists(n) ==
  {<<>>, <<Length(n)>>} \cup {<<Length(n), <<<<"a">>, v>>>> : v \in Values}
Bodies == {<<>>, <<"a">>, <<CR, LF>>, <<"a", Colon, "a">>}
Numerals == <<"0", "1", "2", "3">>

StatusResponses == {StatusResponse(s, m) : s \in Status, m \in {<<>>, <<"a">>}}

\* Objects of both classes; the header and the body do not always agree.
Objects ==
  StatusResponses \cup
  {[kind |-> k, first |-> f, second |-> <<"/u">>, third |-> t, headers |-> h,
    data |-> d] :
     k \in Kind, f \in {<<"POST">>, <<"GET">>},
     t \in {<<"HTTP/1.1">>, <<"a", SP, "OK">>},
     h \in UNION {HeaderLists(Numerals[i]) : i \in 1..4}, d \in Bodies}

StartLines ==
  {<<"POST", SP, "/u", SP, "HTTP/1.1">>, <<"GET", SP, "/u">>, <<"GET", SP, Zero, SP>>, <<"a">>}
HeaderLines ==
  {<<"a", Colon, SP, "a">>, <<"a", Colon, SP, "a", Comma>>, <<"a", Colon>>,
   <<"Content-Length", Colon, "2">>, <<"Content-Length", Colon, "-1">>,
   <<"Content-Length", Colon, SP, "a">>}
Ends == {<<CR, LF>>, <<LF>>}
AnyBodies == {<<"a">>, <<"a", Colon, "a", CR, LF>>, <<CR, LF>>}

Heads(e) ==
  {s \o e : s \in StartLines}
    \cup {s \o e \o h \o e : s \in StartLines, h \in HeaderLines}
    \cup {s \o e \o h \o e \o g \o e :
            s \in StartLines, h \in HeaderLines, g \in HeaderLines}

\* Every head with every body, cut at every place.
Wires ==
  LET whole == UNION {{h \o e \o b : h \in Heads(e), b \in AnyBodies} : e \in Ends}
  IN UNION {{SubSeq(w, 1, n) : n \in 0..Len(w)} : w \in whole}
=============================================================================
