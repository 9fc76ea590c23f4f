---------------------------- MODULE MCHTTPServer ----------------------------
(* Request heads for the runs of HTTPServer and HTTPServerRefinement. *)
EXTENDS HTTPServerRefinement, TLC

Plain(m) == [method |-> m, version |-> "HTTP/1.1", expect |-> FALSE,
             length |-> NoLength, blank |-> FALSE]
Upload(n) == [Plain("POST") EXCEPT !.length = n, !.expect = TRUE]

\* A block alone is no request, and is refused.
NoRequest == {}
OneBlock == {Upload(2)}
TwoBlocks == {Upload(4)}

\* What the counting loop may end with: a block, a block less one for a failed
\* recv, and a failed recv alone, here of a request that gets no answer.
Heads == {Upload(2), Upload(1), [Upload(-1) EXCEPT !.method = "GET"]}

Symmetry == Permutations(Conn)
=============================================================================
