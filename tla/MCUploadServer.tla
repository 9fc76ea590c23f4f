--------------------------- MODULE MCUploadServer ---------------------------
(* Request heads for the runs of UploadServer. *)
EXTENDS UploadServer, TLC

\* An upload of one block whose head has many lines but no type.
Posts == {[expect |-> TRUE, length |-> 1, typed |-> FALSE, long |-> TRUE]}

Symmetry == Permutations(Conn)
=============================================================================
