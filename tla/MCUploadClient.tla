--------------------------- MODULE MCUploadClient ---------------------------
(* Request heads for the run of UploadClient. *)
EXTENDS UploadClient

Heads0To2 == {HeadFor(n) : n \in 0..2}
=============================================================================
