--------------------------- MODULE MCOutputForward ---------------------------
(* Two streams, the second one with a single byte. *)
EXTENDS OutputForward

MCBytes == [s \in Stream |-> IF s = "err" THEN 1 ELSE 2]
=============================================================================
