---------------------------- MODULE MCH2Session ----------------------------
(* H2Session for model checking: an empty body and one of two frames. *)
EXTENDS H2Session

CONSTANTS b0, b2
MCSize == [b \in Bodies |-> IF b = b0 THEN 0 ELSE 2]
=============================================================================
