---------------------------- MODULE MCUnaryCall ----------------------------
(* UnaryCall for model checking: a generated service of two methods, and a  *)
(* lambda registered under the path of its second one.                      *)
EXTENDS UnaryCallClaims, TLC

CONSTANTS c1, c2
MCService == [r \in Registrants |-> IF r \in Lambdas THEN <<"m2">> ELSE <<"m1", "m2">>]
MCMethod == c1 :> "m1" @@ c2 :> "m2"
=============================================================================
