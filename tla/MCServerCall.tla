---------------------------- MODULE MCServerCall ----------------------------
(* Instances of a server call for TLC. *)
EXTENDS ServerCallClaims
=============================================================================
