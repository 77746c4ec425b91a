----------------------------- MODULE MCChannel -----------------------------
(* Instances of the client channel for TLC. *)
EXTENDS ChannelClaims
=============================================================================
