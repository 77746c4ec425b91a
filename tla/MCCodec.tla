------------------------------ MODULE MCCodec -------------------------------
(* Instance of the codec for TLC. *)
EXTENDS Codec
=============================================================================
