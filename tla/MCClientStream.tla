--------------------------- MODULE MCClientStream ---------------------------
(* Instances of the typed client streams for TLC, and a statement of a      *)
(* comment that the streams do not keep.                                    *)
EXTENDS ClientStream

(* Claim of client.h:57-59: after Close, "Subsequent typed calls (and calls  *)
(* through proxies referencing this channel) fail immediately with           *)
(* UNAVAILABLE (FR-009)".  A stream opened after Close goes to the core      *)
(* channel that Close has deleted: the test of closed() in                   *)
(* ChannelOpenStreamRaw is made only when URPC_WIRE_DEBUG is set, and        *)
(* OpenClientReader sends its request even then.                             *)
ClosedCallsFail == late => ~crashed
=============================================================================
