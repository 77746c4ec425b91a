--------------------------- MODULE MCServerStream ---------------------------
(* Instance of the typed server streams for TLC, and what a document of the *)
(* repository says of them and the code does not do; TLC refutes it with a  *)
(* configuration of its own.                                                *)
EXTENDS ServerStream

(* server-api.md of spec 001, on OnCancel: a handler's late done "returns an *)
(* error, and does not crash".  At a deadline, `done` or Finish from the     *)
(* cancel callback closes a stream whose client has half-closed; FireCancel  *)
(* and OnDeadline go on with the Call that was erased.                       *)
LateDoneIsSafe == "deadline" \notin dangling
=============================================================================
