--------------------------- MODULE ChannelClaims ---------------------------
(***************************************************************************)
(* What comments and documents of the repository say of the client channel *)
(* and the code does not do.  TLC refutes each of them, with a             *)
(* configuration of its own.                                               *)
(***************************************************************************)
EXTENDS Channel

(* channel.h: "`done` fires exactly once".  OnStreamClose erases a map entry *)
(* twice when the peer resets the stream of a live call.                     *)
DoneFires == \A c \in Calls : c \in issued ~> Ended(c)

(* channel.h: "on_complete fires exactly once with the terminal status       *)
(* (trailers grpc-status / timeout / cancel / connection loss)".  A stream   *)
(* parked behind a connect that fails is never told (ConnectNow).            *)
StreamsFailWithConnect ==
    \A s \in Streams : (conn = "Broken" /\ place[s] = "pending") ~> Ended(s)

(* channel.h: "Cancel also terminates a stream".  Channel::Cancel looks for  *)
(* the id among the unary calls only.                                        *)
CancelEndsStream ==
    [][\A s \in Streams : place[s] = "live" /\ IsNext("cancel", s) /\ tasks' = Tail(tasks)
          => Ended(s)']_vars

(* FR-004 of spec 001: a call whose deadline passes ends with                *)
(* DEADLINE_EXCEEDED.  The timer of a call still waiting for the connection  *)
(* finds nothing in Impl::calls, and does not fire again.                    *)
DeadlineEndsCall == \A c \in Calls : timer[c] = "fired" => Ended(c)

(* channel.h: "`timeout_ms` covers the whole stream lifetime".  The timer of *)
(* a stream is set when it is opened on the wire, not when it is parked.     *)
StreamDeadlineRuns ==
    \A s \in Streams \cap timed : place[s] = "pending" => timer[s] = "armed"

(* raw.h: "on_flushed fires on delivery (or failure)".  A message inside the *)
(* session when its stream closes is neither delivered nor failed.           *)
FlushAnswered ==
    \A s \in Streams : h2[s] = "closed" /\ tasks = <<>> =>
        \A m \in Elems(sent[s]) : flushed[m] # <<>>

(* channel.h: "on_flushed fires once the message reached the transport       *)
(* boundary".  Trailers with status OK answer the queued messages, which     *)
(* were never sent, with that OK (CompleteStream).                           *)
FlushedOkWasSent ==
    \A m \in Msgs : flushed[m] = <<"Ok">> =>
        \E s \in Streams : \E k \in DOMAIN wire[s] : wire[s][k].msg = m

(* channel.h: StreamCloseSend "half-closes the request side".  Submitted     *)
(* while a message is in flight, the half-close is refused and lost.         *)
HalfCloseReachesWire ==
    \A s \in Streams : (place[s] = "live" /\ s \in send_closed)
                          ~> (EndSent(s) \/ Ended(s))

(* data-model.md of spec 001: a call in its terminal state has its stream    *)
(* closed.  A stream the server ends first is never closed by the client.    *)
EndedStreamCloses ==
    \A s \in Streams : Ended(s) ~> (h2[s] \in {"none", "closed"})

(* urpc_channel.cc, out_queue: "bound: 2 (FR-008)".  The bound is 64.        *)
QueueDepthTwo == \A s \in Streams : Len(out_queue[s]) <= 2
=============================================================================
