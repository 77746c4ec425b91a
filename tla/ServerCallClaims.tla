-------------------------- MODULE ServerCallClaims --------------------------
(***************************************************************************)
(* What comments and documents of the repository say of a call on the      *)
(* server and the code does not do.  TLC refutes each of them, with a      *)
(* configuration of its own.                                               *)
(***************************************************************************)
EXTENDS ServerCall

(* urpc_server.cc, MaybeSendDeferredFinish: "Finish ends the stream AFTER    *)
(* the queued messages, never dropping them".  PumpOut returns early once    *)
(* Finish was called, so the queue is never sent and neither is the status.  *)
FinishSendsQueue == call.finish_pending # "none" ~> Over

(* wire-protocol.md: a message over the limit ends the call with             *)
(* RESOURCE_EXHAUSTED.  RespondError sets `responded` before TrailersOnly,   *)
(* which then sends nothing.                                                 *)
BadDataAnswered ==
    call.garbled /\ call.place = "open" => Trailed(call) \/ call.finish_pending # "none"

(* router.h, ReadMessage: "Framing violations / cancellation deliver a       *)
(* non-ok st terminal event".  RespondError leaves the reader waiting.       *)
BadDataReachesReader == call.garbled => ~call.read_cb

(* router.h, ReadMessage: "after the peer half-closes exactly one trailing   *)
(* event with eos=true (st ok, empty msg) is delivered".  Messages unread    *)
(* when END_STREAM arrives are lost: the next read says eos.                 *)
EosAfterMessages ==
    ~call.responded /\ (\E k \in DOMAIN call.reads : call.reads[k].eos)
        => call.unread = <<>>

(* router.h, WriteMessage: "`cb` fires exactly once, after the message has   *)
(* been handed to the transport ... or failed".  The message inside the      *)
(* session when the stream closes is never answered.                         *)
WritesAnswered == call.place = "gone" => Unanswered(call) = {}

(* wire-protocol.md: a successful unary response carries exactly one         *)
(* message.  Respond submits the trailers without waiting for the message.   *)
OkCarriesMessage ==
    \A k \in DOMAIN call.wire :
        call.form = "unary" /\ Terminal(call.wire[k]) /\ call.wire[k].status = "Ok"
            => Sent(call) = {1}

(* data-model.md of spec 004: the deadline finishes the stream, and after    *)
(* that reads are refused.  OnDeadline does not set read_finished.           *)
FinishedRefusesReads ==
    [][Trailed(call) => \A k \in DOMAIN call'.reads \ DOMAIN call.reads :
                            call'.reads[k].st # "Ok"]_vars

(* codec.h: whether a unary request has too many messages "is judged by the  *)
(* caller via message_count()".  FinishRequest asks before it took any, so   *)
(* the handler runs.                                                         *)
UnaryTakesOneMessage ==
    call.form = "unary" /\ call.dispatched => call.received = 1

(* router.h, OnCancel: "a cancellation callback (deadline, client cancel,    *)
(* forced shutdown)".  OnStreamClose runs it for a call that completed.      *)
CancelMeansCancelled ==
    call.cancel_fired => call.timer = "fired" \/ call.peer \in {"reset", "lost"}

(* urpc_server.cc, `alive`: posted pumps "no-op once the server is being     *)
(* destroyed".  They, and the deadline, also outlive a lost connection, and  *)
(* then run on a freed Conn.                                                 *)
NoTaskOutlivesConn ==
    call.peer = "lost" => call.pumps = 0 /\ call.timer # "armed"

(* router.h, WriteMessage: "at most 2 messages are held per stream beyond    *)
(* the in-flight one".  The bound is 64.                                     *)
HeldAtMostTwo == Len(call.out_queue) <= 2
=============================================================================
