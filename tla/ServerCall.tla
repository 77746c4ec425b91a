----------------------------- MODULE ServerCall -----------------------------
(***************************************************************************)
(* One call on a server connection (Conn and Conn::Call, urpc_server.cc):  *)
(* the frames of one HTTP/2 stream, the handler's use of its context, the  *)
(* deadline, and the response on the wire.  The calls of a connection meet *)
(* only in a map keyed by stream id, so one call stands for all of them.   *)
(*                                                                         *)
(* Everything runs on the loop thread.  A step is one frame, one timer,    *)
(* one posted task or one call the handler makes.  What a handler does     *)
(* inside a callback is a step of its own right after it, except inside    *)
(* the cancel callback, whose caller still has work to do (OnDeadline).    *)
(* HEADERS or DATA with END_STREAM is the frame followed by RecvEnd.       *)
(*                                                                         *)
(* Each function of the code that changes a Call is an operator from Call  *)
(* to Call here, so a handler that calls another composes them.            *)
(***************************************************************************)
EXTENDS Integers, Sequences, FiniteSets

CONSTANTS
    Forms,          \* the method forms the peer may call, see AllForms
    MaxRequests,    \* bound: request messages the peer sends
    MaxWrites,      \* bound: messages the handler writes
    MaxReads,       \* bound: events ReadMessage may give the handler
    Window,         \* unanswered writes the handler allows itself
    UnreadCap,      \* bound of pending_msgs (64 in the code)
    SendQueueCap,   \* bound of out_queue (64 in the code)
    DecodeErrors    \* may the peer send bytes the decoder rejects?

Streaming == {"serverStreaming", "clientStreaming", "bidi"}
AllForms  == {"unary", "unknown"} \cup Streaming

Status == {"Ok", "Internal", "ResourceExhausted", "Unimplemented",
           "DeadlineExceeded", "Unavailable", "Cancelled"}

ASSUME ConstantsAssumption ==
    /\ Forms \subseteq AllForms
    /\ MaxRequests \in Nat /\ MaxWrites \in Nat /\ MaxReads \in Nat
    /\ Window \in Nat /\ UnreadCap \in Nat /\ SendQueueCap \in Nat \ {0}
    /\ DecodeErrors \in BOOLEAN

VARIABLE call

Frame == [kind : {"headers"}] \cup [kind : {"data"}, msg : 1..MaxWrites + 1]
            \cup [kind : {"trailers", "trailersOnly"}, status : Status]
Headers == [kind |-> "headers"]
Data(n) == [kind |-> "data", msg |-> n]

\* What a read callback is given; msg 0 is the empty message.
ReadEvent == [st : Status, eos : BOOLEAN, msg : 0..MaxRequests]
Event(st, eos, m) == [st |-> st, eos |-> eos, msg |-> m]

Call ==
    [place : {"none", "open", "gone"},         \* in Conn::calls
     form : AllForms,
     peer : {"idle", "open", "ended", "reset", "lost"}, \* the request side
     received : 0..MaxRequests,                \* messages decoded so far
     garbled : BOOLEAN,                        \* the decoder is stuck on bad bytes
     unread : Seq(1..MaxRequests),             \* decoder, first_msg_, pending_msgs
     request_done : BOOLEAN, dispatched : BOOLEAN, request_half_closed : BOOLEAN,
     read_cb : BOOLEAN, read_finished : BOOLEAN,
     reads : Seq(ReadEvent),                   \* what the handler was given
     responded : BOOLEAN, response_headers_sent : BOOLEAN, write_closed : BOOLEAN,
     out_queue : Seq(1..MaxWrites), out_inflight : 0..MaxWrites,
     finish_pending : Status \cup {"none"},
     item : 0..MaxWrites,                      \* DATA attached in nghttp2
     wire : Seq(Frame),                        \* frames sent
     pumps : Nat,                              \* PumpOut tasks posted
     timer : {"off", "armed", "fired"},
     on_cancel : BOOLEAN, cancel_fired : BOOLEAN,
     written : 0..MaxWrites,                   \* WriteMessage calls so far
     answers : [1..MaxWrites -> Seq(Status)]]  \* what their callbacks were given

\* The types; DeliverRead keeps at most UnreadCap messages for a slow handler.
TypeOK ==
    /\ call \in Call
    /\ call.form \in {"clientStreaming", "bidi"} => Len(call.unread) <= UnreadCap

Init ==
    \E f \in Forms :
      call = [place |-> "none", form |-> f, peer |-> "idle", received |-> 0,
              garbled |-> FALSE, unread |-> <<>>, request_done |-> FALSE, dispatched |-> FALSE,
              request_half_closed |-> FALSE, read_cb |-> FALSE,
              read_finished |-> FALSE, reads |-> <<>>, responded |-> FALSE,
              response_headers_sent |-> FALSE, write_closed |-> FALSE,
              out_queue |-> <<>>, out_inflight |-> 0, finish_pending |-> "none",
              item |-> 0, wire |-> <<>>, pumps |-> 0, timer |-> "off",
              on_cancel |-> FALSE, cancel_fired |-> FALSE, written |-> 0, answers |-> [n \in 1..MaxWrites |-> <<>>]]

-----------------------------------------------------------------------------
(* The end of a call *)

Terminal(f) == f.kind \in {"trailers", "trailersOnly"}
Trailed(c)  == \E k \in DOMAIN c.wire : Terminal(c.wire[k])

Answer(c, ns, st) ==
    [c EXCEPT !.answers = [n \in DOMAIN @ |-> IF n \in ns THEN Append(@[n], st) ELSE @[n]]]

Elems(q) == {q[k] : k \in DOMAIN q}

FireCancel(c) ==
    IF c.cancel_fired THEN c
    ELSE [c EXCEPT !.cancel_fired = TRUE, !.on_cancel = FALSE]

\* Bug variant of CancelStreamIo: the queue is cleared without a word.
CancelStreamIoForgets(c) ==
    [c EXCEPT !.read_finished = TRUE, !.read_cb = FALSE, !.out_queue = <<>>]

\* The reader and the queued writers are told; the message inside the session
\* is not.
CancelStreamIo(c) ==
    [Answer(c, Elems(c.out_queue), "Unavailable")
        EXCEPT !.read_finished = TRUE, !.read_cb = FALSE, !.out_queue = <<>>,
               !.reads = IF c.read_cb THEN Append(@, Event("Unavailable", FALSE, 0)) ELSE @]

StopDeadline(c) == IF c.timer = "armed" THEN [c EXCEPT !.timer = "off"] ELSE c

\* Bug variant of Close: the cancel callbacks are not run.
CloseSilent(c) ==
    IF c.place # "open" THEN c
    ELSE [StopDeadline(CancelStreamIo(c)) EXCEPT !.place = "gone", !.item = 0]

\* OnStreamClose: the session drops what it has not sent.
Close(c) ==
    IF c.place # "open" THEN c
    ELSE [StopDeadline(FireCancel(CancelStreamIo(c))) EXCEPT !.place = "gone", !.item = 0]

\* nghttp2 closes a stream when both sides have ended, before it returns.
Settle(c) == IF Trailed(c) /\ c.peer = "ended" THEN Close(c) ELSE c

\* HEADERS with END_STREAM.  Trailers overtake DATA that waits for window,
\* and nghttp2 then drops that DATA.
End(c, kind, st) ==
    Settle([c EXCEPT !.wire = Append(@, [kind |-> kind, status |-> st]), !.item = 0])

SendTrailersOnly(c, st) == End(c, "trailersOnly", st)
SendTrailers(c, st)     == End(c, "trailers", st)

TrailersOnly(c, st) ==
    IF c.responded THEN c
    ELSE SendTrailersOnly(StopDeadline([c EXCEPT !.responded = TRUE]), st)

\* responded is set before TrailersOnly, which then returns at once.
RespondError(c, st) ==
    IF c.responded THEN c
    ELSE TrailersOnly(StopDeadline([c EXCEPT !.responded = TRUE]), st)

\* Terminal status of a stream: now, or once what was written has gone.
TrailStream(c, st) ==
    IF c.response_headers_sent THEN SendTrailers(c, st) ELSE SendTrailersOnly(c, st)

\* Bug variant of FinishStream: a Finish after the terminal status is sent.
FinishStreamAgain(c, st) ==
    IF c.place # "open" THEN c
    ELSE TrailStream(StopDeadline([c EXCEPT !.responded = TRUE, !.read_finished = TRUE]), st)

FinishStream(c, st) ==
    IF c.place # "open" \/ c.responded THEN c
    ELSE LET d == StopDeadline([c EXCEPT !.responded = TRUE, !.write_closed = TRUE,
                                         !.read_finished = TRUE])
         IN  IF c.out_inflight # 0 \/ c.out_queue # <<>>
             THEN [d EXCEPT !.finish_pending = st]
             ELSE TrailStream(d, st)

MaybeSendDeferredFinish(c) ==
    IF \/ c.place # "open" \/ c.finish_pending = "none"
       \/ c.out_inflight # 0 \/ c.out_queue # <<>>
    THEN c
    ELSE SendTrailers([c EXCEPT !.finish_pending = "none"], c.finish_pending)

-----------------------------------------------------------------------------
(* The write side *)

\* Bug variant of Consumed: the next message is not pumped.
ConsumedNoPump(c) ==
    MaybeSendDeferredFinish(
        Answer([c EXCEPT !.wire = Append(@, Data(c.out_inflight)),
                         !.item = 0, !.out_inflight = 0],
               {c.out_inflight}, "Ok"))

\* Bug variant of Consumed: a deferred Finish is forgotten.
ConsumedNoFinish(c) ==
    Answer([c EXCEPT !.wire = Append(@, Data(c.out_inflight)),
                     !.item = 0, !.out_inflight = 0, !.pumps = @ + 1],
           {c.out_inflight}, "Ok")

\* on_consumed of the message in flight, which nghttp2 has just sent.
Consumed(c) ==
    MaybeSendDeferredFinish(
        Answer([c EXCEPT !.wire = Append(@, Data(c.out_inflight)),
                         !.item = 0, !.out_inflight = 0, !.pumps = @ + 1],
               {c.out_inflight}, "Ok"))

\* Bug variant of CanPump: a second message while one is in flight.
CanPumpTwice(c) ==
    /\ c.place = "open" /\ c.out_queue # <<>>
    /\ ~c.responded /\ ~c.write_closed

CanPump(c) ==
    /\ c.place = "open" /\ c.out_inflight = 0 /\ c.out_queue # <<>>
    /\ ~c.responded /\ ~c.write_closed

\* One message is handed to the session; without window it stays there.
PumpOut(c, blocked) ==
    IF ~CanPump(c) THEN c
    ELSE LET m == Head(c.out_queue)
             d == [c EXCEPT !.out_queue = Tail(@), !.out_inflight = m, !.item = m,
                            !.response_headers_sent = TRUE,
                            !.wire = IF c.response_headers_sent THEN @
                                                                ELSE Append(@, Headers)]
         IN  IF blocked THEN d ELSE Consumed(d)

-----------------------------------------------------------------------------
(* The read side *)

Give(c, e) == [c EXCEPT !.reads = Append(@, e)]

DeliverEos(c) ==
    IF c.read_finished THEN c
    ELSE LET d == [c EXCEPT !.read_finished = TRUE, !.read_cb = FALSE]
         IN  IF c.read_cb THEN Give(d, Event("Ok", TRUE, 0)) ELSE d

DeliverRead(c, m) ==
    IF c.read_finished THEN c
    ELSE IF c.read_cb THEN Give([c EXCEPT !.read_cb = FALSE], Event("Ok", FALSE, m))
    ELSE IF Len(c.unread) >= UnreadCap THEN FinishStream(c, "ResourceExhausted")
    ELSE [c EXCEPT !.unread = Append(@, m)]

\* The decoder of a unary call keeps its messages until the request is done.
OnMessage(c, m) ==
    IF c.form \in {"unary", "unknown"} THEN [c EXCEPT !.unread = Append(@, m)]
    ELSE IF c.form # "serverStreaming" THEN DeliverRead(c, m)
    ELSE IF c.dispatched THEN FinishStream(c, "Internal")
    ELSE [c EXCEPT !.dispatched = TRUE, !.unread = <<m>>]

\* A unary handler is invoked with the first message, however many there are:
\* message_count() counts messages taken, and none has been.
FinishRequest(c) ==
    LET d == [c EXCEPT !.request_done = TRUE]
        s == [d EXCEPT !.request_half_closed = TRUE]
    IN  IF c.form = "unknown" THEN TrailersOnly(d, "Unimplemented")
        ELSE IF c.form = "unary" /\ c.unread = <<>> THEN TrailersOnly(d, "Internal")
        ELSE IF c.form = "unary"
             THEN Give([d EXCEPT !.dispatched = TRUE, !.unread = Tail(@)],
                       Event("Ok", FALSE, Head(c.unread)))
        ELSE IF ~c.dispatched THEN TrailersOnly(s, "Internal")
        ELSE DeliverEos(s)

-----------------------------------------------------------------------------
(* Frames of the peer and the connection *)

OnHeadersComplete(deadline) ==
    /\ call.peer = "idle"
    /\ call' = [call EXCEPT !.place = "open", !.peer = "open",
                            !.timer = IF deadline THEN "armed" ELSE "off",
                            !.dispatched = call.form \in {"clientStreaming", "bidi"}]

\* No content-type or no path: answered without a Call.
BadHeaders ==
    /\ call.peer = "idle"
    /\ call' = SendTrailersOnly([call EXCEPT !.peer = "open"], "Internal")

OnData ==
    /\ call.peer = "open" /\ call.place = "open"
    /\ call.received < MaxRequests /\ ~call.garbled
    /\ call' = OnMessage([call EXCEPT !.received = @ + 1], call.received + 1)

(* Consume fails, and fails again on all that follows.  Bytes the decoder    *)
(* rejects are taken to come in a chunk of their own.                        *)
OnBadData(st) ==
    /\ DecodeErrors
    /\ call.peer = "open" /\ call.place = "open"
    /\ call' = RespondError([call EXCEPT !.garbled = TRUE], st)

RecvEnd ==
    /\ call.peer = "open"
    /\ LET c == IF call.place = "open" THEN FinishRequest(call) ELSE call
       IN  call' = Settle([c EXCEPT !.peer = "ended"])

\* RST_STREAM of the peer.
RecvReset ==
    /\ call.peer = "open" \/ (call.peer = "ended" /\ ~Trailed(call))
    /\ call' = Close([call EXCEPT !.peer = "reset"])

(* ConnHook::OnRead with an error: the connection and its calls are freed,   *)
(* their timers and posted tasks are not.                                    *)
ConnLost ==
    /\ call.peer \in {"open", "ended"} /\ call.place = "open"
    /\ call' = [FireCancel(CancelStreamIo(call))
                  EXCEPT !.peer = "lost", !.place = "gone", !.item = 0]

\* WINDOW_UPDATE lets the session send the message it holds.
Unblock ==
    /\ call.item # 0
    /\ call' = Consumed(call)

-----------------------------------------------------------------------------
(* Timer and posted tasks *)

\* Bug variant of OnDeadline: the handler is told, the peer is not.
OnDeadlineTellsOnly ==
    /\ call.timer = "armed" /\ call.place = "open"
    /\ call' = [FireCancel(call) EXCEPT !.timer = "fired"]

(* The handler is told first.  If it ends the call from its cancel callback, *)
(* OnDeadline adds nothing.  (If that also closes the stream, the code goes  *)
(* on with a freed Call; here nothing more happens.)                         *)
OnDeadline ==
    /\ call.timer = "armed" /\ call.place = "open"
    /\ LET d == [FireCancel(call) EXCEPT !.timer = "fired"]
       IN  \/ call' = IF d.responded THEN d
                      ELSE TrailStream([d EXCEPT !.responded = TRUE], "DeadlineExceeded")
           \/ /\ call.on_cancel
              /\ call' = IF call.form = "unary" THEN TrailersOnly(d, "Cancelled")
                                                ELSE FinishStream(d, "Cancelled")

RunPumpOut(blocked) ==
    /\ call.pumps > 0
    /\ call.place = "open" \/ call.peer # "lost"
    /\ call' = PumpOut([call EXCEPT !.pumps = @ - 1], blocked)

-----------------------------------------------------------------------------
(* The handler: ServerCallCtx and StreamCallCtx *)

Handling(forms) == call.dispatched /\ call.place = "open" /\ call.form \in forms

OnCancel ==
    /\ Handling(AllForms) /\ ~call.cancel_fired /\ ~call.on_cancel
    /\ call' = [call EXCEPT !.on_cancel = TRUE]

\* Headers, one message, trailers; trailers do not wait for the message.
Respond(st, blocked) ==
    /\ Handling({"unary"}) /\ ~call.responded
    /\ LET d == StopDeadline([call EXCEPT !.responded = TRUE])
           e == [d EXCEPT !.wire = @ \o (IF blocked THEN <<Headers>>
                                                    ELSE <<Headers, Data(1)>>)]
       IN  call' = IF st = "Ok" THEN SendTrailers(e, "Ok") ELSE SendTrailersOnly(d, st)

ReadMessage ==
    /\ Handling(Streaming) /\ Len(call.reads) < MaxReads
    /\ call' =
         IF call.read_finished
         THEN Give(call, Event("Unavailable", call.request_half_closed, 0))
         ELSE IF call.unread # <<>>
         THEN Give([call EXCEPT !.unread = Tail(@)], Event("Ok", FALSE, Head(call.unread)))
         ELSE IF call.request_half_closed
         THEN Give([call EXCEPT !.read_finished = TRUE], Event("Ok", TRUE, 0))
         ELSE IF call.read_cb THEN Give(call, Event("Internal", FALSE, 0))
         ELSE [call EXCEPT !.read_cb = TRUE]

Unanswered(c) == {n \in 1..c.written : c.answers[n] = <<>>}

WriteMessage(blocked) ==
    /\ Handling(Streaming)
    /\ call.written < MaxWrites /\ Cardinality(Unanswered(call)) < Window
    /\ LET n == call.written + 1
           c == [call EXCEPT !.written = n]
       IN  call' = IF c.responded \/ c.write_closed THEN Answer(c, {n}, "Internal")
                   ELSE IF Len(c.out_queue) >= SendQueueCap
                   THEN Answer(c, {n}, "ResourceExhausted")
                   ELSE PumpOut([c EXCEPT !.out_queue = Append(@, n)], blocked)

WriteDone ==
    /\ Handling(Streaming)
    /\ call' = [call EXCEPT !.write_closed = TRUE]

Finish(st) ==
    /\ Handling(Streaming)
    /\ call' = FinishStream(call, st)

-----------------------------------------------------------------------------
Handler ==
    \/ OnCancel \/ ReadMessage \/ WriteDone
    \/ \E blocked \in BOOLEAN : WriteMessage(blocked)
    \/ \E st \in {"Ok", "Internal"} : Finish(st) \/ \E b \in BOOLEAN : Respond(st, b)

Loop == OnDeadline \/ \E blocked \in BOOLEAN : RunPumpOut(blocked)

Peer ==
    \/ \E deadline \in BOOLEAN : OnHeadersComplete(deadline)
    \/ BadHeaders \/ OnData \/ RecvEnd \/ RecvReset \/ ConnLost \/ Unblock
    \/ \E st \in {"Internal", "ResourceExhausted"} : OnBadData(st)

Next == Handler \/ Loop \/ Peer

vars == <<call>>

Spec == Init /\ [][Next]_vars

(* The loop thread runs posted tasks and due timers; the peer grants window. *)
FairSpec ==
    /\ Spec
    /\ WF_vars(OnDeadline) /\ WF_vars(\E blocked \in BOOLEAN : RunPumpOut(blocked))
    /\ WF_vars(Unblock)

-----------------------------------------------------------------------------
(* Properties *)

\* The messages on the wire, and those read or still to be read.
Sent(c) == {c.wire[k].msg : k \in {j \in DOMAIN c.wire : c.wire[j].kind = "data"}}
Taken(c) == {c.reads[k].msg : k \in {j \in DOMAIN c.reads : c.reads[j].msg # 0}}
               \cup Elems(c.unread)

(* wire-protocol.md, the response: headers, then messages, then one terminal *)
(* status after which nothing is sent; or the terminal status alone.  Holds  *)
(* whichever of Finish, Respond, the deadline, an error and the pump wins.   *)
ResponseWellFormed ==
    LET w == call.wire
    IN  \A k \in DOMAIN w :
            /\ w[k].kind = "headers" <=> k = 1 /\ w[k].kind # "trailersOnly"
            /\ w[k].kind = "trailersOnly" => Len(w) = 1
            /\ w[k].kind = "trailers" => k = Len(w)

(* router.h, "`cb` fires exactly once": a write callback fires at most once, *)
(* with OK exactly when the message was sent; one still owed belongs to a    *)
(* message in the queue or in flight (PumpOut against CancelStreamIo).       *)
WritesAccounted ==
    \A n \in 1..call.written :
        /\ Len(call.answers[n]) <= 1
        /\ call.answers[n] = <<"Ok">> <=> n \in Sent(call)
        /\ call.answers[n] = <<>> <=> n \in Elems(call.out_queue) \cup {call.out_inflight}

(* PumpOut's re-post: a queued message that could be sent has a pump posted  *)
(* for it, so the writer is never left waiting on an idle session.           *)
NoLostPump == CanPump(call) => call.pumps > 0

(* FR-007 of spec 004, both directions: messages reach the wire in the order *)
(* they were written, none twice, and none is passed over but one refused    *)
(* for a full queue (WriteMessage, PumpOut).                                 *)
WrittenInOrder ==
    LET w == call.wire
        data == {k \in DOMAIN w : w[k].kind = "data"}
    IN  /\ \A j, k \in data : j < k => w[j].msg < w[k].msg
        /\ \A m \in Sent(call) : call.item # 0 => m < call.item
        /\ \A m \in Sent(call) \cup {call.item}, n \in 1..call.written :
              n < m => n \in Sent(call) \/ call.answers[n] = <<"ResourceExhausted">>

(* What was read, then what is unread, came in that order, none twice, and    *)
(* none is missing in between (DeliverRead, ReadMessage).  Only a deadline    *)
(* makes a gap: it leaves the reader on, and FinishStream then does nothing   *)
(* for the message a full pending_msgs cannot take.                           *)
ReadInOrder ==
    LET r == call.reads
        u == call.unread
    IN  /\ \A j, k \in DOMAIN r : j < k /\ r[k].msg # 0 => r[j].msg < r[k].msg
        /\ \A j \in DOMAIN r, k \in DOMAIN u : r[j].msg < u[k]
        /\ \A j, k \in DOMAIN u : j < k => u[j] < u[k]
        /\ \A m \in Taken(call) :
              /\ m <= call.received
              /\ (call.responded /\ call.timer = "fired") \/ 1..m \subseteq Taken(call)

(* FR-007: a message is neither lost in between, repeated nor overtaken, on  *)
(* its way to the wire (PumpOut) or to the handler (DeliverRead).            *)
MessagesInOrder == WrittenInOrder /\ ReadInOrder

(* wire-protocol.md, the deadline and the cancellation: the handler is told  *)
(* before DEADLINE_EXCEEDED goes out, and a callback it registered has run   *)
(* when the call leaves Conn::calls (OnDeadline, FireCancel, OnStreamClose). *)
CancelTold ==
    /\ \A k \in DOMAIN call.wire :
          Terminal(call.wire[k]) /\ call.wire[k].status = "DeadlineExceeded"
             => call.cancel_fired
    /\ call.cancel_fired \/ call.place = "gone" => ~call.on_cancel

Over == Trailed(call) \/ call.place = "gone"

\* A Finish that waits for messages PumpOut will not send any more.
FinishStuck == call.finish_pending # "none" /\ call.out_queue # <<>>

(* A call whose peer set a deadline gets a terminal status or is closed,     *)
(* whatever the handler does, unless a malformed message stopped the timer   *)
(* (RespondError) or a Finish is stuck behind its queue.                     *)
DeadlineEnds == call.timer = "armed" ~> (Over \/ call.garbled \/ FinishStuck)

(* Finish waits for the message in flight and is then carried out            *)
(* (FinishStream, MaybeSendDeferredFinish).                                  *)
FinishCarriedOut == call.finish_pending # "none" /\ call.out_queue = <<>> ~> Over
=============================================================================
