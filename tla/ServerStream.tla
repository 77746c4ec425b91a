---------------------------- MODULE ServerStream ----------------------------
(***************************************************************************)
(* The typed server streams (stream.h): ServerWriter::Write and Finish,    *)
(* ServerReader::ReadMessage, the `done` of a client-streaming handler,    *)
(* and the three registration wrappers.  That of the server-streaming form *)
(* finishes the stream by itself once the handler has returned and the     *)
(* last message was delivered; in the other forms the handler does it.     *)
(*                                                                         *)
(* All of it runs on the loop thread, but user code and library code call  *)
(* each other: a handler writes, the write runs the `delivered` callback   *)
(* of an earlier message, which writes again.  `stack` is that nesting of  *)
(* activations, innermost first; user code runs in every activation.       *)
(* The call and its queues are those of urpc_server.cc, flow control is    *)
(* the choice whether a message handed to nghttp2 is consumed at once.     *)
(* Request messages are counted; ServerCall tells them apart.              *)
(*                                                                         *)
(* The views of a stream hold a bare pointer to its StreamCtx, which is    *)
(* destroyed with the call.  `dangling` records every use after that.      *)
(***************************************************************************)
EXTENDS Integers, Sequences

CONSTANTS
    Forms,          \* the forms of method the peer calls
    Msgs,           \* messages the service may write, each once
    NoMsg,          \* no message
    SendQueueCap,   \* bound of out_queue (64 in the code)
    UnreadCap,      \* bound of pending_msgs (64 in the code)
    MaxRequests,    \* bound: messages the peer sends
    MaxReads        \* bound: ReadMessage calls of the service

AllForms == {"server", "client", "bidi"}

ASSUME ConstantsAssumption ==
    /\ Forms \subseteq AllForms
    /\ NoMsg \notin Msgs
    /\ SendQueueCap \in Nat \ {0} /\ UnreadCap \in Nat
    /\ MaxRequests \in Nat /\ MaxReads \in Nat

VARIABLES
    form,
    wrote, finished, in_flight, handler_returned,   \* ServerWriteState
    out_queue, out_inflight,                        \* Call, response side
    responded, finish_pending, ended,   \* ended, history: the status finished with
    read_cb, read_finished, pending_msgs,           \* Call, request side
    dispatched,   \* Call: the handler was run
    peer,         \* request side: "open", "ending" in the callback of
                  \* END_STREAM, "ended" once nghttp2 has shut it
    pumps,        \* posted PumpOut tasks
    notes,        \* H2Session: bodies consumed, notification not yet run
    stack,        \* activations on the loop thread, innermost first
    call,         \* "new", then "live", "gone" once erased from the map
    cancel_fired, \* cancel callbacks have run
    written,      \* history: messages the service has written
    told,         \* history: how often each `delivered` was called
    requests, reads,   \* history: messages received, ReadMessage calls
    dangling      \* history: who used what was destroyed

stateVars == <<wrote, finished, in_flight, handler_returned>>
outVars == <<out_queue, out_inflight, notes>>
endVars == <<responded, finish_pending, ended, read_finished>>
inVars == <<read_cb, pending_msgs, dispatched, peer>>
histVars == <<written, told, requests, reads, dangling>>
vars == <<form, stateVars, outVars, endVars, inVars, pumps, stack, call, cancel_fired, histVars>>

\* handler: the user's handler; sent, dropped, refused: a `delivered` callback;
\* read: a read callback; task: the user's own posted work; deadline, cancelled:
\* the cancel callbacks; and, with no user code running, notified: PumpOut's
\* notification after its callback, closing: OnStreamClose between two callbacks.
Kind == {"handler", "sent", "dropped", "refused", "read", "task", "deadline", "cancelled",
         "notified", "closing"}
Frame == [kind : Kind, msg : Msgs \cup {NoMsg}]
F(kind, msg) == [kind |-> kind, msg |-> msg]

Status == {"Ok", "Unimplemented", "DataLoss", "Internal", "ResourceExhausted",
           "DeadlineExceeded", "User"}

(* The types; the queues keep the bounds of the code, and `delivered` fires    *)
(* at most once per Write, through refusals, notifications and the close.      *)
TypeOK ==
    /\ form \in Forms
    /\ wrote \in BOOLEAN /\ finished \in BOOLEAN /\ handler_returned \in BOOLEAN
    /\ in_flight \in Nat
    /\ out_queue \in Seq(Msgs) /\ Len(out_queue) <= SendQueueCap
    /\ out_inflight \in Msgs \cup {NoMsg}
    /\ responded \in BOOLEAN /\ finish_pending \in BOOLEAN
    /\ ended \in Status \cup {"none"}
    /\ read_cb \in BOOLEAN /\ read_finished \in BOOLEAN
    /\ pending_msgs \in 0..UnreadCap
    /\ dispatched \in {"no", "run", "failed"}
    /\ peer \in {"open", "ending", "ended"}
    /\ pumps \in Nat
    /\ notes \in Seq(Msgs)
    /\ stack \in Seq(Frame)
    /\ call \in {"new", "live", "gone"}
    /\ cancel_fired \in BOOLEAN
    /\ written \subseteq Msgs /\ told \in [Msgs -> 0..1]
    /\ requests \in 0..MaxRequests /\ reads \in 0..MaxReads
    /\ dangling \subseteq {"view", "deadline"}

Init ==
    /\ form \in Forms
    /\ wrote = FALSE /\ finished = FALSE /\ in_flight = 0 /\ handler_returned = FALSE
    /\ out_queue = <<>> /\ out_inflight = NoMsg /\ responded = FALSE
    /\ finish_pending = FALSE /\ ended = "none"
    /\ read_cb = FALSE /\ read_finished = FALSE /\ pending_msgs = 0 /\ dispatched = "no"
    /\ peer = "open" /\ pumps = 0 /\ notes = <<>> /\ stack = <<>>
    /\ call = "new" /\ cancel_fired = FALSE
    /\ written = {} /\ told = [m \in Msgs |-> 0] /\ requests = 0 /\ reads = 0
    /\ dangling = {}

Active(kind) == \E i \in DOMAIN stack : stack[i].kind = kind
Closing == Active("closing") \/ Active("cancelled")

\* A view or the wrapper reaches for the StreamCtx.
UseCtx == dangling' = IF call = "gone" THEN dangling \cup {"view"} ELSE dangling

-----------------------------------------------------------------------------
(* The core call *)

\* The trailers are out: with the request side shut, nghttp2 closes the stream
\* from within the call that sent them.
TrailersSent(stk) ==
    stack' = IF peer = "ended" /\ ~Closing THEN <<F("closing", NoMsg)>> \o stk ELSE stk

\* nghttp2 takes a message; it consumes the body at once, or holds it.  On a
\* stream that is being closed it never does.
SendData(m, q) ==
    /\ out_queue' = q
    /\ out_inflight' = m
    /\ \/ notes' = Append(notes, m) /\ ~Closing
       \/ notes' = notes

\* PumpOut, with q the queue.
PumpOut(q) ==
    IF out_inflight # NoMsg \/ q = <<>> \/ responded
    THEN out_queue' = q /\ UNCHANGED <<out_inflight, notes>>
    ELSE SendData(Head(q), Tail(q))

\* FinishStream, with fl the message nghttp2 holds and stk the activations it
\* returns to.
FinishStream(st, fl, stk) ==
    IF call = "gone" \/ responded
    THEN UNCHANGED endVars /\ stack' = stk
    ELSE /\ responded' = TRUE /\ read_finished' = TRUE
         /\ ended' = st
         /\ finish_pending' = (fl # NoMsg \/ out_queue # <<>>)
         /\ IF finish_pending' THEN stack' = stk ELSE TrailersSent(stk)

-----------------------------------------------------------------------------
(* ServerWriteState *)

\* MaybeAutoFinish, after the count of writes in flight has become n.
MaybeAutoFinish(n, returned, stk) ==
    IF n = 0 /\ returned /\ ~finished
    THEN finished' = TRUE /\ UseCtx /\ FinishStream("Ok", out_inflight, stk)
    ELSE UNCHANGED <<finished, endVars, dangling>> /\ stack' = stk

\* Bug variant of OnDelivered: the last delivery finishes a finished stream.
OnDeliveredAgain(stk) ==
    /\ in_flight' = in_flight - 1
    /\ IF in_flight = 1 /\ handler_returned
       THEN finished' = TRUE /\ UseCtx /\ FinishStream("Ok", out_inflight, stk)
       ELSE UNCHANGED <<finished, endVars, dangling>> /\ stack' = stk
    /\ UNCHANGED <<wrote, handler_returned>>

OnDelivered(stk) ==
    /\ in_flight' = in_flight - 1
    /\ MaybeAutoFinish(in_flight - 1, handler_returned, stk)
    /\ UNCHANGED <<wrote, handler_returned>>

-----------------------------------------------------------------------------
(* User code: it runs in the innermost activation *)

\* FlushOut runs the notifications of consumed bodies, in its outermost
\* activation only: a write within a notification leaves it to that loop.
MustNotify == notes # <<>> /\ ~Active("sent") /\ ~Active("notified")

UserRuns == stack # <<>> /\ Head(stack).kind \notin {"notified", "closing"} /\ ~MustNotify

Enter(kind) == stack' = <<F(kind, NoMsg)>> \o stack

Call(kind, m) ==
    /\ stack' = <<F(kind, m)>> \o stack
    /\ told' = [told EXCEPT ![m] = @ + 1]

\* WriteMessage of the core: a refusal answers at once.
WriteMessage(m) ==
    \/ /\ call = "gone" \/ responded \/ Len(out_queue) >= SendQueueCap
       /\ Call("dropped", m)
       /\ UNCHANGED outVars
    \/ /\ call # "gone" /\ ~responded /\ Len(out_queue) < SendQueueCap
       /\ PumpOut(Append(out_queue, m))
       /\ UNCHANGED <<stack, told>>

\* ServerWriter::Write; `delivered` tells a refusal as well.
Write(m) ==
    /\ UserRuns /\ form # "client" /\ m \notin written
    /\ written' = written \cup {m}
    /\ \/ /\ Call("refused", m)     \* finished, or it cannot be encoded
          /\ UNCHANGED <<stateVars, outVars, dangling>>
       \/ /\ ~finished
          /\ wrote' = TRUE
          /\ in_flight' = in_flight + 1
          /\ UseCtx
          /\ WriteMessage(m)
          /\ UNCHANGED <<finished, handler_returned>>
    /\ UNCHANGED <<form, endVars, inVars, pumps, call, cancel_fired, requests, reads>>

\* ServerWriter::Finish, with a status of the user's; `done` with an error.
Finish ==
    /\ UserRuns /\ ~finished
    /\ finished' = TRUE
    /\ UseCtx
    /\ FinishStream("User", out_inflight, stack)
    /\ UNCHANGED <<form, wrote, in_flight, handler_returned, outVars, inVars, pumps, call,
                   cancel_fired, written, told, requests, reads>>

\* `done` of a client-streaming handler: WriteMessage, then Finish with OK.  A
\* body consumed at once has been notified, and its pump posted, in between;
\* what WriteMessage refuses is not told to anyone.
Done(m) ==
    /\ UserRuns /\ form = "client" /\ ~finished /\ m \notin written
    /\ finished' = TRUE /\ wrote' = TRUE /\ written' = written \cup {m}
    /\ UseCtx
    /\ IF call = "gone" \/ responded THEN UNCHANGED <<out_inflight, pumps>>
       ELSE \/ out_inflight' = NoMsg /\ pumps' = pumps + 1 /\ ~Closing
            \/ out_inflight' = m /\ UNCHANGED pumps
    /\ FinishStream("Ok", out_inflight', stack)
    /\ UNCHANGED <<form, in_flight, handler_returned, out_queue, notes, inVars, call,
                   cancel_fired, told, requests, reads>>

\* ReadMessage of the core: the callback is kept, or run at once with a message,
\* the end, or an error.
CoreReadMessage ==
    LET closed  == call = "gone" \/ read_finished
        queued  == ~closed /\ pending_msgs > 0
        atEnd   == ~closed /\ ~queued /\ peer # "open"
        waiting == ~closed /\ ~queued /\ ~atEnd /\ ~read_cb
    IN  /\ pending_msgs' = IF queued THEN pending_msgs - 1 ELSE pending_msgs
        /\ read_finished' = (read_finished \/ atEnd)
        /\ read_cb' = (read_cb \/ waiting)
        /\ IF waiting THEN UNCHANGED stack ELSE Enter("read")

\* ServerReader::ReadMessage.  The callback decodes the message, and tells a
\* failure like any other.  A service that has finished reads no more.
ReadMessage ==
    /\ UserRuns /\ form # "server" /\ ~finished /\ reads < MaxReads
    /\ reads' = reads + 1
    /\ UseCtx
    /\ CoreReadMessage
    /\ UNCHANGED <<form, stateVars, outVars, responded, finish_pending, ended, dispatched,
                   peer, pumps, call, cancel_fired, written, told, requests>>

\* Bug variant of HandlerReturns: the stream ends without a look at the count.
HandlerReturnsEarly ==
    /\ Head(stack).kind = "handler"
    /\ IF form # "server" \/ finished
       THEN UNCHANGED <<finished, endVars, dangling>> /\ stack' = Tail(stack)
       ELSE finished' = TRUE /\ UseCtx /\ FinishStream("Ok", out_inflight, Tail(stack))
    /\ UNCHANGED <<wrote, in_flight, handler_returned>>

\* The handler returns to its wrapper; the innermost activation ends.
HandlerReturns ==
    /\ Head(stack).kind = "handler"
    /\ CASE form # "server" \/ finished ->
              /\ stack' = Tail(stack)
              /\ UNCHANGED <<finished, handler_returned, endVars, dangling>>
         [] form = "server" /\ ~finished /\ ~wrote ->
              /\ UseCtx
              /\ FinishStream("Unimplemented", out_inflight, Tail(stack))
              /\ UNCHANGED <<finished, handler_returned>>
         [] form = "server" /\ ~finished /\ wrote ->
              /\ handler_returned' = TRUE
              /\ MaybeAutoFinish(in_flight, TRUE, Tail(stack))
    /\ UNCHANGED <<wrote, in_flight>>

\* RegisterStreamRaw: an exception of the handler ends the stream.
HandlerThrows ==
    /\ Head(stack).kind = "handler"
    /\ UseCtx
    /\ FinishStream("Internal", out_inflight, Tail(stack))
    /\ UNCHANGED stateVars

\* `delivered` returns: the write is accounted for only now, so one that the
\* callback made was counted before.
DeliveredReturns ==
    \/ Head(stack).kind = "sent" /\ OnDelivered(<<F("notified", NoMsg)>> \o Tail(stack))
    \/ Head(stack).kind = "dropped" /\ OnDelivered(Tail(stack))

OtherReturns ==
    /\ Head(stack).kind \in {"refused", "read", "task"}
    /\ stack' = Tail(stack)
    /\ UNCHANGED <<stateVars, endVars, dangling>>

\* OnDeadline after FireCancel: trailers at once, whatever is queued.  A cancel
\* callback that finished the stream may have closed it; then the Call that
\* OnDeadline looks at is destroyed, and nothing it still does has an effect.
DeadlineReturns ==
    /\ Head(stack).kind = "deadline"
    /\ responded' = TRUE
    /\ ended' = IF responded THEN ended ELSE "DeadlineExceeded"
    /\ IF responded THEN stack' = Tail(stack) ELSE TrailersSent(Tail(stack))
    /\ read_finished' = (read_finished \/ (~responded /\ peer = "ended"))
    /\ dangling' = IF call = "gone" THEN dangling \cup {"deadline"} ELSE dangling
    /\ UNCHANGED <<stateVars, finish_pending>>

Return ==
    /\ UserRuns
    /\ \/ HandlerReturns \/ HandlerThrows \/ DeliveredReturns
       \/ OtherReturns \/ DeadlineReturns
    /\ UNCHANGED <<form, outVars, inVars, pumps, call, cancel_fired, written, told,
                   requests, reads>>

-----------------------------------------------------------------------------
(* Library code on the loop thread *)

\* FlushOut: run the notification PumpOut gave with a message.  That of `done`
\* has an empty callback.
Notify ==
    /\ MustNotify
    /\ notes' = Tail(notes)
    /\ out_inflight' = NoMsg
    /\ IF form = "client" THEN Enter("notified") /\ UNCHANGED told
                          ELSE Call("sent", Head(notes))
    /\ UNCHANGED <<form, stateVars, out_queue, endVars, inVars, pumps, call, cancel_fired,
                   written, requests, reads, dangling>>

\* MaybeSendDeferredFinish, after the notification.
MaybeSendDeferredFinish(stk) ==
    IF finish_pending /\ out_inflight = NoMsg /\ out_queue = <<>> /\ call # "gone"
    THEN finish_pending' = FALSE /\ TrailersSent(stk)
    ELSE UNCHANGED finish_pending /\ stack' = stk

\* Bug variant of Notified: the next message is not pumped.
NotifiedNoPump ==
    /\ stack # <<>> /\ Head(stack).kind = "notified"
    /\ MaybeSendDeferredFinish(Tail(stack))
    /\ UNCHANGED <<form, stateVars, outVars, responded, ended, read_finished, inVars, pumps,
                   call, cancel_fired, histVars>>

\* The rest of the notification: post the next pump, send a deferred finish.
Notified ==
    /\ stack # <<>> /\ Head(stack).kind = "notified"
    /\ pumps' = pumps + 1
    /\ MaybeSendDeferredFinish(Tail(stack))
    /\ UNCHANGED <<form, stateVars, outVars, responded, ended, read_finished, inVars, call,
                   cancel_fired, histVars>>

\* CancelStreamIo: the reader and the queued messages are answered one by one.
CancelStreamIo ==
    /\ stack # <<>> /\ Head(stack).kind = "closing"
    /\ \/ /\ read_cb
          /\ read_cb' = FALSE
          /\ Enter("read")
          /\ UNCHANGED <<out_queue, told>>
       \/ /\ ~read_cb /\ out_queue # <<>>
          /\ out_queue' = Tail(out_queue)
          /\ Call("dropped", Head(out_queue))
          /\ UNCHANGED read_cb
    /\ UNCHANGED <<form, stateVars, out_inflight, notes, endVars, pending_msgs, dispatched,
                   peer, pumps, call, cancel_fired, written, requests, reads, dangling>>

\* OnStreamClose: the cancel callbacks follow, unless they have run.
FireCancel ==
    /\ stack # <<>> /\ Head(stack).kind = "closing" /\ ~read_cb /\ out_queue = <<>>
    /\ ~cancel_fired
    /\ stack' = <<F("cancelled", NoMsg)>> \o Tail(stack)
    /\ cancel_fired' = TRUE
    /\ UNCHANGED <<form, stateVars, outVars, endVars, inVars, pumps, call, histVars>>

\* OnStreamClose after FireCancel: the call is erased with all it holds.
Erase ==
    /\ stack # <<>>
    /\ \/ UserRuns /\ Head(stack).kind = "cancelled"
       \/ Head(stack).kind = "closing" /\ ~read_cb /\ out_queue = <<>> /\ cancel_fired
    /\ stack' = Tail(stack)
    /\ call' = "gone" /\ out_queue' = <<>> /\ out_inflight' = NoMsg
    /\ UNCHANGED <<form, stateVars, notes, endVars, inVars, pumps, cancel_fired, histVars>>

-----------------------------------------------------------------------------
(* Events of the loop *)

Idle == stack = <<>> /\ notes = <<>> /\ peer # "ending"

\* OnHeadersComplete: client-streaming and bidi handlers start here.
OnHeaders ==
    /\ call = "new" /\ Idle
    /\ call' = "live"
    /\ IF form = "server" THEN UNCHANGED <<stack, dispatched>>
       ELSE Enter("handler") /\ dispatched' = "run"
    /\ UNCHANGED <<form, stateVars, outVars, endVars, read_cb, pending_msgs, peer, pumps,
                   cancel_fired, histVars>>

\* DispatchStream with the message of a server-streaming call: the wrapper
\* decodes it and runs the handler.
Dispatch ==
    \/ dispatched' = "run" /\ Enter("handler") /\ UNCHANGED endVars
    \/ dispatched' = "failed" /\ FinishStream("DataLoss", out_inflight, stack)

\* DeliverRead with a message.
DeliverRead ==
    CASE read_finished ->
           UNCHANGED <<read_cb, pending_msgs, stack, endVars>>
      [] ~read_finished /\ read_cb ->
           read_cb' = FALSE /\ Enter("read") /\ UNCHANGED <<pending_msgs, endVars>>
      [] ~read_finished /\ ~read_cb /\ pending_msgs < UnreadCap ->
           pending_msgs' = pending_msgs + 1 /\ UNCHANGED <<read_cb, stack, endVars>>
      [] OTHER ->
           /\ FinishStream("ResourceExhausted", out_inflight, stack)
           /\ UNCHANGED <<read_cb, pending_msgs>>

\* OnData with a message.
OnMessage ==
    /\ Idle /\ call = "live" /\ peer = "open" /\ requests < MaxRequests
    /\ requests' = requests + 1
    /\ \/ form = "server" /\ dispatched = "no" /\ Dispatch /\ UNCHANGED <<read_cb, pending_msgs>>
       \/ /\ form = "server" /\ dispatched # "no"
          /\ FinishStream("Internal", out_inflight, stack)
          /\ UNCHANGED <<read_cb, pending_msgs, dispatched>>
       \/ form # "server" /\ DeliverRead /\ UNCHANGED dispatched
    /\ UNCHANGED <<form, stateVars, outVars, peer, pumps, call, cancel_fired, written, told,
                   reads, dangling>>

\* OnData with bytes the decoder refuses, and will go on refusing: RespondError
\* marks the call, and sends nothing.
OnBadData ==
    /\ Idle /\ call = "live" /\ peer = "open" /\ requests < MaxRequests
    /\ requests' = MaxRequests
    /\ responded' = TRUE
    /\ UNCHANGED <<form, stateVars, outVars, finish_pending, ended, read_finished, inVars,
                   pumps, stack, call, cancel_fired, written, told, reads, dangling>>

\* FinishRequest, from the callback of a frame with END_STREAM.
FinishRequest ==
    /\ Idle /\ call = "live" /\ peer = "open"
    /\ peer' = "ending"
    /\ IF dispatched = "no"
       THEN /\ responded' = TRUE      \* TrailersOnly: no request message
            /\ ended' = IF responded THEN ended ELSE "Internal"
            /\ UNCHANGED <<read_finished, read_cb, stack>>
       ELSE /\ read_finished' = TRUE
            /\ read_cb' = (read_cb /\ read_finished)
            /\ IF read_cb /\ ~read_finished THEN Enter("read") ELSE UNCHANGED stack
            /\ UNCHANGED <<responded, ended>>
    /\ UNCHANGED <<form, stateVars, outVars, finish_pending, pending_msgs, dispatched, pumps,
                   call, cancel_fired, histVars>>

\* nghttp2 shuts the request side when that callback has returned, and closes
\* the stream if the trailers are out.
EndStream ==
    /\ stack = <<>> /\ notes = <<>> /\ peer = "ending"
    /\ peer' = "ended"
    /\ IF ended # "none" /\ ~finish_pending
       THEN Enter("closing") /\ read_finished' = TRUE
       ELSE UNCHANGED <<stack, read_finished>>
    /\ UNCHANGED <<form, stateVars, outVars, responded, finish_pending, ended, read_cb,
                   pending_msgs, dispatched, pumps, call, cancel_fired, histVars>>

\* The service's own work on the loop, with a copy of the view, while the stream
\* lives.
UserTask ==
    /\ call = "live" /\ dispatched = "run" /\ Idle
    /\ Enter("task")
    /\ UNCHANGED <<form, stateVars, outVars, endVars, inVars, pumps, call, cancel_fired, histVars>>

RunPump ==
    /\ pumps > 0 /\ Idle
    /\ pumps' = pumps - 1
    /\ PumpOut(out_queue)
    /\ UNCHANGED <<form, stateVars, endVars, inVars, stack, call, cancel_fired, histVars>>

\* The peer grants window: nghttp2 consumes the body it held.  One overtaken by
\* the trailers of a deadline is dropped.
Unblock ==
    /\ Idle /\ call = "live" /\ out_inflight # NoMsg /\ ended # "DeadlineExceeded"
    /\ notes' = <<out_inflight>>
    /\ UNCHANGED <<form, stateVars, out_queue, out_inflight, endVars, inVars, pumps, stack,
                   call, cancel_fired, histVars>>

OnDeadline ==
    /\ Idle /\ call = "live" /\ ~responded
    /\ Enter("deadline")
    /\ cancel_fired' = TRUE
    /\ UNCHANGED <<form, stateVars, outVars, endVars, inVars, pumps, call, histVars>>

\* Bug variant of OnStreamClose: a read callback may read again.
OnStreamCloseReadable ==
    /\ Idle /\ call = "live"
    /\ Enter("closing")
    /\ UNCHANGED <<form, stateVars, outVars, endVars, inVars, pumps, call, cancel_fired, histVars>>

\* The peer resets the stream: OnStreamClose.
OnStreamClose ==
    /\ Idle /\ call = "live"
    /\ Enter("closing")
    /\ read_finished' = TRUE
    /\ UNCHANGED <<form, stateVars, outVars, responded, finish_pending, ended, inVars, pumps,
                   call, cancel_fired, histVars>>

Next ==
    \/ \E m \in Msgs : Write(m) \/ Done(m)
    \/ Finish \/ ReadMessage \/ Return
    \/ Notify \/ Notified \/ CancelStreamIo \/ FireCancel \/ Erase
    \/ OnHeaders \/ OnMessage \/ OnBadData \/ FinishRequest \/ EndStream
    \/ UserTask \/ RunPump \/ Unblock \/ OnDeadline \/ OnStreamClose

Spec == Init /\ [][Next]_vars

\* The loop thread runs what it has, and handlers and callbacks return.  Posted
\* tasks run first in, first out, so a pump is not put off for ever by tasks of
\* the service; the peer grants window in the end, whatever else happens.
FairSpec ==
    /\ Spec
    /\ WF_vars(Return) /\ WF_vars(Erase) /\ WF_vars(Notify) /\ WF_vars(Notified)
    /\ WF_vars(CancelStreamIo) /\ WF_vars(FireCancel) /\ WF_vars(EndStream)
    /\ SF_vars(RunPump) /\ SF_vars(Unblock)

-----------------------------------------------------------------------------
(* Properties *)

(* An OK is the last thing on the stream: no message is queued behind it, and *)
(* none is inside nghttp2 when the trailers go.  The OK the wrapper sends by  *)
(* itself never waits in finish_pending, where a queue would stay for ever;   *)
(* it comes after every `delivered` callback, and not while one of them or    *)
(* the handler runs, so a producer that writes the next message from          *)
(* `delivered` is never cut off.                                              *)
OkComesLast ==
    ended = "Ok" =>
        /\ out_queue = <<>>
        /\ finish_pending \/ out_inflight = NoMsg
        /\ form = "server" =>
              /\ ~finish_pending
              /\ \A m \in written : told[m] = 1
              /\ ~Active("handler") /\ ~Active("sent") /\ ~Active("dropped")

(* A stream whose handler has returned after writing is finished, if it is   *)
(* not closed first: the last delivery does it.  The OK that `done` leaves    *)
(* waiting for its message goes out.                                         *)
StreamsEnd ==
    /\ handler_returned ~> responded \/ call = "gone"
    /\ form = "client" /\ finish_pending ~> ~finish_pending \/ call = "gone"

(* No view and no wrapper uses the StreamCtx after OnStreamClose has         *)
(* destroyed it, though the stream may close within the very call that       *)
(* finishes it and the automatic finish keeps a bare pointer.                *)
ContextAlive == "view" \notin dangling

(* No reader waits on a stream that is gone: OnStreamClose answers the read  *)
(* that is armed, and one made by that answer is refused at once.            *)
ReadsAnswered == call = "gone" => ~read_cb
=============================================================================
