-------------------------- MODULE ServerCallProofs --------------------------
(***************************************************************************)
(* The response of a server call, for any number of messages and any order *)
(* of frames, timers, posted tasks and handler calls: what is on the wire  *)
(* is well formed, a message that can be sent is on its way, and the       *)
(* handler hears of a deadline before the peer does; every message written *)
(* is accounted for, and messages stay in order in both directions.        *)
(***************************************************************************)
EXTENDS ServerCall, TLAPS

-----------------------------------------------------------------------------
(* Sequences.  These few facts stand in for the library of sequence          *)
(* theorems, which every obligation would otherwise carry along.             *)

(* The empty sequence is the one of length 0. *)
LEMMA EmptySeq ==
    ASSUME NEW V
    PROVE  /\ <<>> \in Seq(V) /\ Len(<<>>) = 0
           /\ \A q \in Seq(V) : (q = <<>>) <=> (Len(q) = 0)
OBVIOUS

(* A sequence is a function on 1..Len(q). *)
LEMMA LenProperties ==
    ASSUME NEW V, NEW q \in Seq(V)
    PROVE  /\ Len(q) \in Nat /\ DOMAIN q = 1..Len(q)
           /\ q \in [1..Len(q) -> V]
OBVIOUS

(* What Append returns. *)
LEMMA AppendProperties ==
    ASSUME NEW V, NEW q \in Seq(V), NEW e \in V
    PROVE  /\ Append(q, e) \in Seq(V) /\ Append(q, e) # <<>>
           /\ Len(q) \in Nat /\ DOMAIN q = 1..Len(q)
           /\ Len(Append(q, e)) = Len(q) + 1 /\ DOMAIN Append(q, e) = 1..(Len(q) + 1)
           /\ \A k \in 1..Len(q) : Append(q, e)[k] = q[k]
           /\ Append(q, e)[Len(q) + 1] = e
OBVIOUS

(* What Head and Tail return. *)
LEMMA HeadTailProperties ==
    ASSUME NEW V, NEW q \in Seq(V), q # <<>>
    PROVE  /\ Head(q) \in V /\ Head(q) = q[1]
           /\ Tail(q) \in Seq(V)
           /\ Len(q) \in Nat \ {0} /\ Len(Tail(q)) = Len(q) - 1
           /\ \A k \in 1..(Len(q) - 1) : Tail(q)[k] = q[k + 1]
OBVIOUS

-----------------------------------------------------------------------------
\* ResponseWellFormed and Trailed, of a sequence of frames.
WellFormed(w) ==
    \A k \in DOMAIN w :
        /\ w[k].kind = "headers" <=> k = 1 /\ w[k].kind # "trailersOnly"
        /\ w[k].kind = "trailersOnly" => Len(w) = 1
        /\ w[k].kind = "trailers" => k = Len(w)
Ended(w) == \E k \in DOMAIN w : Terminal(w[k])

\* The handler is told of a deadline first (CancelTold).
ToldFirst(c) ==
    /\ \A k \in DOMAIN c.wire :
          Terminal(c.wire[k]) /\ c.wire[k].status = "DeadlineExceeded" => c.cancel_fired
    /\ c.cancel_fired \/ c.place = "gone" => ~c.on_cancel

\* The state of the response side while the call is open.
OpenInv(c) ==
    c.place = "open" =>
        /\ Ended(c.wire) => c.responded /\ c.finish_pending = "none"
        /\ c.finish_pending # "none" => c.responded
        /\ ~c.responded => (c.response_headers_sent <=> c.wire # <<>>)

\* What nghttp2 holds is the message in flight, and nothing has ended.
ItemInv(c) ==
    c.item # 0 => /\ c.place = "open" /\ c.item = c.out_inflight
                  /\ c.wire # <<>> /\ ~Ended(c.wire)

\* Nothing happens before the headers, and only streaming handlers write.
StartInv(c) ==
    /\ c.peer = "idle" =>
          /\ c.place = "none" /\ c.wire = <<>> /\ c.out_queue = <<>>
          /\ ~c.responded /\ ~c.response_headers_sent /\ c.finish_pending = "none"
    /\ c.response_headers_sent \/ c.out_queue # <<>> => c.dispatched /\ c.form \in Streaming

Base(c) ==
    /\ c \in Call
    /\ WellFormed(c.wire)
    /\ ToldFirst(c) /\ OpenInv(c) /\ ItemInv(c) /\ StartInv(c)
    /\ c.finish_pending # "DeadlineExceeded"

Pumped(c) == CanPump(c) => c.pumps > 0

(* The inductive invariant.                                                 *)
CallInv(c) == Base(c) /\ Pumped(c)

-----------------------------------------------------------------------------
(* Frames on the wire *)

(* One more frame on the wire.                                               *)
LEMMA AppendFrame ==
    ASSUME NEW w \in Seq(Frame), NEW f \in Frame
    PROVE  /\ Append(w, f) \in Seq(Frame) /\ Append(w, f) # <<>>
           /\ Len(w) \in Nat /\ Len(Append(w, f)) = Len(w) + 1
           /\ DOMAIN w = 1..Len(w) /\ DOMAIN Append(w, f) = 1..(Len(w) + 1)
           /\ \A k \in 1..Len(w) : Append(w, f)[k] = w[k]
           /\ Append(w, f)[Len(w) + 1] = f
           /\ w = <<>> <=> Len(w) = 0
  BY AppendProperties, LenProperties, EmptySeq

(* Headers, or a status alone, may only come first; data and trailers may   *)
(* follow anything that has not ended.                                      *)
LEMMA AppendWellFormed ==
    ASSUME NEW w \in Seq(Frame), NEW f \in Frame, WellFormed(w), ~Ended(w),
           f.kind \in {"headers", "trailersOnly"} <=> w = <<>>
    PROVE  /\ WellFormed(Append(w, f))
           /\ Ended(Append(w, f)) <=> Terminal(f)
<1> DEFINE v == Append(w, f)
<1>1. /\ Len(w) \in Nat /\ Len(v) = Len(w) + 1
      /\ DOMAIN w = 1..Len(w) /\ DOMAIN v = 1..(Len(w) + 1)
      /\ \A k \in 1..Len(w) : v[k] = w[k]
      /\ v[Len(w) + 1] = f
      /\ w = <<>> <=> Len(w) = 0
  BY AppendFrame
<1> HIDE DEF v
<1>2. \A k \in DOMAIN v : k \in DOMAIN w \/ k = Len(w) + 1
  BY <1>1
<1>3. f.kind \in {"headers", "data", "trailers", "trailersOnly"}
  BY DEF Frame
<1>4. ASSUME NEW k \in DOMAIN v
      PROVE  /\ v[k].kind = "headers" <=> k = 1 /\ v[k].kind # "trailersOnly"
             /\ v[k].kind = "trailersOnly" => Len(v) = 1
             /\ v[k].kind = "trailers" => k = Len(v)
  <2>1. CASE k \in DOMAIN w
    BY <1>1, <2>1 DEF WellFormed, Ended, Terminal
  <2>2. CASE k = Len(w) + 1
    BY <1>1, <1>3, <2>2
  <2> QED
    BY <1>2, <2>1, <2>2
<1>5. Ended(v) <=> Terminal(f)
  <2>1. Len(w) + 1 \in DOMAIN v
    BY <1>1
  <2> QED
    BY <1>1, <1>2, <2>1 DEF Ended
<1>6. WellFormed(v)
  BY <1>4 DEF WellFormed
<1> QED
  BY <1>5, <1>6 DEF v

-----------------------------------------------------------------------------
(* Parts of a call the invariant does not look at *)

Same(c, d) ==
    /\ d.place = c.place /\ d.form = c.form /\ d.peer = c.peer /\ d.dispatched = c.dispatched
    /\ d.responded = c.responded /\ d.response_headers_sent = c.response_headers_sent
    /\ d.write_closed = c.write_closed /\ d.finish_pending = c.finish_pending
    /\ d.out_queue = c.out_queue /\ d.out_inflight = c.out_inflight
    /\ d.item = c.item /\ d.wire = c.wire /\ d.pumps = c.pumps
Alike(c, d) ==
    Same(c, d) /\ d.cancel_fired = c.cancel_fired /\ d.on_cancel = c.on_cancel

(* A step that the response side does not see.                               *)
LEMMA SameBase ==
    ASSUME NEW c, NEW d \in Call, Base(c), Same(c, d),
           c.cancel_fired => d.cancel_fired,
           d.cancel_fired \/ d.place = "gone" => ~d.on_cancel
    PROVE  Base(d) /\ (Pumped(c) => Pumped(d))
<1>1. ToldFirst(d)
  BY DEF Base, Same, ToldFirst
<1>2. OpenInv(d) /\ ItemInv(d) /\ StartInv(d)
  BY DEF Base, Same, OpenInv, ItemInv, StartInv
<1>3. Pumped(c) => Pumped(d)
  BY DEF Same, Pumped, CanPump
<1> QED
  BY <1>1, <1>2, <1>3 DEF Base, Same

(* The same, when the place and the wire agree as well.                      *)
LEMMA AlikeBase ==
    ASSUME NEW c, NEW d \in Call, Base(c), Alike(c, d)
    PROVE  Base(d) /\ (Pumped(c) => Pumped(d))
<1>1. /\ Same(c, d) /\ (c.cancel_fired => d.cancel_fired)
      /\ d.cancel_fired \/ d.place = "gone" => ~d.on_cancel
  BY DEF Alike, Same, Base, ToldFirst
<1> QED
  BY <1>1, SameBase

(* Stopping the timer changes nothing else.                                  *)
LEMMA StopDeadlineAlike ==
    ASSUME NEW c \in Call
    PROVE  StopDeadline(c) \in Call /\ Alike(c, StopDeadline(c))
<1> DEFINE d == [c EXCEPT !.timer = "off"]
<1>1. d \in Call
  BY ZenonT(30) DEF Call
<1>2. Alike(c, d)
  BY DEF Call, Alike, Same
<1>3. Alike(c, c)
  BY DEF Alike, Same
<1> QED
  BY <1>1, <1>2, <1>3 DEF StopDeadline

(* Answering writes changes nothing else.                                    *)
LEMMA AnswerAlike ==
    ASSUME NEW c \in Call, NEW ns, NEW st \in Status
    PROVE  Answer(c, ns, st) \in Call /\ Alike(c, Answer(c, ns, st))
<1> DEFINE a == [n \in DOMAIN c.answers |->
                   IF n \in ns THEN Append(c.answers[n], st) ELSE c.answers[n]]
<1>1. a \in [1..MaxWrites -> Seq(Status)]
  <2>1. c.answers \in [1..MaxWrites -> Seq(Status)]
    BY DEF Call
  <2> QED
    BY ZenonT(30), <2>1, AppendProperties
<1>2. Answer(c, ns, st) = [c EXCEPT !.answers = a]
  BY DEF Answer, Call
<1> HIDE DEF a
<1>3. [c EXCEPT !.answers = a] \in Call
  BY ZenonT(30), <1>1 DEF Call
<1>4. Alike(c, [c EXCEPT !.answers = a])
  BY DEF Call, Alike, Same
<1> QED
  BY <1>2, <1>3, <1>4

(* Giving the reader an event changes nothing else.                          *)
LEMMA GiveAlike ==
    ASSUME NEW c \in Call, NEW e \in ReadEvent
    PROVE  Give(c, e) \in Call /\ Alike(c, Give(c, e))
<1>1. Append(c.reads, e) \in Seq(ReadEvent)
  BY AppendProperties DEF Call
<1>2. Give(c, e) = [c EXCEPT !.reads = Append(c.reads, e)]
  BY DEF Give
<1>3. [c EXCEPT !.reads = Append(c.reads, e)] \in Call
  BY ZenonT(30), <1>1 DEF Call
<1>4. Alike(c, [c EXCEPT !.reads = Append(c.reads, e)])
  BY DEF Call, Alike, Same
<1> QED
  BY <1>2, <1>3, <1>4

(* The events a reader is given.                                             *)
LEMMA EventType ==
    ASSUME NEW st \in Status, NEW eos \in BOOLEAN, NEW m \in 0..MaxRequests
    PROVE  Event(st, eos, m) \in ReadEvent
  BY DEF Event, ReadEvent

(* Running the cancel callbacks changes nothing else.                        *)
LEMMA FireCancelSame ==
    ASSUME NEW c \in Call
    PROVE  /\ FireCancel(c) \in Call /\ Same(c, FireCancel(c))
           /\ FireCancel(c).cancel_fired = TRUE
           /\ (c.cancel_fired => ~c.on_cancel) => ~FireCancel(c).on_cancel
<1> DEFINE d == [c EXCEPT !.cancel_fired = TRUE, !.on_cancel = FALSE]
<1>1. d \in Call
  BY ZenonT(30) DEF Call
<1>2. Same(c, d) /\ Same(c, c)
  BY DEF Call, Same
<1>3. d.cancel_fired = TRUE /\ ~d.on_cancel
  BY DEF Call
<1>4. c.cancel_fired \in BOOLEAN
  BY DEF Call
<1> QED
  BY <1>1, <1>2, <1>3, <1>4 DEF FireCancel

(* CancelStreamIo leaves an empty queue and a closed reader.                 *)
LEMMA CancelStreamIoType ==
    ASSUME NEW c \in Call
    PROVE  /\ CancelStreamIo(c) \in Call
           /\ Alike([c EXCEPT !.out_queue = <<>>], CancelStreamIo(c))
<1> DEFINE a == Answer(c, Elems(c.out_queue), "Unavailable")
           r == IF c.read_cb THEN Append(a.reads, Event("Unavailable", FALSE, 0)) ELSE a.reads
<1>1. a \in Call /\ Alike(c, a)
  BY AnswerAlike DEF Status
<1>2. Event("Unavailable", FALSE, 0) \in ReadEvent
  <2>1. 0 \in 0..MaxRequests
    BY ConstantsAssumption
  <2> QED
    BY ZenonT(30), <2>1, EventType DEF Status
<1>3. r \in Seq(ReadEvent)
  BY ZenonT(30), <1>1, <1>2, AppendProperties DEF Call
<1>4. CancelStreamIo(c) = [a EXCEPT !.read_finished = TRUE, !.read_cb = FALSE,
                                    !.out_queue = <<>>, !.reads = r]
  BY <1>1 DEF CancelStreamIo, Call
<1>5. <<>> \in Seq(1..MaxWrites)
  BY EmptySeq
<1> HIDE DEF a, r
<1>6. CancelStreamIo(c) \in Call
  <2> DEFINE b == [a EXCEPT !.read_finished = TRUE, !.read_cb = FALSE]
             d == [b EXCEPT !.out_queue = <<>>, !.reads = r]
  <2>1. b \in Call
    BY ZenonT(30), <1>1 DEF Call
  <2> HIDE DEF b
  <2>2. d \in Call
    BY ZenonT(30), <1>3, <1>5, <2>1 DEF Call
  <2>3. CancelStreamIo(c) = d
    BY <1>4 DEF b
  <2> QED
    BY <2>2, <2>3
<1>7. Alike([a EXCEPT !.out_queue = <<>>], CancelStreamIo(c))
  BY <1>1, <1>4 DEF Call, Alike, Same
<1>8. Alike([c EXCEPT !.out_queue = <<>>], [a EXCEPT !.out_queue = <<>>])
  BY <1>1 DEF Call, Alike, Same
<1> QED
  BY <1>6, <1>7, <1>8 DEF Alike, Same

-----------------------------------------------------------------------------
(* The end of a call *)

(* OnStreamClose, and a lost connection: the call is gone, its wire stays.  *)
LEMMA GoneInv ==
    ASSUME NEW c \in Call, NEW d \in Call, WellFormed(c.wire), ToldFirst(c), StartInv(c),
           c.peer # "idle", c.finish_pending # "DeadlineExceeded",
           d.wire = c.wire, d.place = "gone", d.item = 0, d.peer # "idle",
           d.out_queue = <<>>, d.form = c.form, d.dispatched = c.dispatched,
           d.response_headers_sent = c.response_headers_sent,
           d.finish_pending = c.finish_pending, d.cancel_fired = TRUE, ~d.on_cancel
    PROVE  CallInv(d)
<1>1. ToldFirst(d)
  BY DEF ToldFirst
<1>2. OpenInv(d) /\ ItemInv(d) /\ StartInv(d) /\ Pumped(d)
  BY DEF OpenInv, ItemInv, StartInv, Pumped, CanPump
<1> QED
  BY <1>1, <1>2 DEF CallInv, Base

\* What remains of an open call that is cancelled.
Cancelled(c) == FireCancel(CancelStreamIo(c))

(* CancelStreamIo, then the cancel callbacks.                                *)
LEMMA CancelledType ==
    ASSUME NEW c \in Call, c.cancel_fired => ~c.on_cancel
    PROVE  /\ Cancelled(c) \in Call
           /\ Same([c EXCEPT !.out_queue = <<>>], Cancelled(c))
           /\ Cancelled(c).cancel_fired = TRUE /\ ~Cancelled(c).on_cancel
<1> DEFINE e == CancelStreamIo(c)
           f == [c EXCEPT !.out_queue = <<>>]
<1>1. e \in Call /\ Alike(f, e)
  BY CancelStreamIoType
<1>2. f.cancel_fired = c.cancel_fired /\ f.on_cancel = c.on_cancel
  BY DEF Call
<1> HIDE DEF e, f
<1>3. /\ FireCancel(e) \in Call /\ Same(e, FireCancel(e))
      /\ FireCancel(e).cancel_fired = TRUE /\ ~FireCancel(e).on_cancel
  BY ZenonT(30), <1>1, <1>2, FireCancelSame DEF Alike
<1> QED
  BY <1>1, <1>3 DEF Cancelled, Alike, Same, e, f

(* OnStreamClose.                                                            *)
LEMMA CloseInv ==
    ASSUME NEW c, Base(c), c.peer # "idle"
    PROVE  CallInv(Close(c))
<1>1. c \in Call /\ (c.cancel_fired => ~c.on_cancel)
  BY DEF Base, ToldFirst
<1>2. CASE c.place # "open"
  BY <1>2 DEF Close, CallInv, Pumped, CanPump
<1>3. CASE c.place = "open"
  <2> DEFINE e == StopDeadline(Cancelled(c))
             d == [e EXCEPT !.place = "gone", !.item = 0]
  <2>1. /\ Cancelled(c) \in Call /\ Same([c EXCEPT !.out_queue = <<>>], Cancelled(c))
        /\ Cancelled(c).cancel_fired = TRUE /\ ~Cancelled(c).on_cancel
    BY ZenonT(30), <1>1, CancelledType
  <2>2. e \in Call /\ Alike(Cancelled(c), e)
    BY <2>1, StopDeadlineAlike
  <2>3. Close(c) = d
    BY <1>3 DEF Close, Cancelled
  <2> HIDE DEF e
  <2>4. /\ e.wire = c.wire /\ e.peer = c.peer /\ e.out_queue = <<>> /\ e.form = c.form
        /\ e.dispatched = c.dispatched /\ e.response_headers_sent = c.response_headers_sent
        /\ e.finish_pending = c.finish_pending /\ e.cancel_fired = TRUE /\ ~e.on_cancel
    BY <1>1, <2>1, <2>2 DEF Alike, Same, Call
  <2>5. /\ d \in Call /\ d.place = "gone" /\ d.item = 0
        /\ d.wire = e.wire /\ d.peer = e.peer /\ d.out_queue = e.out_queue /\ d.form = e.form
        /\ d.dispatched = e.dispatched /\ d.response_headers_sent = e.response_headers_sent
        /\ d.finish_pending = e.finish_pending /\ d.cancel_fired = e.cancel_fired
        /\ d.on_cancel = e.on_cancel
    <3>1. 0 \in 0..MaxWrites
      BY ConstantsAssumption
    <3>2. d \in Call
      BY ZenonT(30), <2>2, <3>1 DEF Call
    <3> QED
      BY <2>2, <3>2 DEF Call
  <2> HIDE DEF d
  <2> QED
    BY ZenonT(30), <1>1, <2>3, <2>4, <2>5, GoneInv DEF Base
<1> QED
  BY <1>2, <1>3

(* nghttp2 closes a stream both sides of which have ended.                   *)
LEMMA SettleInv ==
    ASSUME NEW c, CallInv(c)
    PROVE  CallInv(Settle(c))
  BY CloseInv DEF Settle, CallInv, Base, StartInv

\* A call whose terminal status may go out.
Ready(c) ==
    /\ c \in Call
    /\ WellFormed(c.wire) /\ ~Ended(c.wire)
    /\ ToldFirst(c) /\ StartInv(c)
    /\ c.peer # "idle" /\ (c.place = "open" => c.responded)
    /\ c.finish_pending = "none"

(* The terminal status ends a response that has begun, or stands alone.     *)
LEMMA EndInv ==
    ASSUME NEW c, Ready(c), NEW kind \in {"trailers", "trailersOnly"}, NEW st \in Status,
           kind = "trailersOnly" <=> c.wire = <<>>,
           st = "DeadlineExceeded" => c.cancel_fired
    PROVE  CallInv(End(c, kind, st))
<1> DEFINE f == [kind |-> kind, status |-> st]
           w == Append(c.wire, f)
           d == [c EXCEPT !.wire = w, !.item = 0]
<1>1. f \in Frame /\ f.kind = kind /\ f.status = st
  BY DEF Frame
<1>2. c \in Call /\ c.wire \in Seq(Frame)
  BY DEF Ready, Call
<1>3. End(c, kind, st) = Settle(d)
  BY DEF End
<1> HIDE DEF f
<1>4. WellFormed(w) /\ w \in Seq(Frame) /\ w # <<>>
  BY <1>1, <1>2, AppendWellFormed, AppendFrame DEF Ready
<1>5. /\ DOMAIN c.wire = 1..Len(c.wire) /\ DOMAIN w = 1..(Len(c.wire) + 1)
      /\ \A k \in 1..Len(c.wire) : w[k] = c.wire[k]
      /\ w[Len(c.wire) + 1] = f /\ Len(c.wire) \in Nat
  BY <1>1, <1>2, AppendFrame
<1> HIDE DEF w
<1>6. \A k \in DOMAIN w : k \in DOMAIN c.wire \/ k = Len(c.wire) + 1
  BY <1>5
<1>7. d \in Call
  <2>1. 0 \in 0..MaxWrites
    BY ConstantsAssumption
  <2> QED
    BY ZenonT(30), <1>2, <1>4, <2>1 DEF Call
<1>8. /\ d.wire = w /\ d.item = 0 /\ d.place = c.place /\ d.peer = c.peer
      /\ d.responded = c.responded /\ d.finish_pending = "none"
      /\ d.out_queue = c.out_queue /\ d.response_headers_sent = c.response_headers_sent
      /\ d.dispatched = c.dispatched /\ d.form = c.form
      /\ d.cancel_fired = c.cancel_fired /\ d.on_cancel = c.on_cancel
  BY <1>2 DEF Call, Ready
<1> HIDE DEF d
<1>9. ToldFirst(d)
  BY <1>1, <1>5, <1>6, <1>8 DEF Ready, ToldFirst
<1>10. OpenInv(d) /\ ItemInv(d) /\ StartInv(d) /\ Pumped(d)
  BY <1>8 DEF Ready, OpenInv, ItemInv, StartInv, Pumped, CanPump
<1>11. CallInv(d)
  BY <1>4, <1>7, <1>8, <1>9, <1>10 DEF CallInv, Base
<1> QED
  BY <1>3, <1>11, SettleInv

(* The terminal status of a stream, with or without headers before it.       *)
LEMMA TrailStreamInv ==
    ASSUME NEW c, Ready(c), NEW st \in Status,
           c.response_headers_sent <=> c.wire # <<>>,
           st = "DeadlineExceeded" => c.cancel_fired
    PROVE  CallInv(TrailStream(c, st))
  BY EndInv DEF TrailStream, SendTrailers, SendTrailersOnly

\* d is c with responded set, and perhaps its reader, writer and timer shut.
Marked(c, d) ==
    /\ d \in Call
    /\ d.responded = TRUE
    /\ d.place = c.place /\ d.form = c.form /\ d.peer = c.peer /\ d.dispatched = c.dispatched
    /\ d.response_headers_sent = c.response_headers_sent
    /\ d.finish_pending = c.finish_pending
    /\ d.out_queue = c.out_queue /\ d.out_inflight = c.out_inflight
    /\ d.item = c.item /\ d.wire = c.wire
    /\ d.cancel_fired = c.cancel_fired /\ d.on_cancel = c.on_cancel

(* Nothing has ended before responded is set, so the status may go out.     *)
LEMMA MarkedReady ==
    ASSUME NEW c, Base(c), c.place = "open", ~c.responded, NEW d, Marked(c, d)
    PROVE  /\ Ready(d) /\ CallInv(d)
           /\ d.response_headers_sent <=> d.wire # <<>>
           /\ (c.form \notin Streaming \/ ~c.dispatched) => d.wire = <<>>
<1>1. /\ ~Ended(c.wire) /\ c.finish_pending = "none"
      /\ c.response_headers_sent <=> c.wire # <<>>
  BY DEF Base, OpenInv, Call
<1>2. c.peer # "idle"
  BY DEF Base, StartInv
<1>3. ToldFirst(d) /\ StartInv(d) /\ ItemInv(d) /\ OpenInv(d) /\ Pumped(d)
  BY <1>1, <1>2 DEF Base, Marked, ToldFirst, StartInv, ItemInv, OpenInv, Pumped, CanPump
<1>4. Ready(d)
  BY <1>1, <1>2, <1>3 DEF Base, Marked, Ready
<1>5. CallInv(d)
  BY <1>3 DEF Base, Marked, CallInv
<1>6. (c.form \notin Streaming \/ ~c.dispatched) => d.wire = <<>>
  BY <1>1 DEF Base, StartInv, Marked
<1> QED
  BY <1>1, <1>4, <1>5, <1>6 DEF Marked

(* The call is marked as answered.                                           *)
LEMMA MarkType ==
    ASSUME NEW c \in Call
    PROVE  /\ Marked(c, StopDeadline([c EXCEPT !.responded = TRUE]))
           /\ Marked(c, [c EXCEPT !.responded = TRUE])
<1> DEFINE d == [c EXCEPT !.responded = TRUE]
<1>1. d \in Call
  BY ZenonT(30) DEF Call
<1>2. Marked(c, d)
  BY ZenonT(30), <1>1 DEF Call, Marked
<1> HIDE DEF d
<1>3. StopDeadline(d) \in Call /\ Alike(d, StopDeadline(d))
  BY <1>1, StopDeadlineAlike
<1>4. Marked(c, StopDeadline(d))
  BY <1>2, <1>3 DEF Alike, Same, Marked
<1> QED
  BY <1>2, <1>4 DEF d

(* TrailersOnly is for calls that have sent nothing.                        *)
LEMMA TrailersOnlyInv ==
    ASSUME NEW c, CallInv(c), c.place = "open", NEW st \in Status, st # "DeadlineExceeded",
           c.form \notin Streaming \/ ~c.dispatched
    PROVE  CallInv(TrailersOnly(c, st))
<1> DEFINE d == StopDeadline([c EXCEPT !.responded = TRUE])
<1>1. CASE c.responded
  BY <1>1 DEF TrailersOnly
<1>2. CASE ~c.responded
  <2>1. Ready(d) /\ d.wire = <<>>
    BY <1>2, MarkType, MarkedReady DEF CallInv, Base
  <2>2. TrailersOnly(c, st) = End(d, "trailersOnly", st)
    BY <1>2 DEF TrailersOnly, SendTrailersOnly
  <2> HIDE DEF d
  <2> QED
    BY <2>1, <2>2, EndInv
<1> QED
  BY <1>1, <1>2

(* RespondError, which answers nothing.                                      *)
LEMMA RespondErrorInv ==
    ASSUME NEW c, CallInv(c), c.place = "open", NEW st
    PROVE  CallInv(RespondError(c, st))
<1> DEFINE d == StopDeadline([c EXCEPT !.responded = TRUE])
<1>1. CASE c.responded
  BY <1>1 DEF RespondError
<1>2. CASE ~c.responded
  <2>1. CallInv(d) /\ d.responded
    <3>1. c \in Call /\ Base(c)
      BY DEF CallInv, Base
    <3>2. Marked(c, d)
      BY <3>1, MarkType
    <3> HIDE DEF d
    <3> QED
      BY ZenonT(30), <1>2, <3>1, <3>2, MarkedReady DEF Marked
  <2>2. RespondError(c, st) = d
    BY <1>2, <2>1 DEF RespondError, TrailersOnly
  <2> QED
    BY <2>1, <2>2
<1> QED
  BY <1>1, <1>2

(* FinishStream, now or deferred.                                            *)
LEMMA FinishStreamInv ==
    ASSUME NEW c, CallInv(c), NEW st \in Status, st # "DeadlineExceeded"
    PROVE  CallInv(FinishStream(c, st))
<1> DEFINE b == [c EXCEPT !.responded = TRUE, !.write_closed = TRUE, !.read_finished = TRUE]
           d == StopDeadline(b)
           e == [d EXCEPT !.finish_pending = st]
<1>1. CASE c.place # "open" \/ c.responded
  BY <1>1 DEF FinishStream
<1>2. CASE c.place = "open" /\ ~c.responded
  <2>1. c \in Call /\ Base(c)
    BY DEF CallInv, Base
  <2>2. b \in Call
    BY ZenonT(30), <2>1 DEF Call
  <2>3. Marked(c, b)
    BY <2>1, <2>2 DEF Call, Marked
  <2>4. /\ c.out_inflight # 0 \/ c.out_queue # <<>> => FinishStream(c, st) = e
        /\ ~(c.out_inflight # 0 \/ c.out_queue # <<>>) => FinishStream(c, st) = TrailStream(d, st)
    BY <1>2 DEF FinishStream
  <2> HIDE DEF b
  <2>5. d \in Call /\ Alike(b, d)
    BY <2>2, StopDeadlineAlike
  <2>6. Marked(c, d)
    BY <2>3, <2>5 DEF Alike, Same, Marked
  <2> HIDE DEF d
  <2>7. /\ Ready(d) /\ CallInv(d)
        /\ d.response_headers_sent <=> d.wire # <<>>
    BY <1>2, <2>1, <2>6, MarkedReady
  <2>8. CallInv(TrailStream(d, st))
    BY <2>7, TrailStreamInv
  <2>9. CallInv(e)
    <3>1. e \in Call
      BY ZenonT(30), <2>5 DEF Call
    <3>2. /\ e.finish_pending = st /\ e.responded = d.responded /\ e.place = d.place
          /\ e.form = d.form /\ e.peer = d.peer /\ e.dispatched = d.dispatched
          /\ e.response_headers_sent = d.response_headers_sent
          /\ e.out_queue = d.out_queue /\ e.out_inflight = d.out_inflight
          /\ e.item = d.item /\ e.wire = d.wire
          /\ e.cancel_fired = d.cancel_fired /\ e.on_cancel = d.on_cancel
      BY <2>5 DEF Call
    <3> HIDE DEF e
    <3>3. d.responded = TRUE /\ ~Ended(d.wire) /\ d.peer # "idle"
      BY <2>6, <2>7 DEF Marked, Ready
    <3>4. ToldFirst(e) /\ OpenInv(e) /\ ItemInv(e) /\ StartInv(e) /\ Pumped(e)
      BY <2>7, <3>2, <3>3 DEF CallInv, Base, ToldFirst, OpenInv, ItemInv, StartInv, Pumped,
                              CanPump
    <3> QED
      BY <2>7, <3>1, <3>2, <3>4 DEF CallInv, Base
  <2> QED
    BY <2>4, <2>8, <2>9
<1> QED
  BY <1>1, <1>2

-----------------------------------------------------------------------------
(* The write side *)

(* MaybeSendDeferredFinish.                                                  *)
LEMMA DeferredInv ==
    ASSUME NEW c, CallInv(c), c.wire # <<>>
    PROVE  CallInv(MaybeSendDeferredFinish(c))
<1> DEFINE d == [c EXCEPT !.finish_pending = "none"]
           st == c.finish_pending
<1>1. CASE MaybeSendDeferredFinish(c) = c
  BY <1>1
<1>2. CASE /\ c.place = "open" /\ st # "none"
           /\ MaybeSendDeferredFinish(c) = End(d, "trailers", st)
  <2>1. c \in Call /\ Base(c)
    BY DEF CallInv, Base
  <2>2. st \in Status /\ st # "DeadlineExceeded"
    BY <1>2, <2>1 DEF Base, Call
  <2>3. c.responded /\ ~Ended(c.wire) /\ c.peer # "idle"
    BY <1>2, <2>1 DEF Base, OpenInv, StartInv
  <2>4. d \in Call
    BY ZenonT(30), <2>1 DEF Call
  <2>5. /\ d.finish_pending = "none" /\ d.responded = c.responded /\ d.place = c.place
        /\ d.form = c.form /\ d.peer = c.peer /\ d.dispatched = c.dispatched
        /\ d.response_headers_sent = c.response_headers_sent
        /\ d.out_queue = c.out_queue /\ d.wire = c.wire
        /\ d.cancel_fired = c.cancel_fired /\ d.on_cancel = c.on_cancel
    BY <2>1 DEF Call
  <2> HIDE DEF d
  <2>6. ToldFirst(d) /\ StartInv(d)
    BY <2>1, <2>3, <2>5 DEF Base, ToldFirst, StartInv
  <2>7. Ready(d)
    BY <2>1, <2>3, <2>4, <2>5, <2>6 DEF Base, Ready
  <2> QED
    BY <1>2, <2>2, <2>5, <2>7, EndInv
<1> QED
  BY <1>1, <1>2 DEF MaybeSendDeferredFinish, SendTrailers

(* A message leaves; the next pump is posted.                               *)
LEMMA ConsumedInv ==
    ASSUME NEW c, Base(c), c.place = "open", c.out_inflight # 0,
           c.wire # <<>>, ~Ended(c.wire)
    PROVE  CallInv(Consumed(c))
<1> DEFINE f == Data(c.out_inflight)
           w == Append(c.wire, f)
           e == [c EXCEPT !.wire = w, !.item = 0, !.out_inflight = 0, !.pumps = @ + 1]
           a == Answer(e, {c.out_inflight}, "Ok")
<1>1. c \in Call /\ c.wire \in Seq(Frame) /\ c.out_inflight \in 0..MaxWrites /\ c.pumps \in Nat
  BY DEF Base, Call
<1>2. f \in Frame /\ f.kind = "data" /\ ~Terminal(f)
  <2>1. c.out_inflight \in 1..(MaxWrites + 1)
    BY <1>1, ConstantsAssumption
  <2> QED
    BY <2>1 DEF Data, Frame, Terminal
<1>3. Consumed(c) = MaybeSendDeferredFinish(a)
  BY DEF Consumed
<1> HIDE DEF f
<1>4. /\ w \in Seq(Frame) /\ w # <<>> /\ WellFormed(w) /\ ~Ended(w)
      /\ DOMAIN c.wire = 1..Len(c.wire) /\ DOMAIN w = 1..(Len(c.wire) + 1)
      /\ \A k \in 1..Len(c.wire) : w[k] = c.wire[k]
      /\ w[Len(c.wire) + 1] = f /\ Len(c.wire) \in Nat
  BY <1>1, <1>2, AppendWellFormed, AppendFrame DEF Base
<1> HIDE DEF w
<1>5. e \in Call
  <2>1. 0 \in 0..MaxWrites /\ c.pumps + 1 \in Nat
    BY <1>1, ConstantsAssumption
  <2> QED
    BY ZenonT(30), <1>1, <1>4, <2>1 DEF Call
<1>6. /\ e.wire = w /\ e.item = 0 /\ e.out_inflight = 0 /\ e.pumps = c.pumps + 1
      /\ e.place = c.place /\ e.peer = c.peer /\ e.responded = c.responded
      /\ e.finish_pending = c.finish_pending /\ e.out_queue = c.out_queue
      /\ e.response_headers_sent = c.response_headers_sent
      /\ e.dispatched = c.dispatched /\ e.form = c.form
      /\ e.cancel_fired = c.cancel_fired /\ e.on_cancel = c.on_cancel
  BY <1>1 DEF Call
<1> HIDE DEF e
<1>7. ToldFirst(e)
  <2>1. \A k \in DOMAIN w : Terminal(w[k]) => FALSE
    BY <1>4 DEF Ended
  <2> QED
    BY <1>6, <2>1 DEF Base, ToldFirst
<1>8. OpenInv(e) /\ ItemInv(e) /\ StartInv(e)
  BY <1>4, <1>6 DEF Base, OpenInv, ItemInv, StartInv
<1>9. Pumped(e)
  BY <1>1, <1>6 DEF Pumped
<1>10. CallInv(e)
  BY <1>4, <1>5, <1>6, <1>7, <1>8, <1>9 DEF CallInv, Base
<1>11. a \in Call /\ Alike(e, a)
  BY <1>5, AnswerAlike DEF Status
<1> HIDE DEF a
<1>12. CallInv(a) /\ a.wire = w
  BY <1>6, <1>10, <1>11, AlikeBase DEF CallInv, Alike, Same
<1> QED
  BY <1>3, <1>4, <1>12, DeferredInv

(* PumpOut needs no pump to be posted, and leaves one where it is needed.   *)
LEMMA PumpOutInv ==
    ASSUME NEW c, Base(c), NEW blocked \in BOOLEAN
    PROVE  CallInv(PumpOut(c, blocked))
<1> DEFINE m == Head(c.out_queue)
           q == Tail(c.out_queue)
           w == IF c.response_headers_sent THEN c.wire ELSE Append(c.wire, Headers)
           d == [c EXCEPT !.out_queue = q, !.out_inflight = m, !.item = m,
                          !.response_headers_sent = TRUE, !.wire = w]
<1>1. CASE ~CanPump(c)
  BY <1>1 DEF PumpOut, CallInv, Pumped
<1>2. CASE CanPump(c)
  <2>1. /\ c \in Call /\ c.out_queue \in Seq(1..MaxWrites) /\ c.wire \in Seq(Frame)
        /\ c.place = "open" /\ c.out_queue # <<>> /\ ~c.responded
    BY <1>2 DEF CanPump, Base, Call
  <2>2. m \in 1..MaxWrites /\ q \in Seq(1..MaxWrites)
    BY ZenonT(30), <2>1, HeadTailProperties
  <2>3. m # 0 /\ m \in 0..MaxWrites
    BY <2>2, ConstantsAssumption
  <2>4. /\ ~Ended(c.wire) /\ c.finish_pending = "none" /\ c.peer # "idle"
        /\ c.response_headers_sent <=> c.wire # <<>>
        /\ c.dispatched /\ c.form \in Streaming
    BY <2>1 DEF Base, OpenInv, StartInv
  <2>5. w \in Seq(Frame) /\ w # <<>> /\ WellFormed(w) /\ ~Ended(w)
    <3>1. Headers \in Frame /\ Headers.kind = "headers" /\ ~Terminal(Headers)
      BY DEF Headers, Frame, Terminal
    <3>2. CASE c.response_headers_sent
      BY <2>1, <2>4, <3>2 DEF Base
    <3>3. CASE ~c.response_headers_sent
      BY <2>1, <2>4, <3>1, <3>3, AppendWellFormed, AppendFrame DEF Base
    <3> QED
      BY <3>2, <3>3
  <2>6. PumpOut(c, blocked) = IF blocked THEN d ELSE Consumed(d)
    BY <1>2, <2>1 DEF PumpOut, Call
  <2> HIDE DEF m, q, w
  <2>7. d \in Call
    <3> DEFINE g == [c EXCEPT !.out_queue = q, !.out_inflight = m, !.item = m]
    <3>1. g \in Call
      BY ZenonT(30), <2>1, <2>2, <2>3 DEF Call
    <3> DEFINE h == [g EXCEPT !.response_headers_sent = TRUE, !.wire = w]
    <3>2. d = h
      OBVIOUS
    <3> HIDE DEF g
    <3>3. h \in Call
      BY ZenonT(30), <2>5, <3>1 DEF Call
    <3> HIDE DEF d, h
    <3> QED
      BY <3>2, <3>3
  <2>8. /\ d.wire = w /\ d.item = m /\ d.out_inflight = m /\ d.out_queue = q
        /\ d.response_headers_sent = TRUE
        /\ d.place = c.place /\ d.peer = c.peer /\ d.responded = c.responded
        /\ d.finish_pending = c.finish_pending /\ d.dispatched = c.dispatched
        /\ d.form = c.form /\ d.cancel_fired = c.cancel_fired /\ d.on_cancel = c.on_cancel
    BY <2>1 DEF Call
  <2> HIDE DEF d
  <2>9. ToldFirst(d)
    <3>1. \A k \in DOMAIN w : Terminal(w[k]) => FALSE
      BY <2>5 DEF Ended
    <3> QED
      BY <2>8, <3>1 DEF Base, ToldFirst
  <2>10. OpenInv(d) /\ ItemInv(d) /\ StartInv(d) /\ Pumped(d)
    BY <2>1, <2>3, <2>4, <2>5, <2>8 DEF OpenInv, ItemInv, StartInv, Pumped, CanPump
  <2>11. Base(d)
    BY <2>4, <2>5, <2>7, <2>8, <2>9, <2>10 DEF Base
  <2>12. CallInv(Consumed(d))
    BY <2>1, <2>3, <2>5, <2>8, <2>11, ConsumedInv
  <2> QED
    BY <2>6, <2>10, <2>11, <2>12 DEF CallInv
<1> QED
  BY <1>1, <1>2

-----------------------------------------------------------------------------
(* The read side *)

(* Steps that touch only what the invariant does not look at.               *)
LEMMA AlikeInv ==
    ASSUME NEW c, CallInv(c), NEW d \in Call, Alike(c, d)
    PROVE  CallInv(d)
  BY AlikeBase DEF CallInv

(* DeliverEos.                                                               *)
LEMMA DeliverEosInv ==
    ASSUME NEW c, CallInv(c)
    PROVE  CallInv(DeliverEos(c))
<1> DEFINE d == [c EXCEPT !.read_finished = TRUE, !.read_cb = FALSE]
           e == Event("Ok", TRUE, 0)
<1>1. c \in Call
  BY DEF CallInv, Base
<1>2. d \in Call
  BY ZenonT(30), <1>1 DEF Call
<1>3. Alike(c, d)
  BY <1>1 DEF Call, Alike, Same
<1>4. DeliverEos(c) \in {c, d, Give(d, e)}
  BY DEF DeliverEos
<1> HIDE DEF d
<1>5. CallInv(d)
  BY <1>2, <1>3, AlikeInv
<1>6. e \in ReadEvent
  <2>1. 0 \in 0..MaxRequests
    BY ConstantsAssumption
  <2> QED
    BY ZenonT(30), <2>1, EventType DEF Status
<1> HIDE DEF e
<1>7. CallInv(Give(d, e))
  BY <1>2, <1>5, <1>6, GiveAlike, AlikeInv
<1> QED
  BY <1>4, <1>5, <1>7

(* DeliverRead.                                                              *)
LEMMA DeliverReadInv ==
    ASSUME NEW c, CallInv(c), NEW m \in 1..MaxRequests
    PROVE  CallInv(DeliverRead(c, m))
<1> DEFINE d == [c EXCEPT !.read_cb = FALSE]
           e == Event("Ok", FALSE, m)
           u == [c EXCEPT !.unread = Append(@, m)]
<1>1. c \in Call /\ c.unread \in Seq(1..MaxRequests)
  BY DEF CallInv, Base, Call
<1>2. d \in Call /\ u \in Call
  <2>1. Append(c.unread, m) \in Seq(1..MaxRequests)
    BY <1>1, AppendProperties
  <2>2. d \in Call
    BY ZenonT(30), <1>1 DEF Call
  <2>3. u \in Call
    BY ZenonT(30), <1>1, <2>1 DEF Call
  <2> QED
    BY <2>2, <2>3
<1>3. Alike(c, d) /\ Alike(c, u)
  BY <1>1 DEF Call, Alike, Same
<1>4. DeliverRead(c, m) \in {c, Give(d, e), FinishStream(c, "ResourceExhausted"), u}
  BY DEF DeliverRead
<1> HIDE DEF d, u
<1>5. CallInv(d) /\ CallInv(u)
  BY <1>2, <1>3, AlikeInv
<1>6. e \in ReadEvent
  <2>1. m \in 0..MaxRequests
    BY ConstantsAssumption
  <2> QED
    BY ZenonT(30), <2>1, EventType DEF Status
<1> HIDE DEF e
<1>7. CallInv(Give(d, e))
  BY <1>2, <1>5, <1>6, GiveAlike, AlikeInv
<1>8. CallInv(FinishStream(c, "ResourceExhausted"))
  BY FinishStreamInv DEF Status
<1> QED
  BY <1>4, <1>5, <1>7, <1>8

(* Starting a handler: more calls may write than before.                    *)
LEMMA DispatchInv ==
    ASSUME NEW c, CallInv(c), NEW d \in Call,
           Alike([c EXCEPT !.dispatched = TRUE], d)
    PROVE  CallInv(d)
<1> DEFINE e == [c EXCEPT !.dispatched = TRUE]
<1>1. c \in Call
  BY DEF CallInv, Base
<1>2. e \in Call
  BY ZenonT(30), <1>1 DEF Call
<1>3. /\ e.dispatched = TRUE /\ e.place = c.place /\ e.form = c.form /\ e.peer = c.peer
      /\ e.responded = c.responded /\ e.response_headers_sent = c.response_headers_sent
      /\ e.write_closed = c.write_closed /\ e.finish_pending = c.finish_pending
      /\ e.out_queue = c.out_queue /\ e.out_inflight = c.out_inflight
      /\ e.item = c.item /\ e.wire = c.wire /\ e.pumps = c.pumps
      /\ e.cancel_fired = c.cancel_fired /\ e.on_cancel = c.on_cancel
  BY <1>1 DEF Call
<1> HIDE DEF e
<1>4. ToldFirst(e)
  BY <1>3 DEF CallInv, Base, ToldFirst
<1>5. OpenInv(e) /\ ItemInv(e) /\ StartInv(e) /\ Pumped(e)
  BY <1>3 DEF CallInv, Base, OpenInv, ItemInv, StartInv, Pumped, CanPump
<1>6. CallInv(e)
  BY <1>2, <1>3, <1>4, <1>5 DEF CallInv, Base
<1> QED
  BY <1>6, AlikeInv DEF e

(* A decoded message.                                                        *)
LEMMA OnMessageInv ==
    ASSUME NEW c, CallInv(c), NEW m \in 1..MaxRequests
    PROVE  CallInv(OnMessage(c, m))
<1> DEFINE u == [c EXCEPT !.unread = Append(@, m)]
           d == [c EXCEPT !.dispatched = TRUE, !.unread = <<m>>]
<1>1. c \in Call /\ c.unread \in Seq(1..MaxRequests)
  BY DEF CallInv, Base, Call
<1>2. Append(c.unread, m) \in Seq(1..MaxRequests) /\ <<m>> \in Seq(1..MaxRequests)
  BY <1>1, AppendProperties
<1>3. u \in Call /\ d \in Call
  <2>1. u \in Call
    BY ZenonT(30), <1>1, <1>2 DEF Call
  <2>2. d \in Call
    BY ZenonT(30), <1>1, <1>2 DEF Call
  <2> QED
    BY <2>1, <2>2
<1>4. Alike(c, u)
  BY <1>1 DEF Call, Alike, Same
<1>5. Alike([c EXCEPT !.dispatched = TRUE], d)
  BY <1>1 DEF Call, Alike, Same
<1>6. OnMessage(c, m) \in {u, DeliverRead(c, m), FinishStream(c, "Internal"), d}
  BY DEF OnMessage
<1> HIDE DEF u, d
<1>7. CallInv(u) /\ CallInv(d)
  BY <1>3, <1>4, <1>5, AlikeInv, DispatchInv
<1>8. CallInv(FinishStream(c, "Internal"))
  BY FinishStreamInv DEF Status
<1> QED
  BY <1>6, <1>7, <1>8, DeliverReadInv

(* FinishRequest.                                                            *)
LEMMA FinishRequestInv ==
    ASSUME NEW c, CallInv(c), c.place = "open"
    PROVE  CallInv(FinishRequest(c))
<1> DEFINE d == [c EXCEPT !.request_done = TRUE]
           s == [d EXCEPT !.request_half_closed = TRUE]
           h == [d EXCEPT !.dispatched = TRUE, !.unread = Tail(@)]
           e == Event("Ok", FALSE, Head(c.unread))
<1>1. c \in Call /\ c.unread \in Seq(1..MaxRequests)
  BY DEF CallInv, Base, Call
<1>2. d \in Call /\ s \in Call
  <2>1. d \in Call
    BY ZenonT(30), <1>1 DEF Call
  <2> HIDE DEF d
  <2>2. s \in Call
    BY ZenonT(30), <2>1 DEF Call
  <2> QED
    BY <2>1, <2>2
<1>3. Alike(c, d) /\ Alike(c, s)
  BY <1>1 DEF Call, Alike, Same
<1>4. CallInv(d) /\ CallInv(s)
  BY <1>2, <1>3, AlikeInv
<1>5. /\ d.place = c.place /\ d.form = c.form /\ d.dispatched = c.dispatched
      /\ s.place = c.place /\ s.form = c.form /\ s.dispatched = c.dispatched
  BY <1>3 DEF Alike, Same
<1>6. CASE c.form = "unknown"
  <2>1. FinishRequest(c) = TrailersOnly(d, "Unimplemented")
    BY <1>6 DEF FinishRequest
  <2> HIDE DEF d
  <2> QED
    BY <1>4, <1>5, <1>6, <2>1, TrailersOnlyInv DEF Streaming, Status
<1>7. CASE c.form = "unary" /\ c.unread = <<>>
  <2>1. FinishRequest(c) = TrailersOnly(d, "Internal")
    BY <1>7 DEF FinishRequest
  <2> HIDE DEF d
  <2> QED
    BY <1>4, <1>5, <1>7, <2>1, TrailersOnlyInv DEF Streaming, Status
<1>8. CASE c.form = "unary" /\ c.unread # <<>>
  <2>1. FinishRequest(c) = Give(h, e)
    BY <1>8 DEF FinishRequest
  <2>2. Head(c.unread) \in 1..MaxRequests /\ Tail(c.unread) \in Seq(1..MaxRequests)
    BY ZenonT(30), <1>1, <1>8, HeadTailProperties
  <2>3. e \in ReadEvent
    <3>1. Head(c.unread) \in 0..MaxRequests
      BY <2>2, ConstantsAssumption
    <3> QED
      BY ZenonT(30), <3>1, EventType DEF Status
  <2>4. d.unread = c.unread
    BY <1>1 DEF Call
  <2> HIDE DEF d, e
  <2>5. h \in Call
    BY ZenonT(30), <1>2, <2>2, <2>4 DEF Call
  <2>6. Alike([d EXCEPT !.dispatched = TRUE], h)
    BY <1>2 DEF Call, Alike, Same
  <2> HIDE DEF h
  <2>7. CallInv(h)
    BY <1>4, <2>5, <2>6, DispatchInv
  <2> QED
    BY <2>1, <2>3, <2>5, <2>7, GiveAlike, AlikeInv
<1>9. CASE c.form \notin {"unknown", "unary"} /\ ~c.dispatched
  <2>1. FinishRequest(c) = TrailersOnly(s, "Internal")
    BY ZenonT(30), <1>9 DEF FinishRequest
  <2> HIDE DEF s
  <2> QED
    BY <1>4, <1>5, <1>9, <2>1, TrailersOnlyInv DEF Status
<1>10. CASE c.form \notin {"unknown", "unary"} /\ c.dispatched
  <2>1. FinishRequest(c) = DeliverEos(s)
    BY ZenonT(30), <1>10 DEF FinishRequest
  <2> HIDE DEF s
  <2> QED
    BY <1>4, <2>1, DeliverEosInv
<1> QED
  BY <1>6, <1>7, <1>8, <1>9, <1>10

-----------------------------------------------------------------------------
(* Frames of the peer and the connection *)

(* The peer's side changes.                                                  *)
LEMMA PeerInv ==
    ASSUME NEW c, CallInv(c), NEW p \in {"open", "ended", "reset", "lost"}
    PROVE  CallInv([c EXCEPT !.peer = p]) /\ [c EXCEPT !.peer = p].peer # "idle"
<1> DEFINE d == [c EXCEPT !.peer = p]
<1>1. c \in Call
  BY DEF CallInv, Base
<1>2. d \in Call /\ d.peer = p
  BY ZenonT(30), <1>1 DEF Call
<1>3. /\ d.place = c.place /\ d.form = c.form /\ d.dispatched = c.dispatched
      /\ d.responded = c.responded /\ d.response_headers_sent = c.response_headers_sent
      /\ d.write_closed = c.write_closed /\ d.finish_pending = c.finish_pending
      /\ d.out_queue = c.out_queue /\ d.out_inflight = c.out_inflight
      /\ d.item = c.item /\ d.wire = c.wire /\ d.pumps = c.pumps
      /\ d.cancel_fired = c.cancel_fired /\ d.on_cancel = c.on_cancel
  BY <1>1 DEF Call
<1> HIDE DEF d
<1>4. ToldFirst(d)
  BY <1>3 DEF CallInv, Base, ToldFirst
<1>5. OpenInv(d) /\ ItemInv(d) /\ StartInv(d) /\ Pumped(d)
  BY <1>2, <1>3 DEF CallInv, Base, OpenInv, ItemInv, StartInv, Pumped, CanPump
<1>6. CallInv(d) /\ d.peer # "idle"
  BY <1>2, <1>3, <1>4, <1>5 DEF CallInv, Base
<1> QED
  BY <1>6 DEF d

(* OnHeadersComplete.                                                        *)
LEMMA HeadersInv ==
    ASSUME CallInv(call), NEW deadline \in BOOLEAN, OnHeadersComplete(deadline)
    PROVE  CallInv(call')
<1> DEFINE t == IF deadline THEN "armed" ELSE "off"
           g == call.form \in {"clientStreaming", "bidi"}
           b == [call EXCEPT !.place = "open", !.peer = "open"]
           d == [b EXCEPT !.timer = t, !.dispatched = g]
<1>1. call \in Call /\ call.peer = "idle"
  BY DEF CallInv, Base, OnHeadersComplete
<1>2. /\ call.place = "none" /\ call.wire = <<>> /\ call.out_queue = <<>>
      /\ ~call.responded /\ ~call.response_headers_sent /\ call.finish_pending = "none"
  BY <1>1 DEF CallInv, Base, StartInv
<1>3. call' = d
  BY DEF OnHeadersComplete
<1>4. b \in Call
  BY ZenonT(30), <1>1 DEF Call
<1>5. /\ b.place = "open" /\ b.peer = "open" /\ b.form = call.form
      /\ b.responded = call.responded /\ b.response_headers_sent = call.response_headers_sent
      /\ b.finish_pending = call.finish_pending
      /\ b.out_queue = call.out_queue /\ b.out_inflight = call.out_inflight
      /\ b.item = call.item /\ b.wire = call.wire
      /\ b.cancel_fired = call.cancel_fired /\ b.on_cancel = call.on_cancel
  BY <1>1 DEF Call
<1>6. t \in {"off", "armed", "fired"} /\ g \in BOOLEAN
  OBVIOUS
<1> HIDE DEF b, t, g
<1>7. d \in Call
  <2> DEFINE a == [b EXCEPT !.timer = t]
  <2>1. a \in Call
    BY ZenonT(30), <1>4, <1>6 DEF Call
  <2>2. d = [a EXCEPT !.dispatched = g]
    OBVIOUS
  <2> HIDE DEF a, d
  <2> QED
    BY ZenonT(30), <1>6, <2>1, <2>2 DEF Call
<1>8. /\ d.place = b.place /\ d.peer = b.peer /\ d.form = b.form
      /\ d.responded = b.responded /\ d.response_headers_sent = b.response_headers_sent
      /\ d.finish_pending = b.finish_pending
      /\ d.out_queue = b.out_queue /\ d.out_inflight = b.out_inflight
      /\ d.item = b.item /\ d.wire = b.wire
      /\ d.cancel_fired = b.cancel_fired /\ d.on_cancel = b.on_cancel
  BY <1>4 DEF Call
<1> HIDE DEF d
<1>9. DOMAIN call.wire = {}
  BY <1>2
<1>10. ToldFirst(d) /\ WellFormed(d.wire) /\ ~Ended(d.wire)
  BY <1>2, <1>5, <1>8, <1>9 DEF CallInv, Base, ToldFirst, WellFormed, Ended
<1>11. call.item = 0
  BY <1>2 DEF CallInv, Base, ItemInv
<1>12. OpenInv(d) /\ ItemInv(d) /\ StartInv(d) /\ Pumped(d)
  BY <1>2, <1>5, <1>8, <1>10, <1>11 DEF OpenInv, ItemInv, StartInv, Pumped, CanPump
<1> QED
  BY <1>2, <1>3, <1>5, <1>7, <1>8, <1>10, <1>12 DEF CallInv, Base

(* Headers that are refused without a Call.                                  *)
LEMMA BadHeadersInv ==
    ASSUME CallInv(call), BadHeaders
    PROVE  CallInv(call')
<1> DEFINE d == [call EXCEPT !.peer = "open"]
<1>1. CallInv(d) /\ d.peer # "idle"
  BY ZenonT(30), PeerInv
<1>2. call \in Call /\ call.peer = "idle"
  BY DEF CallInv, Base, BadHeaders
<1>3. d.place = "none" /\ d.wire = <<>> /\ d.finish_pending = "none"
  BY <1>2 DEF CallInv, Base, StartInv, Call
<1>4. call' = End(d, "trailersOnly", "Internal")
  BY DEF BadHeaders, SendTrailersOnly
<1> HIDE DEF d
<1>5. ~Ended(d.wire)
  BY <1>3 DEF Ended
<1>6. Ready(d)
  BY <1>1, <1>3, <1>5 DEF CallInv, Base, Ready
<1> QED
  BY <1>3, <1>4, <1>6, EndInv DEF Status

(* DATA that holds a message.                                                *)
LEMMA OnDataInv ==
    ASSUME CallInv(call), OnData
    PROVE  CallInv(call')
<1> DEFINE m == call.received + 1
           d == [call EXCEPT !.received = m]
<1>1. call \in Call
  BY DEF CallInv, Base
<1>2. m \in 1..MaxRequests /\ m \in 0..MaxRequests
  BY SMTT(30), <1>1, ConstantsAssumption DEF OnData, Call
<1>3. call' = OnMessage(d, m)
  BY DEF OnData
<1> HIDE DEF m
<1>4. d \in Call
  BY ZenonT(30), <1>1, <1>2 DEF Call
<1>5. Alike(call, d)
  BY <1>1 DEF Call, Alike, Same
<1> QED
  BY <1>2, <1>3, <1>4, <1>5, AlikeInv, OnMessageInv

(* DATA that cannot be decoded.                                              *)
LEMMA OnBadDataInv ==
    ASSUME CallInv(call), NEW st, OnBadData(st)
    PROVE  CallInv(call')
<1> DEFINE d == [call EXCEPT !.garbled = TRUE]
<1>1. call \in Call /\ call.place = "open"
  BY DEF CallInv, Base, OnBadData
<1>2. d \in Call /\ Alike(call, d) /\ d.place = "open"
  BY ZenonT(30), <1>1 DEF Call, Alike, Same
<1>3. call' = RespondError(d, st)
  BY DEF OnBadData
<1> HIDE DEF d
<1> QED
  BY <1>2, <1>3, AlikeInv, RespondErrorInv

(* END_STREAM.                                                               *)
LEMMA RecvEndInv ==
    ASSUME CallInv(call), RecvEnd
    PROVE  CallInv(call')
<1> DEFINE c == IF call.place = "open" THEN FinishRequest(call) ELSE call
<1>1. CallInv(c)
  BY FinishRequestInv
<1>2. call' = Settle([c EXCEPT !.peer = "ended"])
  BY DEF RecvEnd
<1> HIDE DEF c
<1> QED
  BY ZenonT(30), <1>1, <1>2, PeerInv, SettleInv

(* RST_STREAM.                                                               *)
LEMMA RecvResetInv ==
    ASSUME CallInv(call), RecvReset
    PROVE  CallInv(call')
<1> DEFINE d == [call EXCEPT !.peer = "reset"]
<1>1. CallInv(d) /\ d.peer # "idle"
  BY ZenonT(30), PeerInv
<1>2. call' = Close(d)
  BY DEF RecvReset
<1> HIDE DEF d
<1> QED
  BY <1>1, <1>2, CloseInv DEF CallInv

(* The connection is lost.                                                   *)
LEMMA ConnLostInv ==
    ASSUME CallInv(call), ConnLost
    PROVE  CallInv(call')
<1> DEFINE e == Cancelled(call)
           d == [e EXCEPT !.peer = "lost", !.place = "gone", !.item = 0]
<1>1. call \in Call /\ (call.cancel_fired => ~call.on_cancel)
  BY DEF CallInv, Base, ToldFirst
<1>2. /\ e \in Call /\ Same([call EXCEPT !.out_queue = <<>>], e)
      /\ e.cancel_fired = TRUE /\ ~e.on_cancel
  BY ZenonT(30), <1>1, CancelledType
<1>3. call' = d /\ call.peer # "idle"
  BY DEF ConnLost, Cancelled
<1> HIDE DEF e
<1>4. /\ e.wire = call.wire /\ e.out_queue = <<>> /\ e.form = call.form
      /\ e.dispatched = call.dispatched
      /\ e.response_headers_sent = call.response_headers_sent
      /\ e.finish_pending = call.finish_pending
  BY <1>1, <1>2 DEF Same, Call
<1>5. d \in Call
  <2>1. 0 \in 0..MaxWrites
    BY ConstantsAssumption
  <2> QED
    BY ZenonT(30), <1>2, <2>1 DEF Call
<1>6. /\ d.place = "gone" /\ d.item = 0 /\ d.peer = "lost"
      /\ d.wire = e.wire /\ d.out_queue = e.out_queue /\ d.form = e.form
      /\ d.dispatched = e.dispatched /\ d.response_headers_sent = e.response_headers_sent
      /\ d.finish_pending = e.finish_pending /\ d.cancel_fired = e.cancel_fired
      /\ d.on_cancel = e.on_cancel
  BY <1>2 DEF Call
<1> HIDE DEF d
<1> QED
  BY ZenonT(30), <1>1, <1>2, <1>3, <1>4, <1>5, <1>6, GoneInv DEF CallInv, Base

(* The peer grants window.                                                   *)
LEMMA UnblockInv ==
    ASSUME CallInv(call), Unblock
    PROVE  CallInv(call')
<1>1. /\ call.place = "open" /\ call.out_inflight # 0
      /\ call.wire # <<>> /\ ~Ended(call.wire)
  BY DEF CallInv, Base, ItemInv, Unblock
<1> QED
  BY <1>1, ConsumedInv DEF CallInv, Unblock

-----------------------------------------------------------------------------
(* Timer and posted tasks *)

(* OnDeadline, with what a cancel callback may do in it.                     *)
LEMMA OnDeadlineInv ==
    ASSUME CallInv(call), OnDeadline
    PROVE  CallInv(call')
<1> DEFINE e == FireCancel(call)
           d == [e EXCEPT !.timer = "fired"]
           r == [d EXCEPT !.responded = TRUE]
<1>1. call \in Call /\ call.place = "open" /\ (call.cancel_fired => ~call.on_cancel)
  BY DEF CallInv, Base, ToldFirst, OnDeadline
<1>2. e \in Call /\ Same(call, e) /\ e.cancel_fired = TRUE /\ ~e.on_cancel
  BY ZenonT(30), <1>1, FireCancelSame
<1>3. \/ call' = IF d.responded THEN d ELSE TrailStream(r, "DeadlineExceeded")
      \/ call' = IF call.form = "unary" THEN TrailersOnly(d, "Cancelled")
                                        ELSE FinishStream(d, "Cancelled")
  BY DEF OnDeadline
<1> HIDE DEF e
<1>4. d \in Call /\ Alike(e, d)
  <2>1. d \in Call
    BY ZenonT(30), <1>2 DEF Call
  <2> QED
    BY ZenonT(30), <1>2, <2>1 DEF Call, Alike, Same
<1> HIDE DEF d
<1>5. CallInv(d) /\ d.cancel_fired = TRUE /\ d.place = "open" /\ d.form = call.form
  <2>1. Base(e) /\ Pumped(e)
    BY <1>2, SameBase DEF CallInv
  <2> QED
    BY <1>1, <1>2, <1>4, <2>1, AlikeBase DEF CallInv, Alike, Same
<1>6. CASE call' = IF d.responded THEN d ELSE TrailStream(r, "DeadlineExceeded")
  <2>1. CASE d.responded
    BY <1>5, <1>6, <2>1
  <2>2. CASE ~d.responded
    <3>1. Marked(d, r)
      BY <1>4, MarkType
    <3> HIDE DEF r
    <3>2. Ready(r) /\ (r.response_headers_sent <=> r.wire # <<>>)
      BY <1>5, <2>2, <3>1, MarkedReady DEF CallInv
    <3>3. r.cancel_fired
      BY <1>5, <3>1 DEF Marked
    <3> QED
      BY <1>6, <2>2, <3>2, <3>3, TrailStreamInv DEF Status
  <2> QED
    BY <2>1, <2>2
<1>7. CASE call' = IF call.form = "unary" THEN TrailersOnly(d, "Cancelled")
                                          ELSE FinishStream(d, "Cancelled")
  <2>1. CASE call.form = "unary"
    BY <1>5, <1>7, <2>1, TrailersOnlyInv DEF Status, Streaming
  <2>2. CASE call.form # "unary"
    BY <1>5, <1>7, <2>2, FinishStreamInv DEF Status
  <2> QED
    BY <2>1, <2>2
<1> QED
  BY <1>3, <1>6, <1>7

(* A posted PumpOut.                                                         *)
LEMMA RunPumpOutInv ==
    ASSUME CallInv(call), NEW blocked \in BOOLEAN, RunPumpOut(blocked)
    PROVE  CallInv(call')
<1> DEFINE p == call.pumps - 1
           d == [call EXCEPT !.pumps = p]
<1>1. call \in Call
  BY DEF CallInv, Base
<1>2. p \in Nat
  BY <1>1 DEF RunPumpOut, Call
<1>3. call' = PumpOut(d, blocked)
  BY DEF RunPumpOut
<1> HIDE DEF p
<1>4. d \in Call
  BY ZenonT(30), <1>1, <1>2 DEF Call
<1>5. /\ d.place = call.place /\ d.form = call.form /\ d.peer = call.peer
      /\ d.dispatched = call.dispatched
      /\ d.responded = call.responded /\ d.response_headers_sent = call.response_headers_sent
      /\ d.finish_pending = call.finish_pending
      /\ d.out_queue = call.out_queue /\ d.out_inflight = call.out_inflight
      /\ d.item = call.item /\ d.wire = call.wire
      /\ d.cancel_fired = call.cancel_fired /\ d.on_cancel = call.on_cancel
  BY <1>1 DEF Call
<1> HIDE DEF d
<1>6. ToldFirst(d) /\ OpenInv(d) /\ ItemInv(d) /\ StartInv(d)
  BY <1>5 DEF CallInv, Base, ToldFirst, OpenInv, ItemInv, StartInv
<1>7. Base(d)
  BY <1>4, <1>5, <1>6 DEF CallInv, Base
<1> QED
  BY <1>3, <1>7, PumpOutInv

-----------------------------------------------------------------------------
(* The handler *)

(* The handler registers a cancel callback.                                  *)
LEMMA OnCancelInv ==
    ASSUME CallInv(call), OnCancel
    PROVE  CallInv(call')
<1> DEFINE d == [call EXCEPT !.on_cancel = TRUE]
<1>1. call \in Call /\ call.place = "open" /\ ~call.cancel_fired /\ call' = d
  BY DEF CallInv, Base, OnCancel, Handling
<1>2. d \in Call
  BY ZenonT(30), <1>1 DEF Call
<1>3. Same(call, d) /\ d.cancel_fired = call.cancel_fired
  BY <1>1 DEF Call, Same
<1> HIDE DEF d
<1>4. ~d.cancel_fired /\ d.place # "gone"
  BY <1>1, <1>3 DEF Same
<1> QED
  BY <1>1, <1>2, <1>3, <1>4, SameBase DEF CallInv

(* ServerCallCtx::Respond.                                                   *)
LEMMA RespondInv ==
    ASSUME CallInv(call), NEW st \in {"Ok", "Internal"}, NEW blocked \in BOOLEAN,
           Respond(st, blocked)
    PROVE  CallInv(call')
<1> DEFINE d == StopDeadline([call EXCEPT !.responded = TRUE])
           w == IF blocked THEN <<Headers>> ELSE <<Headers, Data(1)>>
           e == [d EXCEPT !.wire = w]
<1>1. /\ call \in Call /\ call.place = "open" /\ ~call.responded
      /\ call.form \notin Streaming
  BY DEF CallInv, Base, Respond, Handling, Streaming
<1>2. Marked(call, d)
  BY <1>1, MarkType
<1>3. d \in Call /\ d.wire \o w = w /\ Ready(d) /\ d.wire = <<>> /\ d.place = "open"
  <2>1. Ready(d) /\ d.wire = <<>>
    BY <1>1, <1>2, MarkedReady DEF CallInv
  <2>2. d \in Call /\ d.place = "open"
    BY <1>1, <1>2 DEF Marked
  <2>3. w \in Seq({Headers, Data(1)})
    <3>1. CASE blocked
      BY <3>1
    <3>2. CASE ~blocked
      BY <3>2
    <3> QED
      BY <3>1, <3>2
  <2> HIDE DEF d, w
  <2>4. <<>> \o w = w
    BY <2>3
  <2> QED
    BY <2>1, <2>2, <2>4
<1>4. call' = IF st = "Ok" THEN End(e, "trailers", "Ok") ELSE End(d, "trailersOnly", st)
  BY ZenonT(30), <1>3 DEF Respond, SendTrailers, SendTrailersOnly
<1>5. /\ w \in Seq(Frame) /\ w # <<>> /\ WellFormed(w) /\ ~Ended(w)
      /\ \A k \in DOMAIN w : ~Terminal(w[k])
  <2>1. Headers \in Frame /\ Headers.kind = "headers"
    BY DEF Frame, Headers
  <2>2. Data(1) \in Frame /\ Data(1).kind = "data"
    <3>1. 1 \in 1..(MaxWrites + 1)
      BY ConstantsAssumption
    <3> QED
      BY <3>1 DEF Frame, Data
  <2>3. CASE blocked
    <3>1. w = <<Headers>>
      BY <2>3
    <3> QED
      BY <2>1, <3>1 DEF WellFormed, Ended, Terminal
  <2>4. CASE ~blocked
    <3>1. w = <<Headers, Data(1)>>
      BY <2>4
    <3> QED
      BY <2>1, <2>2, <3>1 DEF WellFormed, Ended, Terminal
  <2> QED
    BY <2>3, <2>4
<1> HIDE DEF d, w
<1>6. e \in Call
  BY ZenonT(30), <1>3, <1>5 DEF Call
<1>7. /\ e.wire = w /\ e.place = d.place /\ e.form = d.form /\ e.peer = d.peer
      /\ e.dispatched = d.dispatched /\ e.responded = d.responded
      /\ e.response_headers_sent = d.response_headers_sent
      /\ e.finish_pending = d.finish_pending /\ e.out_queue = d.out_queue
      /\ e.cancel_fired = d.cancel_fired /\ e.on_cancel = d.on_cancel
  BY <1>3 DEF Call
<1> HIDE DEF e
<1>8. ToldFirst(e) /\ StartInv(e)
  BY <1>3, <1>5, <1>7 DEF Ready, ToldFirst, StartInv
<1>9. Ready(e)
  BY <1>3, <1>5, <1>6, <1>7, <1>8 DEF Ready
<1>10. CASE st = "Ok"
  BY <1>4, <1>5, <1>7, <1>9, <1>10, EndInv DEF Status
<1>11. CASE st = "Internal"
  BY <1>3, <1>4, <1>11, EndInv DEF Status
<1> QED
  BY <1>10, <1>11

(* StreamCallCtx::ReadMessage.                                               *)
LEMMA ReadMessageInv ==
    ASSUME CallInv(call), ReadMessage
    PROVE  CallInv(call')
<1> DEFINE u == [call EXCEPT !.unread = Tail(@)]
           f == [call EXCEPT !.read_finished = TRUE]
           r == [call EXCEPT !.read_cb = TRUE]
<1>1. call \in Call /\ call.unread \in Seq(1..MaxRequests) /\ call.request_half_closed \in BOOLEAN
  BY DEF CallInv, Base, Call
<1>2. f \in Call /\ Alike(call, f) /\ r \in Call /\ Alike(call, r)
  <2>1. f \in Call /\ Alike(call, f)
    BY ZenonT(30), <1>1 DEF Call, Alike, Same
  <2>2. r \in Call /\ Alike(call, r)
    BY ZenonT(30), <1>1 DEF Call, Alike, Same
  <2> QED
    BY <2>1, <2>2
<1>3. 0 \in 0..MaxRequests
  BY ConstantsAssumption
<1>4. CASE call' = Give(call, Event("Unavailable", call.request_half_closed, 0))
  <2>1. Event("Unavailable", call.request_half_closed, 0) \in ReadEvent
    BY <1>1, <1>3, EventType DEF Status
  <2> QED
    BY <1>1, <1>4, <2>1, GiveAlike, AlikeInv
<1>5. CASE call.unread # <<>> /\ call' = Give(u, Event("Ok", FALSE, Head(call.unread)))
  <2>1. Head(call.unread) \in 0..MaxRequests /\ Tail(call.unread) \in Seq(1..MaxRequests)
    <3>1. Head(call.unread) \in 1..MaxRequests
      BY ZenonT(30), <1>1, <1>5, HeadTailProperties
    <3>2. Tail(call.unread) \in Seq(1..MaxRequests)
      BY ZenonT(30), <1>1, <1>5, HeadTailProperties
    <3> QED
      BY <3>1, <3>2, ConstantsAssumption
  <2>2. Event("Ok", FALSE, Head(call.unread)) \in ReadEvent
    BY ZenonT(30), <2>1, EventType DEF Status
  <2>3. u \in Call
    BY ZenonT(30), <1>1, <2>1 DEF Call
  <2>4. Alike(call, u)
    BY <1>1 DEF Call, Alike, Same
  <2> HIDE DEF u
  <2>5. CallInv(u)
    BY <2>3, <2>4, AlikeInv
  <2> QED
    BY ZenonT(30), <1>5, <2>2, <2>3, <2>5, GiveAlike, AlikeInv
<1>6. CASE call' = Give(f, Event("Ok", TRUE, 0))
  <2>1. Event("Ok", TRUE, 0) \in ReadEvent
    BY ZenonT(30), <1>3, EventType DEF Status
  <2> HIDE DEF f
  <2>2. CallInv(f)
    BY <1>2, AlikeInv
  <2> QED
    BY ZenonT(30), <1>2, <1>6, <2>1, <2>2, GiveAlike, AlikeInv
<1>7. CASE call' = Give(call, Event("Internal", FALSE, 0))
  <2>1. Event("Internal", FALSE, 0) \in ReadEvent
    BY ZenonT(30), <1>3, EventType DEF Status
  <2> QED
    BY ZenonT(30), <1>1, <1>7, <2>1, GiveAlike, AlikeInv
<1>8. CASE call' = r
  BY <1>2, <1>8, AlikeInv
<1>9. \/ call' = Give(call, Event("Unavailable", call.request_half_closed, 0))
      \/ call.unread # <<>> /\ call' = Give(u, Event("Ok", FALSE, Head(call.unread)))
      \/ call' = Give(f, Event("Ok", TRUE, 0))
      \/ call' = Give(call, Event("Internal", FALSE, 0))
      \/ call' = r
  BY ZenonT(30) DEF ReadMessage
<1> QED
  BY ZenonT(30), <1>4, <1>5, <1>6, <1>7, <1>8, <1>9

(* StreamCallCtx::WriteMessage.                                              *)
LEMMA WriteMessageInv ==
    ASSUME CallInv(call), NEW blocked \in BOOLEAN, WriteMessage(blocked)
    PROVE  CallInv(call')
<1> DEFINE n == call.written + 1
           c == [call EXCEPT !.written = n]
           q == Append(call.out_queue, n)
           d == [c EXCEPT !.out_queue = q]
<1>1. /\ call \in Call /\ call.place = "open" /\ call.dispatched /\ call.form \in Streaming
      /\ call.written \in 0..MaxWrites /\ call.out_queue \in Seq(1..MaxWrites)
      /\ call.written < MaxWrites
  BY DEF CallInv, Base, WriteMessage, Handling, Call
<1>2. n \in 1..MaxWrites /\ n \in 0..MaxWrites
  BY <1>1, ConstantsAssumption
<1>3. q \in Seq(1..MaxWrites)
  BY <1>1, <1>2, AppendProperties
<1> HIDE DEF n
<1>4. c \in Call /\ Alike(call, c)
  <2>1. c \in Call
    BY ZenonT(30), <1>1, <1>2 DEF Call
  <2> QED
    BY ZenonT(30), <1>1, <2>1 DEF Call, Alike, Same
<1>5. CallInv(c)
  BY <1>4, AlikeInv
<1>6. c.out_queue = call.out_queue
  BY <1>4 DEF Alike, Same
<1>7. \/ call' = Answer(c, {n}, "Internal")
      \/ call' = Answer(c, {n}, "ResourceExhausted")
      \/ call' = PumpOut(d, blocked)
  BY <1>6 DEF WriteMessage, n
<1> HIDE DEF c, q
<1>8. CASE call' = Answer(c, {n}, "Internal")
  BY <1>4, <1>5, <1>8, AnswerAlike, AlikeInv DEF Status
<1>9. CASE call' = Answer(c, {n}, "ResourceExhausted")
  BY <1>4, <1>5, <1>9, AnswerAlike, AlikeInv DEF Status
<1>10. CASE call' = PumpOut(d, blocked)
  <2>1. d \in Call
    BY ZenonT(30), <1>3, <1>4 DEF Call
  <2>2. /\ d.place = c.place /\ d.form = c.form /\ d.peer = c.peer
        /\ d.dispatched = c.dispatched
        /\ d.responded = c.responded /\ d.response_headers_sent = c.response_headers_sent
        /\ d.finish_pending = c.finish_pending /\ d.out_inflight = c.out_inflight
        /\ d.item = c.item /\ d.wire = c.wire
        /\ d.cancel_fired = c.cancel_fired /\ d.on_cancel = c.on_cancel
    BY <1>4 DEF Call
  <2>3. c.place = "open" /\ c.dispatched /\ c.form \in Streaming
    BY <1>1, <1>4 DEF Alike, Same
  <2> HIDE DEF d
  <2>4. ToldFirst(d) /\ OpenInv(d) /\ ItemInv(d) /\ StartInv(d)
    BY <1>5, <2>2, <2>3 DEF CallInv, Base, ToldFirst, OpenInv, ItemInv, StartInv
  <2>5. Base(d)
    BY <1>5, <2>1, <2>2, <2>4 DEF CallInv, Base
  <2> QED
    BY <1>10, <2>5, PumpOutInv
<1> QED
  BY <1>7, <1>8, <1>9, <1>10

(* StreamCallCtx::WriteDone.                                                 *)
LEMMA WriteDoneInv ==
    ASSUME CallInv(call), WriteDone
    PROVE  CallInv(call')
<1> DEFINE d == [call EXCEPT !.write_closed = TRUE]
<1>1. call \in Call /\ call' = d
  BY DEF CallInv, Base, WriteDone
<1>2. d \in Call /\ d.write_closed = TRUE
  BY ZenonT(30), <1>1 DEF Call
<1>3. /\ d.place = call.place /\ d.form = call.form /\ d.peer = call.peer
      /\ d.dispatched = call.dispatched
      /\ d.responded = call.responded /\ d.response_headers_sent = call.response_headers_sent
      /\ d.finish_pending = call.finish_pending
      /\ d.out_queue = call.out_queue /\ d.out_inflight = call.out_inflight
      /\ d.item = call.item /\ d.wire = call.wire
      /\ d.cancel_fired = call.cancel_fired /\ d.on_cancel = call.on_cancel
  BY <1>1 DEF Call
<1> HIDE DEF d
<1>4. ToldFirst(d) /\ OpenInv(d) /\ ItemInv(d) /\ StartInv(d)
  BY <1>3 DEF CallInv, Base, ToldFirst, OpenInv, ItemInv, StartInv
<1> QED
  BY <1>1, <1>2, <1>3, <1>4 DEF CallInv, Base, Pumped, CanPump

(* StreamCallCtx::Finish.                                                    *)
LEMMA FinishInv ==
    ASSUME CallInv(call), NEW st \in {"Ok", "Internal"}, Finish(st)
    PROVE  CallInv(call')
<1>1. st \in Status /\ st # "DeadlineExceeded"
  BY DEF Status
<1> QED
  BY <1>1, FinishStreamInv DEF Finish

-----------------------------------------------------------------------------
(* The specification *)

(* A stream the peer has not opened.                                         *)
LEMMA InitInv ==
    ASSUME Init
    PROVE  CallInv(call)
<1>1. PICK f \in Forms : Init!(f)
  BY ZenonT(30) DEF Init
<1>2. call \in Call
  <2>1. /\ f \in AllForms /\ 0 \in 0..MaxRequests /\ 0 \in 0..MaxWrites
        /\ <<>> \in Seq(1..MaxRequests) /\ <<>> \in Seq(1..MaxWrites)
        /\ <<>> \in Seq(ReadEvent) /\ <<>> \in Seq(Frame)
        /\ [n \in 1..MaxWrites |-> <<>>] \in [1..MaxWrites -> Seq(Status)]
    BY ConstantsAssumption, EmptySeq
  <2> QED
    BY <1>1, <2>1 DEF Call
<1>3. /\ call.place = "none" /\ call.wire = <<>> /\ call.item = 0 /\ call.out_queue = <<>>
      /\ ~call.responded /\ ~call.response_headers_sent /\ call.finish_pending = "none"
      /\ ~call.cancel_fired
  BY <1>1
<1>4. DOMAIN call.wire = {}
  BY <1>3
<1>5. WellFormed(call.wire) /\ ToldFirst(call)
  BY <1>3, <1>4 DEF WellFormed, ToldFirst
<1>6. OpenInv(call) /\ ItemInv(call) /\ StartInv(call) /\ Pumped(call)
  BY <1>3 DEF OpenInv, ItemInv, StartInv, Pumped, CanPump
<1> QED
  BY <1>2, <1>3, <1>5, <1>6 DEF CallInv, Base

(* Every step keeps the invariant.                                           *)
LEMMA NextInv ==
    ASSUME CallInv(call), [Next]_vars
    PROVE  CallInv(call')
<1>1. CASE Handler
  BY <1>1, OnCancelInv, ReadMessageInv, WriteDoneInv, WriteMessageInv, FinishInv, RespondInv
     DEF Handler
<1>2. CASE Loop
  BY <1>2, OnDeadlineInv, RunPumpOutInv DEF Loop
<1>3. CASE Peer
  BY <1>3, HeadersInv, BadHeadersInv, OnDataInv, RecvEndInv, RecvResetInv, ConnLostInv,
     UnblockInv, OnBadDataInv DEF Peer
<1>4. CASE UNCHANGED vars
  BY <1>4 DEF vars
<1> QED
  BY <1>1, <1>2, <1>3, <1>4 DEF Next

(* Every reachable call satisfies CallInv.                                   *)
THEOREM CallInvariant == Spec => []CallInv(call)
<1>1. Init => CallInv(call)
  BY InitInv
<1>2. CallInv(call) /\ [Next]_vars => CallInv(call)'
  BY NextInv
<1> QED
  BY <1>1, <1>2, PTL DEF Spec

(* Whichever of Finish, Respond, the deadline, an error and the pump ends a  *)
(* call first, its response is headers, messages and one terminal status, or *)
(* the terminal status alone (TrailStream, MaybeSendDeferredFinish, PumpOut).*)
THEOREM ResponseIsWellFormed == Spec => []ResponseWellFormed
<1>1. CallInv(call) => ResponseWellFormed
  BY DEF CallInv, Base, WellFormed, ResponseWellFormed
<1> QED
  BY <1>1, CallInvariant, PTL

(* A queued message the call could send has a posted PumpOut that will send  *)
(* it, whatever was pumped, blocked or answered before (WriteMessage, the    *)
(* on_consumed callback).                                                    *)
THEOREM PumpIsNeverLost == Spec => []NoLostPump
<1>1. CallInv(call) => NoLostPump
  BY DEF CallInv, Pumped, NoLostPump
<1> QED
  BY <1>1, CallInvariant, PTL

(* DEADLINE_EXCEEDED goes out only after FireCancel, and no call leaves      *)
(* Conn::calls with a registered cancel callback that has not run            *)
(* (OnDeadline, OnStreamClose, a lost connection).                           *)
THEOREM CancelIsTold == Spec => []CancelTold
<1>1. CallInv(call) => CancelTold
  BY DEF CallInv, Base, ToldFirst, CancelTold
<1> QED
  BY <1>1, CallInvariant, PTL

-----------------------------------------------------------------------------
(* What was written.  A message is sent, held (queued or in flight) or       *)
(* answered, and the held ones are younger than the sent ones.               *)

\* The data frames carry rising messages.
Rising(w) ==
    \A j, k \in DOMAIN w :
        j < k /\ w[j].kind = "data" /\ w[k].kind = "data" => w[j].msg < w[k].msg

\* S sent, H held, n written; A what their callbacks were given.
Kept(S, H, k, A) == k \in S \/ k \in H \/ A[k] = <<"ResourceExhausted">>
Ledger(S, H, n, A) ==
    /\ \A s \in S : s \in 1..n /\ \A h \in H : s < h
    /\ \A h \in H : h \in 1..n
    /\ \A k \in 1..n : /\ Len(A[k]) <= 1
                       /\ A[k] = <<"Ok">> <=> k \in S
                       /\ A[k] = <<>> <=> k \in H
    /\ \A k \in 1..n : \A m \in S \cup H : k < m => Kept(S, H, k, A)
    /\ \A k \in 1..MaxWrites : k > n => A[k] = <<>>

\* B is A with answer st for the writes of ns.
Posts(A, B, ns, st) ==
    \A k \in 1..MaxWrites :
        A[k] \in Seq(Status) /\ B[k] = IF k \in ns THEN Append(A[k], st) ELSE A[k]

\* The queue, and the message in flight before it.
Held(c) == Elems(c.out_queue) \cup ({c.out_inflight} \ {0})
Lined(q, i) ==
    /\ \A j, k \in DOMAIN q : j < k => q[j] < q[k]
    /\ i # 0 => \A k \in DOMAIN q : i < q[k]

Writable(c) == c.place # "gone" /\ ~c.responded /\ ~c.write_closed

\* While the handler may write, no message was given up but a refused one.
Book(c) ==
    /\ Rising(c.wire)
    /\ Lined(c.out_queue, c.out_inflight)
    /\ c.form \in Streaming =>
          /\ Ledger(Sent(c), Held(c), c.written, c.answers)
          /\ Writable(c) => \A k \in 1..c.written : Kept(Sent(c), Held(c), k, c.answers)
    /\ c.form \notin Streaming => c.written = 0 /\ c.out_queue = <<>> /\ c.out_inflight = 0

(* The first answer of a write.                                              *)
LEMMA FirstAnswer ==
    ASSUME NEW st \in Status
    PROVE  /\ Append(<<>>, st) = <<st>> /\ <<st>> # <<>> /\ Len(<<st>>) = 1 /\ Len(<<>>) = 0
           /\ \A t \in Status : <<st>> = <<t>> <=> st = t
OBVIOUS

(* The held messages, or some of them, are given up (CancelStreamIo).        *)
LEMMA LedgerDrop ==
    ASSUME NEW S, NEW H, NEW n \in 0..MaxWrites, NEW A, NEW B, NEW G, Ledger(S, H, n, A),
           G \subseteq H, \A g \in G, h \in H \ G : h < g,
           Posts(A, B, G, "Unavailable")
    PROVE  Ledger(S, H \ G, n, B)
<1> USE DEF Posts
<1>1. \A k \in 1..n : k \in 1..MaxWrites
  BY ConstantsAssumption
<1>2. \A k \in 1..n : k \in G => B[k] = Append(<<>>, "Unavailable")
  BY Zenon, <1>1 DEF Ledger
<1>3. /\ Append(<<>>, "Unavailable") # <<"Ok">> /\ Append(<<>>, "Unavailable") # <<>>
      /\ Len(Append(<<>>, "Unavailable")) = 1
  BY FirstAnswer DEF Status
<1>4. \A k \in 1..n : k \notin G => B[k] = A[k]
  BY <1>1
<1>5. \A g \in G : g \in 1..n /\ g \notin S
  BY DEF Ledger
<1>6. ASSUME NEW k \in 1..n
      PROVE  Len(B[k]) <= 1 /\ (B[k] = <<"Ok">> <=> k \in S) /\ (B[k] = <<>> <=> k \in H \ G)
  <2>1. CASE k \in G
    <3>1. B[k] = Append(<<>>, "Unavailable") /\ k \notin S /\ k \notin H \ G
      BY <1>2, <1>5, <2>1
    <3>2. Len(B[k]) = 1 /\ B[k] # <<"Ok">> /\ B[k] # <<>>
      BY Zenon, <1>3, <3>1
    <3> QED
      BY <3>1, <3>2
  <2>2. CASE k \notin G
    BY <1>4, <2>2 DEF Ledger
  <2> QED
    BY <2>1, <2>2
<1>7. ASSUME NEW k \in 1..n, NEW m \in S \cup (H \ G), k < m
      PROVE  Kept(S, H \ G, k, B)
  <2>1. m \in 1..n /\ k \notin G
    BY <1>5, <1>7 DEF Ledger
  <2>2. Kept(S, H, k, A)
    BY <1>7 DEF Ledger
  <2> QED
    BY <1>4, <2>1, <2>2 DEF Kept
<1>8. \A k \in 1..MaxWrites : k > n => B[k] = <<>>
  BY <1>5 DEF Ledger
<1> QED
  BY Zenon, <1>6, <1>7, <1>8 DEF Ledger

(* The oldest held message is sent (Consumed).                               *)
LEMMA LedgerSend ==
    ASSUME NEW S, NEW H, NEW n \in 0..MaxWrites, NEW A, NEW B, NEW i \in H, Ledger(S, H, n, A),
           \A h \in H : h # i => i < h,
           Posts(A, B, {i}, "Ok")
    PROVE  Ledger(S \cup {i}, H \ {i}, n, B)
<1> USE DEF Posts
<1>1. i \in 1..n /\ \A k \in 1..n : k \in 1..MaxWrites
  BY ConstantsAssumption DEF Ledger
<1>2. B[i] = <<"Ok">>
  <2>1. A[i] = <<>> /\ B[i] = Append(A[i], "Ok")
    BY Zenon, <1>1 DEF Ledger
  <2> QED
    BY <2>1, FirstAnswer DEF Status
<1>3. <<"Ok">> # <<>> /\ Len(<<"Ok">>) = 1
  BY FirstAnswer DEF Status
<1>4. \A k \in 1..n : k # i => B[k] = A[k]
  BY <1>1
<1>5. ASSUME NEW k \in 1..n
      PROVE  /\ Len(B[k]) <= 1
             /\ B[k] = <<"Ok">> <=> k \in S \cup {i}
             /\ B[k] = <<>> <=> k \in H \ {i}
  <2>1. CASE k = i
    <3>1. Len(B[k]) = 1 /\ B[k] = <<"Ok">> /\ B[k] # <<>>
      BY Zenon, <1>2, <1>3, <2>1
    <3> QED
      BY <2>1, <3>1
  <2>2. CASE k # i
    BY <1>4, <2>2 DEF Ledger
  <2> QED
    BY <2>1, <2>2
<1>6. ASSUME NEW k \in 1..n, NEW m \in (S \cup {i}) \cup (H \ {i}), k < m
      PROVE  Kept(S \cup {i}, H \ {i}, k, B)
  <2>1. Kept(S, H, k, A)
    BY <1>6 DEF Ledger
  <2> QED
    BY <1>4, <2>1 DEF Kept
<1>7. \A k \in 1..MaxWrites : k > n => B[k] = <<>>
  BY <1>1 DEF Ledger
<1>8. \A s \in S \cup {i} : s \in 1..n /\ \A h \in H \ {i} : s < h
  BY <1>1 DEF Ledger
<1> QED
  BY Zenon, <1>5, <1>6, <1>7, <1>8 DEF Ledger

(* A message is written and held; every earlier one is accounted for.        *)
LEMMA LedgerHold ==
    ASSUME NEW S, NEW H, NEW n \in 0..MaxWrites, NEW A, Ledger(S, H, n, A), n < MaxWrites,
           \A k \in 1..n : Kept(S, H, k, A)
    PROVE  /\ Ledger(S, H \cup {n + 1}, n + 1, A)
           /\ \A k \in 1..(n + 1) : Kept(S, H \cup {n + 1}, k, A)
<1>1. n + 1 \in 1..MaxWrites /\ n \in Nat
  BY ConstantsAssumption
<1>2. \A k \in 1..(n + 1) : k \in 1..n \/ k = n + 1
  BY <1>1
<1>3. A[n + 1] = <<>> /\ Len(<<>>) = 0 /\ <<"Ok">> # <<>>
  BY <1>1, FirstAnswer DEF Ledger, Status
<1>4. \A k \in 1..(n + 1) : Kept(S, H \cup {n + 1}, k, A)
  BY <1>2 DEF Kept
<1>5. \A s \in S : s \in 1..(n + 1) /\ \A h \in H \cup {n + 1} : s < h
  BY <1>1 DEF Ledger
<1>6. \A h \in H \cup {n + 1} : h \in 1..(n + 1)
  BY <1>1 DEF Ledger
<1>7. n + 1 \notin S
  BY <1>1 DEF Ledger
<1>8. ASSUME NEW k \in 1..(n + 1)
      PROVE  /\ Len(A[k]) <= 1
             /\ A[k] = <<"Ok">> <=> k \in S
             /\ A[k] = <<>> <=> k \in H \cup {n + 1}
  <2>1. CASE k = n + 1
    BY <1>3, <1>7, <2>1
  <2>2. CASE k \in 1..n
    BY <1>1, <2>2 DEF Ledger
  <2> QED
    BY <1>2, <2>1, <2>2
<1>9. \A k \in 1..MaxWrites : k > n + 1 => A[k] = <<>>
  BY <1>1 DEF Ledger
<1> QED
  BY Zenon, <1>4, <1>5, <1>6, <1>8, <1>9 DEF Ledger

(* A message is written and refused with status st.                          *)
LEMMA LedgerRefuse ==
    ASSUME NEW S, NEW H, NEW n \in 0..MaxWrites, NEW A, NEW B, Ledger(S, H, n, A), n < MaxWrites,
           NEW st \in Status, st # "Ok",
           Posts(A, B, {n + 1}, st)
    PROVE  /\ Ledger(S, H, n + 1, B)
           /\ \A k \in 1..n : Kept(S, H, k, A) => Kept(S, H, k, B)
           /\ st = "ResourceExhausted" => Kept(S, H, n + 1, B)
<1> USE DEF Posts
<1>1. n + 1 \in 1..MaxWrites /\ n \in Nat
  BY ConstantsAssumption
<1>2. \A k \in 1..(n + 1) : k \in 1..n \/ k = n + 1
  BY <1>1
<1>3. B[n + 1] = <<st>>
  <2>1. A[n + 1] = <<>>
    BY <1>1 DEF Ledger
  <2>2. B[n + 1] = Append(A[n + 1], st)
    BY Zenon, <1>1
  <2> QED
    BY Zenon, <2>1, <2>2, FirstAnswer
<1>4. <<st>> # <<"Ok">> /\ <<st>> # <<>> /\ Len(<<st>>) = 1
  BY FirstAnswer DEF Status
<1>5. ASSUME NEW k \in 1..n
      PROVE  B[k] = A[k]
  <2>1. k \in 1..MaxWrites /\ k # n + 1
    BY <1>1, ConstantsAssumption
  <2> QED
    BY Zenon, <2>1
<1>6. n + 1 \notin S /\ n + 1 \notin H
  BY <1>1 DEF Ledger
<1>7. ASSUME NEW k \in 1..(n + 1)
      PROVE  Len(B[k]) <= 1 /\ (B[k] = <<"Ok">> <=> k \in S) /\ (B[k] = <<>> <=> k \in H)
  <2>1. CASE k = n + 1
    <3>1. Len(B[k]) = 1 /\ B[k] # <<"Ok">> /\ B[k] # <<>>
      BY Zenon, <1>3, <1>4, <2>1
    <3> QED
      BY <1>6, <2>1, <3>1
  <2>2. CASE k \in 1..n
    BY <1>5, <2>2 DEF Ledger
  <2> QED
    BY <1>2, <2>1, <2>2
<1>8. \A s \in S : s \in 1..(n + 1) /\ \A h \in H : s < h
  BY <1>1 DEF Ledger
<1>9. \A h \in H : h \in 1..(n + 1)
  BY <1>1 DEF Ledger
<1>10. ASSUME NEW k \in 1..(n + 1), NEW m \in S \cup H, k < m
       PROVE  Kept(S, H, k, B)
  <2>1. m \in 1..n /\ k \in 1..n
    BY <1>1, <1>2, <1>10 DEF Ledger
  <2>2. Kept(S, H, k, A)
    BY <1>10, <2>1 DEF Ledger
  <2> QED
    BY <1>5, <2>1, <2>2 DEF Kept
<1>11. \A k \in 1..MaxWrites : k > n + 1 => B[k] = <<>>
  BY <1>1 DEF Ledger
<1>12. Ledger(S, H, n + 1, B)
  BY <1>7, <1>8, <1>9, <1>10, <1>11 DEF Ledger
<1> QED
  BY <1>3, <1>5, <1>12 DEF Kept

-----------------------------------------------------------------------------
(* What was read.                                                            *)

ClientStreams == {"clientStreaming", "bidi"}

\* A deadline ended the call and left the reader on.
Late(c) == c.responded /\ c.timer = "fired"

\* What was read, then what is unread: in order, and none missing.
Order(r, u) ==
    /\ \A j, k \in DOMAIN r : j < k /\ r[k].msg # 0 => r[j].msg < r[k].msg
    /\ \A j \in DOMAIN r, k \in DOMAIN u : r[j].msg < u[k]
    /\ \A j, k \in DOMAIN u : j < k => u[j] < u[k]
NoGap(T) == \A m \in T : 1..m \subseteq T
Full(c) == 1..c.received \subseteq Taken(c)

Reading(c) ==
    /\ Order(c.reads, c.unread)
    /\ \A m \in Taken(c) : m <= c.received
    /\ Late(c) \/ NoGap(Taken(c))
    /\ c.peer = "idle" => c.received = 0 /\ ~c.read_cb
    /\ c.read_cb => c.unread = <<>> /\ c.dispatched /\ c.form \in Streaming
    /\ c.form \in ClientStreams /\ c.place = "open" => c.dispatched
    /\ c.form = "serverStreaming" /\ ~c.dispatched => c.received = 0
    /\ c.form \notin Streaming => Full(c)
    /\ c.form \in ClientStreams /\ c.responded /\ ~c.read_finished
          => c.timer = "fired" \/ c.garbled

\* A stream that still takes messages has kept all of them.
Whole(c) ==
    c.form \in ClientStreams /\ ~c.read_finished /\ ~c.garbled /\ ~Late(c) => Full(c)

Tracked(c) == c \in Call /\ Book(c) /\ Reading(c) /\ Whole(c)

-----------------------------------------------------------------------------
(* A call that nears its end: nothing new is written or read, the handler    *)
(* may be told, and a terminal status may go out.                            *)

\* What was queued is answered.
Told(c) == [n \in DOMAIN c.answers |->
              IF n \in Elems(c.out_queue) THEN Append(c.answers[n], "Unavailable")
                                          ELSE c.answers[n]]

Extends(r, s) == s = r \/ \E e \in ReadEvent : e.msg = 0 /\ s = Append(r, e)

Ends(c, d) ==
    /\ d \in Call
    /\ d.form = c.form /\ d.garbled = c.garbled /\ d.dispatched = c.dispatched
    /\ d.received = c.received /\ d.unread = c.unread /\ Extends(c.reads, d.reads)
    /\ d.written = c.written /\ d.out_inflight = c.out_inflight
    /\ d.wire = c.wire \/ \E f \in Frame : Terminal(f) /\ d.wire = Append(c.wire, f)
    /\ \/ d.out_queue = c.out_queue /\ d.answers = c.answers
       \/ d.out_queue = <<>> /\ d.answers = Told(c) /\ d.place = "gone"
    /\ c.read_finished => d.read_finished
    /\ c.responded => d.responded
    /\ c.write_closed => d.write_closed
    /\ d.read_cb => c.read_cb
    /\ d.place = "open" => c.place = "open"
    /\ c.place = "gone" => d.place = "gone"
    /\ d.peer = "idle" => c.peer = "idle"
    /\ d.timer = "fired" <=> c.timer = "fired"

(* Headers and a terminal status carry no message.                           *)
LEMMA SentNoData ==
    ASSUME NEW c \in Call, NEW d \in Call, NEW f \in Frame, f.kind # "data",
           d.wire = Append(c.wire, f)
    PROVE  Sent(d) = Sent(c) /\ (Rising(c.wire) => Rising(d.wire))
<1> DEFINE w == c.wire
           v == d.wire
           X == {j \in DOMAIN w : w[j].kind = "data"}
           Y == {j \in DOMAIN v : v[j].kind = "data"}
<1>1. w \in Seq(Frame)
  BY DEF Call
<1>2. /\ DOMAIN w = 1..Len(w) /\ DOMAIN v = 1..(Len(w) + 1) /\ Len(w) \in Nat
      /\ \A k \in 1..Len(w) : v[k] = w[k]
      /\ v[Len(w) + 1] = f
  BY <1>1, AppendFrame
<1> HIDE DEF w, v
<1>4. \A k \in DOMAIN v : k \in DOMAIN w \/ k = Len(w) + 1
  BY <1>2
<1>5. X = Y /\ \A k \in X : v[k] = w[k]
  BY <1>2, <1>4
<1>6. {w[k].msg : k \in X} = {v[k].msg : k \in Y}
  <2> HIDE DEF X, Y
  <2> QED
    BY <1>5
<1>7. Sent(d) = Sent(c)
  BY <1>6 DEF Sent, w, v
<1>8. Rising(w) => Rising(v)
  BY <1>2, <1>4 DEF Rising
<1> QED
  BY <1>7, <1>8 DEF w, v

(* An event without a message changes nothing of what was read.              *)
LEMMA TakenExtends ==
    ASSUME NEW c \in Call, NEW d \in Call, d.unread = c.unread, Extends(c.reads, d.reads)
    PROVE  Taken(d) = Taken(c) /\ (Order(c.reads, c.unread) => Order(d.reads, d.unread))
<1> DEFINE r == c.reads
           s == d.reads
           u == c.unread
           X == {j \in DOMAIN r : r[j].msg # 0}
           Y == {j \in DOMAIN s : s[j].msg # 0}
<1>1. r \in Seq(ReadEvent) /\ u \in Seq(1..MaxRequests)
  BY DEF Call
<1>2. CASE s = r
  BY <1>2 DEF Taken
<1>3. ASSUME NEW e \in ReadEvent, e.msg = 0, s = Append(r, e)
      PROVE  Taken(d) = Taken(c) /\ (Order(r, u) => Order(s, u))
  <2>1. /\ DOMAIN r = 1..Len(r) /\ DOMAIN s = 1..(Len(r) + 1) /\ Len(r) \in Nat
        /\ \A k \in 1..Len(r) : s[k] = r[k]
        /\ s[Len(r) + 1] = e
    BY <1>1, <1>3, AppendProperties
  <2>2. \A k \in DOMAIN u : u[k] \in 1..MaxRequests
    BY Zenon, <1>1, LenProperties
  <2>3. \A k \in DOMAIN u : 0 < u[k]
    BY <2>2
  <2> HIDE DEF r, s, u
  <2>4. \A k \in DOMAIN s : k \in DOMAIN r \/ k = Len(r) + 1
    BY <2>1
  <2>5. X = Y /\ \A k \in X : s[k] = r[k]
    BY <1>3, <2>1, <2>4
  <2>6. {r[k].msg : k \in X} = {s[k].msg : k \in Y}
    <3> HIDE DEF X, Y
    <3> QED
      BY <2>5
  <2>7. Taken(d) = Taken(c)
    BY Zenon, <2>6 DEF Taken, r, s
  <2>8. Order(r, u) => Order(s, u)
    BY <1>3, <2>1, <2>3, <2>4 DEF Order
  <2> QED
    BY <2>7, <2>8
<1> QED
  BY <1>2, <1>3 DEF Extends

(* A sequence of writes holds the elements it holds.                         *)
LEMMA ElemsType ==
    ASSUME NEW V, NEW q \in Seq(V)
    PROVE  /\ \A x \in Elems(q) : x \in V /\ \E k \in DOMAIN q : x = q[k]
           /\ \A k \in DOMAIN q : q[k] \in Elems(q) /\ q[k] \in V
           /\ q = <<>> => Elems(q) = {}
  BY LenProperties, EmptySeq DEF Elems

(* Head and Tail of a sequence hold what it held.                            *)
LEMMA SeqSplit ==
    ASSUME NEW V, NEW u \in Seq(V), u # <<>>
    PROVE  /\ Head(u) \in V /\ Tail(u) \in Seq(V)
           /\ Elems(u) = Elems(Tail(u)) \cup {Head(u)} /\ 1 \in DOMAIN u /\ Head(u) = u[1]
           /\ \A k \in DOMAIN Tail(u) : k \in Nat /\ k + 1 \in DOMAIN u /\ Tail(u)[k] = u[k + 1]
                                        /\ 1 < k + 1
<1> DEFINE h == Head(u)
           t == Tail(u)
<1>1. /\ h \in V /\ h = u[1] /\ t \in Seq(V)
      /\ Len(u) \in Nat \ {0} /\ Len(t) = Len(u) - 1
      /\ \A k \in 1..(Len(u) - 1) : t[k] = u[k + 1]
  BY HeadTailProperties
<1>2. DOMAIN u = 1..Len(u) /\ DOMAIN t = 1..(Len(u) - 1)
  BY <1>1, LenProperties
<1> HIDE DEF h, t
<1>3. \A k \in DOMAIN t : k \in Nat /\ k + 1 \in DOMAIN u /\ t[k] = u[k + 1] /\ 1 < k + 1
  BY <1>1, <1>2
<1>4. \A k \in DOMAIN u : k = 1 \/ (k - 1 \in DOMAIN t /\ t[k - 1] = u[k])
  BY <1>1, <1>2
<1>5. 1 \in DOMAIN u
  BY <1>1, <1>2
<1>6. Elems(u) = Elems(t) \cup {h}
  <2>1. \A x \in Elems(u) : x \in Elems(t) \cup {h}
    BY <1>1, <1>4 DEF Elems
  <2>2. \A x \in Elems(t) : x \in Elems(u)
    BY <1>3 DEF Elems
  <2>3. h \in Elems(u)
    BY <1>1, <1>5 DEF Elems
  <2> QED
    BY <2>1, <2>2, <2>3
<1> QED
  BY <1>1, <1>3, <1>5, <1>6 DEF h, t

(* The types of the fields that hold messages.                               *)
LEMMA CallFields ==
    ASSUME NEW c \in Call
    PROVE  /\ c.wire \in Seq(Frame) /\ c.reads \in Seq(ReadEvent)
           /\ c.unread \in Seq(1..MaxRequests) /\ c.out_queue \in Seq(1..MaxWrites)
           /\ c.out_inflight \in 0..MaxWrites /\ c.written \in 0..MaxWrites
           /\ c.received \in 0..MaxRequests
           /\ c.answers \in [1..MaxWrites -> Seq(Status)]
  BY DEF Call

(* A call that ends gives up what it held, and nothing else.                 *)
LEMMA EndsBook ==
    ASSUME NEW c \in Call, Book(c), NEW d, Ends(c, d)
    PROVE  Book(d)
<1> DEFINE S == Sent(c)
           H == Held(c)
           G == Elems(c.out_queue)
<1>1. d \in Call /\ d.form = c.form /\ d.written = c.written /\ d.out_inflight = c.out_inflight
  BY DEF Ends
<1>2. Sent(d) = S /\ Rising(d.wire)
  <2>1. CASE d.wire = c.wire
    BY <2>1 DEF Sent, Book
  <2>2. CASE \E f \in Frame : Terminal(f) /\ d.wire = Append(c.wire, f)
    BY Zenon, <1>1, <2>2, SentNoData DEF Book, Terminal
  <2> QED
    BY <2>1, <2>2 DEF Ends
<1>3. CASE d.out_queue = c.out_queue /\ d.answers = c.answers
  <2>1. Held(d) = H
    BY <1>1, <1>3 DEF Held
  <2>2. Writable(d) => Writable(c)
    BY DEF Ends, Writable
  <2> QED
    BY <1>1, <1>2, <1>3, <2>1, <2>2 DEF Book
<1>4. CASE d.out_queue = <<>> /\ d.answers = Told(c) /\ d.place = "gone"
  <2>1. /\ c.out_queue \in Seq(1..MaxWrites) /\ c.out_inflight \in 0..MaxWrites
        /\ c.written \in 0..MaxWrites /\ c.answers \in [1..MaxWrites -> Seq(Status)]
    BY CallFields
  <2>2. \A g \in G : g \in 1..MaxWrites /\ \E k \in DOMAIN c.out_queue : g = c.out_queue[k]
    BY Zenon, <2>1, ElemsType
  <2>3. \A g \in G : c.out_inflight # 0 => c.out_inflight < g
    BY <2>2 DEF Book, Lined
  <2>4. Elems(d.out_queue) = {}
    BY Zenon, <1>4, EmptySeq, ElemsType
  <2>5. c.out_inflight # 0 => c.out_inflight \notin G
    BY <2>1, <2>3
  <2>6. Held(d) = H \ G
    BY <1>1, <2>4, <2>5 DEF Held
  <2>7. G \subseteq H /\ \A g \in G, h \in H \ G : h < g
    BY <2>3 DEF Held
  <2>8. Posts(c.answers, d.answers, G, "Unavailable")
    BY Zenon, <1>4, <2>1 DEF Told, Posts
  <2>9. Lined(d.out_queue, d.out_inflight)
    BY <1>4 DEF Lined
  <2>10. ~Writable(d)
    BY <1>4 DEF Writable
  <2>11. CASE c.form \notin Streaming
    BY <1>1, <1>2, <1>4, <2>9, <2>11 DEF Book
  <2>12. CASE c.form \in Streaming
    <3>1. Ledger(S, H, c.written, c.answers)
      BY <2>12 DEF Book
    <3> HIDE DEF S, H, G
    <3>2. Ledger(S, H \ G, c.written, d.answers)
      BY ZenonT(30), <2>1, <2>7, <2>8, <3>1, LedgerDrop
    <3> QED
      BY <1>1, <1>2, <2>6, <2>9, <2>10, <2>12, <3>2 DEF Book
  <2> QED
    BY <2>11, <2>12
<1> QED
  BY <1>3, <1>4 DEF Ends

(* Reading survives when an answered call has closed its reader, or is late. *)
LEMMA EndsReading ==
    ASSUME NEW c \in Call, Reading(c), NEW d, Ends(c, d),
           d.form \in ClientStreams /\ d.responded /\ ~d.read_finished
               => d.timer = "fired" \/ d.garbled
    PROVE  Reading(d) /\ (Whole(c) => Whole(d))
<1>1. Taken(d) = Taken(c) /\ Order(d.reads, d.unread)
  BY TakenExtends DEF Reading, Ends
<1>2. Late(c) => Late(d)
  BY DEF Ends, Late
<1>3. Full(c) => Full(d)
  BY <1>1 DEF Ends, Full
<1>4. \A m \in Taken(d) : m <= d.received
  BY <1>1 DEF Ends, Reading
<1>5. Late(d) \/ NoGap(Taken(d))
  BY <1>1, <1>2 DEF Reading
<1>6. /\ d.form = c.form /\ d.garbled = c.garbled /\ d.dispatched = c.dispatched
      /\ d.received = c.received /\ d.unread = c.unread
      /\ c.read_finished => d.read_finished
      /\ d.read_cb => c.read_cb
      /\ d.place = "open" => c.place = "open"
      /\ d.peer = "idle" => c.peer = "idle"
  BY DEF Ends
<1>7. Reading(d)
  BY <1>1, <1>3, <1>4, <1>5, <1>6 DEF Reading
<1>8. Whole(c) => Whole(d)
  BY <1>2, <1>3, <1>6 DEF Whole
<1> QED
  BY <1>7, <1>8

(* Steps that neither answer a call nor change what it holds.                *)
LEMMA EndsTracked ==
    ASSUME NEW c, Tracked(c), NEW d, Ends(c, d), d.responded = c.responded
    PROVE  Tracked(d)
<1>1. d.form \in ClientStreams /\ d.responded /\ ~d.read_finished
         => d.timer = "fired" \/ d.garbled
  BY DEF Ends, Tracked, Reading
<1> QED
  BY <1>1, EndsBook, EndsReading DEF Tracked, Ends

\* Everything Ends looks at, but for the timer, the reader and the queue.
Fixed(c, d) ==
    /\ d.form = c.form /\ d.garbled = c.garbled /\ d.dispatched = c.dispatched
    /\ d.received = c.received /\ d.unread = c.unread
    /\ d.written = c.written /\ d.out_inflight = c.out_inflight /\ d.wire = c.wire
    /\ d.responded = c.responded /\ d.write_closed = c.write_closed

(* Stopping the timer.                                                       *)
LEMMA StopDeadlineEnds ==
    ASSUME NEW c \in Call
    PROVE  /\ Ends(c, StopDeadline(c)) /\ Fixed(c, StopDeadline(c))
           /\ StopDeadline(c).read_finished = c.read_finished
<1> DEFINE d == [c EXCEPT !.timer = "off"]
<1>1. Ends(c, c) /\ Fixed(c, c)
  BY DEF Ends, Fixed, Extends
<1>2. CASE c.timer # "armed"
  BY <1>1, <1>2 DEF StopDeadline
<1>3. CASE c.timer = "armed"
  <2>1. d \in Call /\ StopDeadline(c) = d
    BY <1>3, StopDeadlineAlike DEF StopDeadline
  <2>2. /\ Fixed(c, d) /\ d.reads = c.reads /\ d.read_cb = c.read_cb
        /\ d.read_finished = c.read_finished /\ d.out_queue = c.out_queue
        /\ d.answers = c.answers /\ d.place = c.place /\ d.peer = c.peer /\ d.timer = "off"
    BY DEF Call, Fixed
  <2> HIDE DEF d
  <2> QED
    BY <1>3, <2>1, <2>2 DEF Ends, Fixed, Extends
<1> QED
  BY <1>2, <1>3

\* What Cancelled does besides.
Dropped(c, d) ==
    /\ d \in Call /\ Fixed(c, d) /\ Extends(c.reads, d.reads)
    /\ d.out_queue = <<>> /\ d.answers = Told(c)
    /\ d.read_finished /\ ~d.read_cb
    /\ d.place = c.place /\ d.peer = c.peer /\ d.timer = c.timer

(* CancelStreamIo answers the queued writers.                                *)
LEMMA CancelledDrops ==
    ASSUME NEW c \in Call
    PROVE  Dropped(c, Cancelled(c))
<1> DEFINE e == Event("Unavailable", FALSE, 0)
           r == IF c.read_cb THEN Append(c.reads, e) ELSE c.reads
           b == CancelStreamIo(c)
           f == [b EXCEPT !.cancel_fired = TRUE, !.on_cancel = FALSE]
<1>1. e \in ReadEvent /\ e.msg = 0
  <2>1. 0 \in 0..MaxRequests
    BY ConstantsAssumption
  <2>2. e \in ReadEvent
    BY ZenonT(30), <2>1, EventType DEF Status
  <2> QED
    BY <2>2 DEF Event
<1>2. Extends(c.reads, r)
  BY Zenon, <1>1 DEF Extends
<1>3. b = [c EXCEPT !.answers = Told(c), !.read_finished = TRUE, !.read_cb = FALSE,
                    !.out_queue = <<>>, !.reads = r]
  BY DEF CancelStreamIo, Answer, Told, Call
<1>4. b \in Call
  BY Zenon, CancelStreamIoType
<1> HIDE DEF r
<1>5. Dropped(c, b)
  <2>1. /\ b.form = c.form /\ b.garbled = c.garbled /\ b.dispatched = c.dispatched
        /\ b.received = c.received /\ b.unread = c.unread
        /\ b.written = c.written /\ b.out_inflight = c.out_inflight /\ b.wire = c.wire
        /\ b.responded = c.responded /\ b.write_closed = c.write_closed
    BY <1>3 DEF Call
  <2>2. b.reads = r /\ b.out_queue = <<>> /\ b.answers = Told(c)
    BY <1>3 DEF Call
  <2>3. /\ b.read_finished /\ ~b.read_cb
        /\ b.place = c.place /\ b.peer = c.peer /\ b.timer = c.timer
    BY <1>3 DEF Call
  <2> HIDE DEF b
  <2> QED
    BY <1>2, <1>4, <2>1, <2>2, <2>3 DEF Dropped, Fixed
<1>6. Cancelled(c) \in {b, f}
  BY DEF Cancelled, FireCancel
<1> HIDE DEF b
<1>7. f \in Call
  BY ZenonT(30), <1>4 DEF Call
<1>8. /\ Fixed(b, f) /\ f.reads = b.reads /\ f.read_cb = b.read_cb
      /\ f.read_finished = b.read_finished /\ f.out_queue = b.out_queue
      /\ f.answers = b.answers /\ f.place = b.place /\ f.peer = b.peer /\ f.timer = b.timer
  BY <1>4 DEF Call, Fixed
<1> HIDE DEF f
<1>9. Dropped(c, f)
  BY <1>5, <1>7, <1>8 DEF Dropped, Fixed
<1> QED
  BY <1>5, <1>6, <1>9

(* OnStreamClose, and a lost connection.                                     *)
LEMMA GoneEnds ==
    ASSUME NEW c \in Call, NEW e, NEW d \in Call, NEW t, Dropped(c, e), Fixed(e, d),
           d.reads = e.reads, d.read_cb = e.read_cb, d.read_finished = e.read_finished,
           d.out_queue = e.out_queue, d.answers = e.answers,
           d.place = "gone", d.peer \in {e.peer, "lost"}, d.timer = t,
           t = "fired" <=> e.timer = "fired"
    PROVE  Ends(c, d) /\ d.responded = c.responded
  BY DEF Ends, Dropped, Fixed

(* OnStreamClose.                                                            *)
LEMMA CloseEnds ==
    ASSUME NEW c \in Call
    PROVE  Ends(c, Close(c)) /\ Close(c).responded = c.responded
<1> DEFINE e == Cancelled(c)
           t == IF e.timer = "armed" THEN "off" ELSE e.timer
           s == StopDeadline(e)
           d == [s EXCEPT !.place = "gone", !.item = 0]
<1>1. CASE c.place # "open"
  BY <1>1 DEF Close, Ends, Extends
<1>2. CASE c.place = "open"
  <2>1. Close(c) = d
    BY <1>2 DEF Close, Cancelled
  <2>2. Dropped(c, e) /\ e \in Call
    BY CancelledDrops DEF Dropped
  <2> HIDE DEF e
  <2>3. /\ s \in Call /\ Fixed(e, s)
        /\ s.reads = e.reads /\ s.read_cb = e.read_cb /\ s.read_finished = e.read_finished
        /\ s.out_queue = e.out_queue /\ s.answers = e.answers /\ s.peer = e.peer
        /\ s.timer = t
    <3>1. s \in Call
      BY <2>2, StopDeadlineAlike
    <3> QED
      BY ZenonT(30), <2>2, <3>1 DEF StopDeadline, Call, Fixed
  <2>4. t = "fired" <=> e.timer = "fired"
    OBVIOUS
  <2> HIDE DEF s, t
  <2>5. d \in Call
    <3>1. 0 \in 0..MaxWrites
      BY ConstantsAssumption
    <3> QED
      BY ZenonT(30), <2>3, <3>1 DEF Call
  <2>6. /\ Fixed(s, d) /\ d.place = "gone"
        /\ d.reads = s.reads /\ d.read_cb = s.read_cb /\ d.read_finished = s.read_finished
        /\ d.out_queue = s.out_queue /\ d.answers = s.answers /\ d.peer = s.peer
        /\ d.timer = s.timer
    BY <2>3 DEF Call, Fixed
  <2> HIDE DEF d
  <2>7. Fixed(e, d)
    BY <2>3, <2>6 DEF Fixed
  <2>8. Ends(c, d) /\ d.responded = c.responded
    BY <2>2, <2>3, <2>4, <2>5, <2>6, <2>7, GoneEnds
  <2> QED
    BY <2>1, <2>8
<1> QED
  BY <1>1, <1>2

(* nghttp2 closes a stream both sides of which have ended.                   *)
LEMMA SettleTracked ==
    ASSUME NEW c, Tracked(c)
    PROVE  Tracked(Settle(c)) /\ Tracked(Close(c))
  BY CloseEnds, EndsTracked DEF Settle, Tracked

(* The terminal status, with what OnStreamClose does after it.               *)
LEMMA EndTracked ==
    ASSUME NEW c, Tracked(c), NEW kind \in {"trailers", "trailersOnly"}, NEW st \in Status
    PROVE  Tracked(End(c, kind, st))
<1> DEFINE f == [kind |-> kind, status |-> st]
           w == Append(c.wire, f)
           d == [c EXCEPT !.wire = w, !.item = 0]
<1>1. f \in Frame /\ Terminal(f)
  BY DEF Frame, Terminal
<1>2. c \in Call /\ c.wire \in Seq(Frame)
  BY CallFields DEF Tracked
<1>3. End(c, kind, st) = Settle(d)
  BY DEF End
<1> HIDE DEF f
<1>4. w \in Seq(Frame)
  BY <1>1, <1>2, AppendFrame
<1>5. d \in Call
  <2>1. 0 \in 0..MaxWrites
    BY ConstantsAssumption
  <2> HIDE DEF w
  <2> QED
    BY ZenonT(30), <1>2, <1>4, <2>1 DEF Call
<1>6. /\ d.form = c.form /\ d.garbled = c.garbled /\ d.dispatched = c.dispatched
      /\ d.received = c.received /\ d.unread = c.unread /\ d.reads = c.reads
      /\ d.written = c.written /\ d.out_inflight = c.out_inflight
      /\ d.responded = c.responded /\ d.write_closed = c.write_closed
      /\ d.read_cb = c.read_cb /\ d.read_finished = c.read_finished
      /\ d.out_queue = c.out_queue /\ d.answers = c.answers
      /\ d.place = c.place /\ d.peer = c.peer /\ d.timer = c.timer
      /\ d.wire = Append(c.wire, f)
  BY <1>2 DEF Call
<1> HIDE DEF d
<1>7. Ends(c, d)
  BY <1>1, <1>5, <1>6 DEF Ends, Extends
<1> QED
  BY <1>3, <1>6, <1>7, EndsTracked, SettleTracked

(* The terminal status of a stream.                                          *)
LEMMA TrailStreamTracked ==
    ASSUME NEW c, Tracked(c), NEW st \in Status
    PROVE  Tracked(TrailStream(c, st))
  BY EndTracked DEF TrailStream, SendTrailers, SendTrailersOnly

(* A call is answered; the timer is stopped then, unless it has fired.       *)
LEMMA AnsweredTracked ==
    ASSUME NEW c, Tracked(c), c.form \in ClientStreams => c.timer = "fired" \/ c.garbled
    PROVE  /\ Tracked([c EXCEPT !.responded = TRUE])
           /\ Tracked(StopDeadline([c EXCEPT !.responded = TRUE]))
<1> DEFINE b == [c EXCEPT !.responded = TRUE]
<1>1. c \in Call
  BY DEF Tracked
<1>2. b \in Call
  BY ZenonT(30), <1>1 DEF Call
<1>3. /\ b.form = c.form /\ b.garbled = c.garbled /\ b.dispatched = c.dispatched
      /\ b.received = c.received /\ b.unread = c.unread /\ b.reads = c.reads
      /\ b.written = c.written /\ b.out_inflight = c.out_inflight /\ b.wire = c.wire
      /\ b.responded = TRUE /\ b.write_closed = c.write_closed
      /\ b.read_cb = c.read_cb /\ b.read_finished = c.read_finished
      /\ b.out_queue = c.out_queue /\ b.answers = c.answers
      /\ b.place = c.place /\ b.peer = c.peer /\ b.timer = c.timer
  BY <1>1 DEF Call
<1> HIDE DEF b
<1>4. Ends(c, b)
  BY <1>2, <1>3 DEF Ends, Extends
<1>5. Tracked(b)
  BY <1>1, <1>2, <1>3, <1>4, EndsBook, EndsReading DEF Tracked
<1>6. Tracked(StopDeadline(b))
  BY <1>2, <1>5, StopDeadlineEnds, EndsTracked DEF Fixed
<1> QED
  BY <1>5, <1>6 DEF b

(* The terminal status of a unary or unknown call.                           *)
LEMMA TrailersOnlyTracked ==
    ASSUME NEW c, Tracked(c), NEW st \in Status, c.form \notin ClientStreams
    PROVE  Tracked(TrailersOnly(c, st))
  BY AnsweredTracked, EndTracked DEF TrailersOnly, SendTrailersOnly

(* RespondError, once the decoder has failed.                                *)
LEMMA RespondErrorTracked ==
    ASSUME NEW c, Tracked(c), NEW st, c.garbled
    PROVE  Tracked(RespondError(c, st))
<1> DEFINE d == StopDeadline([c EXCEPT !.responded = TRUE])
<1>1. Tracked(d)
  BY AnsweredTracked
<1>2. d.responded
  BY Zenon, MarkType DEF Tracked, Marked
<1>3. RespondError(c, st) \in {c, d}
  BY <1>2 DEF RespondError, TrailersOnly
<1> QED
  BY <1>1, <1>3

(* FinishStream closes the reader, so a message it gives up leaves no gap.   *)
LEMMA FinishStreamTracked ==
    ASSUME NEW c \in Call, Book(c), Reading(c), NEW st \in Status,
           c.place # "open" \/ c.responded => Whole(c)
    PROVE  Tracked(FinishStream(c, st))
<1> DEFINE b == [c EXCEPT !.responded = TRUE, !.write_closed = TRUE, !.read_finished = TRUE]
           d == StopDeadline(b)
           e == [d EXCEPT !.finish_pending = st]
<1>1. CASE c.place # "open" \/ c.responded
  BY <1>1 DEF FinishStream, Tracked
<1>2. CASE c.place = "open" /\ ~c.responded
  <2>1. FinishStream(c, st) \in {e, TrailStream(d, st)}
    BY <1>2 DEF FinishStream
  <2>2. b \in Call
    BY ZenonT(30) DEF Call
  <2>3. /\ b.form = c.form /\ b.garbled = c.garbled /\ b.dispatched = c.dispatched
        /\ b.received = c.received /\ b.unread = c.unread /\ b.reads = c.reads
        /\ b.written = c.written /\ b.out_inflight = c.out_inflight /\ b.wire = c.wire
        /\ b.responded = TRUE /\ b.write_closed = TRUE
        /\ b.read_cb = c.read_cb /\ b.read_finished = TRUE
        /\ b.out_queue = c.out_queue /\ b.answers = c.answers
        /\ b.place = c.place /\ b.peer = c.peer /\ b.timer = c.timer
    BY DEF Call
  <2> HIDE DEF b
  <2>4. Ends(c, b)
    BY <2>2, <2>3 DEF Ends, Extends
  <2>5. Book(b) /\ Reading(b)
    BY <2>3, <2>4, EndsBook, EndsReading
  <2>6. Tracked(b)
    BY <2>2, <2>3, <2>5 DEF Tracked, Whole
  <2>7. Tracked(d)
    BY <2>2, <2>6, StopDeadlineEnds, EndsTracked DEF Fixed
  <2> HIDE DEF d
  <2>8. e \in Call
    BY ZenonT(30), <2>7 DEF Tracked, Call
  <2>9. /\ e.form = d.form /\ e.garbled = d.garbled /\ e.dispatched = d.dispatched
        /\ e.received = d.received /\ e.unread = d.unread /\ e.reads = d.reads
        /\ e.written = d.written /\ e.out_inflight = d.out_inflight /\ e.wire = d.wire
        /\ e.responded = d.responded /\ e.write_closed = d.write_closed
        /\ e.read_cb = d.read_cb /\ e.read_finished = d.read_finished
        /\ e.out_queue = d.out_queue /\ e.answers = d.answers
        /\ e.place = d.place /\ e.peer = d.peer /\ e.timer = d.timer
    BY <2>7 DEF Tracked, Call
  <2> HIDE DEF e
  <2>10. Ends(d, e)
    BY <2>8, <2>9 DEF Ends, Extends
  <2>11. Tracked(e) /\ Tracked(TrailStream(d, st))
    BY <2>7, <2>9, <2>10, EndsTracked, TrailStreamTracked
  <2> QED
    BY <2>1, <2>11
<1> QED
  BY <1>1, <1>2

(* MaybeSendDeferredFinish.                                                  *)
LEMMA DeferredTracked ==
    ASSUME NEW c, Tracked(c)
    PROVE  Tracked(MaybeSendDeferredFinish(c))
<1> DEFINE d == [c EXCEPT !.finish_pending = "none"]
           st == c.finish_pending
<1>1. c \in Call
  BY DEF Tracked
<1>2. CASE st = "none"
  BY <1>2 DEF MaybeSendDeferredFinish
<1>3. CASE st # "none"
  <2>1. st \in Status
    BY <1>1, <1>3 DEF Call
  <2>2. MaybeSendDeferredFinish(c) \in {c, End(d, "trailers", st)}
    BY DEF MaybeSendDeferredFinish, SendTrailers
  <2>3. d \in Call
    BY ZenonT(30), <1>1 DEF Call
  <2>4. /\ d.form = c.form /\ d.garbled = c.garbled /\ d.dispatched = c.dispatched
        /\ d.received = c.received /\ d.unread = c.unread /\ d.reads = c.reads
        /\ d.written = c.written /\ d.out_inflight = c.out_inflight /\ d.wire = c.wire
        /\ d.responded = c.responded /\ d.write_closed = c.write_closed
        /\ d.read_cb = c.read_cb /\ d.read_finished = c.read_finished
        /\ d.out_queue = c.out_queue /\ d.answers = c.answers
        /\ d.place = c.place /\ d.peer = c.peer /\ d.timer = c.timer
    BY <1>1 DEF Call
  <2> HIDE DEF d, st
  <2>5. Ends(c, d)
    BY <2>3, <2>4 DEF Ends, Extends
  <2>6. Tracked(d)
    BY <2>4, <2>5, EndsTracked
  <2> QED
    BY <2>1, <2>2, <2>6, EndTracked
<1> QED
  BY <1>2, <1>3

-----------------------------------------------------------------------------
(* Messages leave                                                            *)

\* The read side of c and d agrees.
Reads(c, d) ==
    /\ d.form = c.form /\ d.garbled = c.garbled /\ d.dispatched = c.dispatched
    /\ d.received = c.received /\ d.unread = c.unread /\ d.reads = c.reads
    /\ d.read_cb = c.read_cb /\ d.read_finished = c.read_finished
    /\ d.responded = c.responded /\ d.place = c.place /\ d.peer = c.peer
    /\ d.timer = c.timer

(* A step that the read side does not see.                                   *)
LEMMA ReadsReading ==
    ASSUME NEW c, Reading(c), Whole(c), NEW d, Reads(c, d)
    PROVE  Reading(d) /\ Whole(d)
<1>1. Taken(d) = Taken(c) /\ (Late(c) <=> Late(d))
  BY DEF Reads, Taken, Late
<1>2. Full(c) <=> Full(d)
  BY <1>1 DEF Reads, Full
<1> QED
  BY <1>1, <1>2 DEF Reads, Reading, Whole

\* What Answer does.
Answered(c, a, ns, st) ==
    /\ a \in Call /\ Reads(c, a)
    /\ a.wire = c.wire /\ a.out_queue = c.out_queue /\ a.out_inflight = c.out_inflight
    /\ a.written = c.written /\ a.write_closed = c.write_closed
    /\ Posts(c.answers, a.answers, ns, st)

(* What Answer changes.                                                      *)
LEMMA AnswerFields ==
    ASSUME NEW c \in Call, NEW ns, NEW st \in Status
    PROVE  Answered(c, Answer(c, ns, st), ns, st)
<1> DEFINE x == [n \in DOMAIN c.answers |->
                   IF n \in ns THEN Append(c.answers[n], st) ELSE c.answers[n]]
           a == Answer(c, ns, st)
<1>1. a = [c EXCEPT !.answers = x]
  BY DEF Answer, Call
<1>2. a \in Call
  BY Zenon, AnswerAlike
<1>3. DOMAIN c.answers = 1..MaxWrites /\ \A k \in 1..MaxWrites : c.answers[k] \in Seq(Status)
  BY Zenon, CallFields
<1>4. Posts(c.answers, x, ns, st)
  BY Zenon, <1>3 DEF Posts
<1> HIDE DEF x
<1>5. /\ a.wire = c.wire /\ a.out_queue = c.out_queue /\ a.out_inflight = c.out_inflight
      /\ a.written = c.written /\ a.write_closed = c.write_closed /\ a.answers = x
  BY <1>1 DEF Call
<1>6. Reads(c, a)
  BY <1>1 DEF Call, Reads
<1> HIDE DEF a
<1>7. Answered(c, a, ns, st)
  BY Zenon, <1>2, <1>4, <1>5, <1>6 DEF Answered
<1> QED
  BY <1>7 DEF a

(* One more message on the wire, younger than all before it.                 *)
LEMMA SentData ==
    ASSUME NEW c \in Call, NEW d, NEW i \in 1..MaxWrites, d.wire = Append(c.wire, Data(i)),
           Rising(c.wire), \A s \in Sent(c) : s < i
    PROVE  Sent(d) = Sent(c) \cup {i} /\ Rising(d.wire)
<1> DEFINE w == c.wire
           v == d.wire
           f == Data(i)
           X == {j \in DOMAIN w : w[j].kind = "data"}
           Y == {j \in DOMAIN v : v[j].kind = "data"}
<1>1. w \in Seq(Frame) /\ f \in Frame /\ f.kind = "data" /\ f.msg = i
  <2>1. i \in 1..(MaxWrites + 1)
    BY ConstantsAssumption
  <2> QED
    BY <2>1, CallFields DEF Frame, Data
<1>2. /\ DOMAIN w = 1..Len(w) /\ DOMAIN v = 1..(Len(w) + 1) /\ Len(w) \in Nat
      /\ \A k \in 1..Len(w) : v[k] = w[k]
      /\ v[Len(w) + 1] = f
  BY <1>1, AppendFrame
<1>3. \A k \in X : w[k].msg < i
  BY DEF Sent
<1> HIDE DEF w, v, f
<1>4. \A k \in DOMAIN v : k \in DOMAIN w \/ k = Len(w) + 1
  BY <1>2
<1>5. Y = X \cup {Len(w) + 1} /\ \A k \in X : v[k] = w[k]
  BY <1>1, <1>2, <1>4
<1>6. {v[k].msg : k \in Y} = {w[k].msg : k \in X} \cup {i}
  <2> HIDE DEF X, Y
  <2> QED
    BY <1>1, <1>2, <1>5
<1>7. Sent(d) = Sent(c) \cup {i}
  BY Zenon, <1>6 DEF Sent, w, v
<1>8. Rising(v)
  <2> SUFFICES ASSUME NEW j \in DOMAIN v, NEW k \in DOMAIN v, j < k,
                      v[j].kind = "data", v[k].kind = "data"
               PROVE  v[j].msg < v[k].msg
    BY DEF Rising
  <2>1. j \in DOMAIN w
    BY <1>2, <1>4
  <2>2. CASE k \in DOMAIN w
    BY <1>2, <2>1, <2>2 DEF Rising, w
  <2>3. CASE k = Len(w) + 1
    BY <1>1, <1>2, <1>3, <2>1, <2>3
  <2> QED
    BY <1>4, <2>2, <2>3
<1> QED
  BY <1>7, <1>8 DEF v

(* on_consumed: the message in flight is on the wire and its writer told.    *)
LEMMA ConsumedTracked ==
    ASSUME NEW c, Tracked(c), c.out_inflight # 0
    PROVE  Tracked(Consumed(c))
<1> DEFINE i == c.out_inflight
           w == Append(c.wire, Data(i))
           e == [c EXCEPT !.wire = w, !.item = 0, !.out_inflight = 0, !.pumps = @ + 1]
           a == Answer(e, {i}, "Ok")
           S == Sent(c)
           H == Held(c)
<1>1. /\ c \in Call /\ i \in 1..MaxWrites /\ c.pumps \in Nat /\ c.wire \in Seq(Frame)
      /\ c.out_queue \in Seq(1..MaxWrites) /\ c.written \in 0..MaxWrites
      /\ c.answers \in [1..MaxWrites -> Seq(Status)]
  <2>1. c \in Call /\ c.pumps \in Nat
    BY DEF Tracked, Call
  <2>2. c.out_inflight \in 0..MaxWrites
    BY <2>1, CallFields
  <2>3. i \in 1..MaxWrites
    BY <2>2
  <2> QED
    BY <2>1, <2>3, CallFields
<1>2. /\ Ledger(S, H, c.written, c.answers) /\ Rising(c.wire)
      /\ Lined(c.out_queue, i) /\ c.form \in Streaming
      /\ Writable(c) => \A k \in 1..c.written : Kept(S, H, k, c.answers)
  BY DEF Tracked, Book
<1>3. Data(i) \in Frame /\ w \in Seq(Frame)
  <2>1. i \in 1..(MaxWrites + 1)
    BY <1>1, ConstantsAssumption
  <2>2. Data(i) \in Frame
    BY <2>1 DEF Frame, Data
  <2> QED
    BY <1>1, <2>2, AppendFrame
<1>4. Consumed(c) = MaybeSendDeferredFinish(a)
  BY DEF Consumed
<1>5. e \in Call
  <2>1. 0 \in 0..MaxWrites /\ c.pumps + 1 \in Nat
    BY <1>1, ConstantsAssumption
  <2> HIDE DEF w
  <2> QED
    BY ZenonT(30), <1>1, <1>3, <2>1 DEF Call
<1>6. /\ e.wire = w /\ e.out_inflight = 0 /\ e.out_queue = c.out_queue
      /\ e.written = c.written /\ e.write_closed = c.write_closed /\ e.answers = c.answers
  BY <1>1 DEF Call
<1>7. Reads(c, e)
  BY <1>1 DEF Call, Reads
<1> HIDE DEF e
<1>8. /\ a \in Call /\ Reads(e, a)
      /\ a.wire = w /\ a.out_inflight = 0 /\ a.out_queue = c.out_queue
      /\ a.written = c.written /\ a.write_closed = c.write_closed
      /\ Posts(c.answers, a.answers, {i}, "Ok")
  <2>1. Answered(e, a, {i}, "Ok")
    BY <1>5, AnswerFields DEF Status
  <2> HIDE DEF a
  <2> QED
    BY Zenon, <1>6, <2>1 DEF Answered
<1> HIDE DEF a
<1>9. Reads(c, a)
  BY <1>7, <1>8 DEF Reads
<1>10. i \in H /\ \A h \in H : h # i => i < h
  <2>1. \A h \in Elems(c.out_queue) : \E k \in DOMAIN c.out_queue : h = c.out_queue[k]
    BY <1>1, ElemsType
  <2> QED
    BY <1>1, <1>2, <2>1 DEF Held, Lined
<1>11. Sent(a) = S \cup {i} /\ Rising(a.wire)
  <2>1. \A s \in S : s < i
    BY <1>2, <1>10 DEF Ledger
  <2> QED
    BY Zenon, <1>1, <1>2, <1>8, <2>1, SentData
<1>12. Held(a) = H \ {i}
  <2>1. i \notin Elems(c.out_queue)
    <3>1. \A h \in Elems(c.out_queue) : h \in 1..MaxWrites /\ \E k \in DOMAIN c.out_queue : h = c.out_queue[k]
      BY ZenonT(30), <1>1, ElemsType
    <3>2. \A h \in Elems(c.out_queue) : i < h
      BY <1>1, <1>2, <3>1 DEF Lined
    <3> QED
      BY <1>1, <3>2
  <2> QED
    BY <1>8, <2>1 DEF Held
<1>13. Lined(a.out_queue, a.out_inflight)
  BY <1>2, <1>8 DEF Lined
<1>14. Ledger(S \cup {i}, H \ {i}, c.written, a.answers)
  <2> HIDE DEF S, H, i
  <2> QED
    BY Zenon, <1>1, <1>2, <1>8, <1>10, LedgerSend
<1>15. Writable(a) => \A k \in 1..c.written : Kept(S \cup {i}, H \ {i}, k, a.answers)
  <2>1. Writable(a) => Writable(c)
    BY <1>8, <1>9 DEF Reads, Writable
  <2>2. \A k \in 1..c.written : k # i => a.answers[k] = c.answers[k]
    <3>1. \A k \in 1..c.written : k \in 1..MaxWrites
      BY <1>1, ConstantsAssumption
    <3> QED
      BY <1>8, <3>1 DEF Posts
  <2> QED
    BY <1>2, <2>1, <2>2 DEF Kept
<1>16. Book(a)
  BY Zenon, <1>2, <1>8, <1>9, <1>11, <1>12, <1>13, <1>14, <1>15 DEF Book, Reads
<1>17. Tracked(a)
  BY <1>8, <1>9, <1>16, ReadsReading DEF Tracked
<1> QED
  BY <1>4, <1>17, DeferredTracked

(* The first of the queue is older than the rest.                            *)
LEMMA QueueSplit ==
    ASSUME NEW q \in Seq(1..MaxWrites), q # <<>>, Lined(q, 0)
    PROVE  /\ Elems(q) = Elems(Tail(q)) \cup {Head(q)} /\ Lined(Tail(q), Head(q))
           /\ Head(q) \in 1..MaxWrites /\ Tail(q) \in Seq(1..MaxWrites)
<1> DEFINE h == Head(q)
           t == Tail(q)
<1>1. /\ h \in 1..MaxWrites /\ t \in Seq(1..MaxWrites)
      /\ Elems(q) = Elems(t) \cup {h} /\ 1 \in DOMAIN q /\ h = q[1]
      /\ \A k \in DOMAIN t : k \in Nat /\ k + 1 \in DOMAIN q /\ t[k] = q[k + 1] /\ 1 < k + 1
  BY Zenon, SeqSplit
<1> HIDE DEF h, t
<1>2. \A k \in DOMAIN t : h < t[k]
  BY <1>1 DEF Lined
<1>3. ASSUME NEW j \in DOMAIN t, NEW k \in DOMAIN t, j < k
      PROVE  t[j] < t[k]
  <2>1. j + 1 \in DOMAIN q /\ k + 1 \in DOMAIN q /\ j + 1 < k + 1
    BY <1>1, <1>3
  <2> QED
    BY <1>1, <2>1 DEF Lined
<1>4. Lined(t, h)
  BY <1>2, <1>3 DEF Lined
<1> QED
  BY <1>1, <1>4 DEF h, t

(* The oldest queued message goes in flight, or on the wire.                 *)
LEMMA PumpOutTracked ==
    ASSUME NEW c, Tracked(c), NEW blocked \in BOOLEAN
    PROVE  Tracked(PumpOut(c, blocked))
<1> DEFINE m == Head(c.out_queue)
           q == Tail(c.out_queue)
           w == IF c.response_headers_sent THEN c.wire ELSE Append(c.wire, Headers)
           d == [c EXCEPT !.out_queue = q, !.out_inflight = m, !.item = m,
                          !.response_headers_sent = TRUE, !.wire = w]
<1>1. CASE ~CanPump(c)
  BY <1>1 DEF PumpOut
<1>2. CASE CanPump(c)
  <2>1. /\ c \in Call /\ c.out_queue \in Seq(1..MaxWrites) /\ c.wire \in Seq(Frame)
        /\ c.out_queue # <<>> /\ c.out_inflight = 0
    BY <1>2, CallFields DEF CanPump, Tracked
  <2>2. /\ Lined(c.out_queue, 0) /\ Rising(c.wire) /\ c.form \in Streaming
        /\ Ledger(Sent(c), Held(c), c.written, c.answers)
        /\ Writable(c) => \A k \in 1..c.written : Kept(Sent(c), Held(c), k, c.answers)
    BY <2>1 DEF Tracked, Book
  <2>3. /\ Elems(c.out_queue) = Elems(q) \cup {m} /\ Lined(q, m)
        /\ m \in 1..MaxWrites /\ q \in Seq(1..MaxWrites)
    BY Zenon, <2>1, <2>2, QueueSplit
  <2>4. m # 0 /\ m \in 0..MaxWrites
    BY <2>3, ConstantsAssumption
  <2>5. PumpOut(c, blocked) = IF blocked THEN d ELSE Consumed(d)
    BY <1>2, <2>1 DEF PumpOut, Call
  <2>6. Headers \in Frame /\ Headers.kind # "data"
    BY DEF Headers, Frame
  <2>7. w \in Seq(Frame)
    BY <2>1, <2>6, AppendFrame
  <2> HIDE DEF m, q
  <2>8. d \in Call
    <3> HIDE DEF w
    <3> DEFINE g == [c EXCEPT !.out_queue = q, !.out_inflight = m, !.item = m]
               h == [g EXCEPT !.response_headers_sent = TRUE, !.wire = w]
    <3>1. g \in Call
      BY ZenonT(30), <2>1, <2>3, <2>4 DEF Call
    <3>2. d = h
      OBVIOUS
    <3> HIDE DEF g
    <3>3. h \in Call
      BY ZenonT(30), <2>7, <3>1 DEF Call
    <3> HIDE DEF d, h
    <3> QED
      BY <3>2, <3>3
  <2>9. /\ d.wire = w /\ d.out_inflight = m /\ d.out_queue = q
        /\ d.written = c.written /\ d.write_closed = c.write_closed /\ d.answers = c.answers
    BY <2>1 DEF Call
  <2>10. Reads(c, d)
    BY <2>1 DEF Call, Reads
  <2> HIDE DEF d
  <2>11. Sent(d) = Sent(c) /\ Rising(d.wire)
    <3>1. CASE c.response_headers_sent
      BY <2>2, <2>9, <3>1 DEF Sent
    <3>2. CASE ~c.response_headers_sent
      BY Zenon, <2>1, <2>2, <2>6, <2>8, <2>9, <3>2, SentNoData
    <3> QED
      BY <3>1, <3>2
  <2>12. Held(d) = Held(c)
    BY <2>1, <2>3, <2>4, <2>9 DEF Held
  <2>13. Writable(d) => Writable(c)
    BY <2>9, <2>10 DEF Writable, Reads
  <2>14. Book(d)
    BY <2>2, <2>3, <2>9, <2>10, <2>11, <2>12, <2>13 DEF Book, Reads
  <2>15. Tracked(d)
    BY <2>8, <2>10, <2>14, ReadsReading DEF Tracked
  <2> QED
    BY <2>4, <2>5, <2>9, <2>15, ConsumedTracked
<1> QED
  BY <1>1, <1>2

\* The write side of c and d agrees; WriteDone may close it.
Writes(c, d) ==
    /\ d.form = c.form /\ d.wire = c.wire /\ d.out_queue = c.out_queue
    /\ d.out_inflight = c.out_inflight /\ d.written = c.written /\ d.answers = c.answers
    /\ d.place = c.place /\ d.responded = c.responded
    /\ c.write_closed => d.write_closed

(* A step that the write side does not see.                                  *)
LEMMA WritesBook ==
    ASSUME NEW c, Book(c), NEW d, Writes(c, d)
    PROVE  Book(d)
<1>1. Sent(d) = Sent(c) /\ Held(d) = Held(c)
  BY DEF Sent, Held, Writes
<1>2. Writable(d) => Writable(c)
  BY DEF Writable, Writes
<1> QED
  BY <1>1, <1>2 DEF Book, Writes

(* A write is refused, queued or sent.                                       *)
LEMMA WriteMessageTracked ==
    ASSUME Tracked(call), NEW blocked \in BOOLEAN, WriteMessage(blocked)
    PROVE  Tracked(call')
<1> DEFINE n == call.written + 1
           c == [call EXCEPT !.written = n]
           q == Append(call.out_queue, n)
           d == [c EXCEPT !.out_queue = q]
           S == Sent(call)
           H == Held(call)
           A == call.answers
<1>1. /\ call \in Call /\ call.place = "open" /\ call.form \in Streaming
      /\ call.written \in 0..MaxWrites /\ call.written < MaxWrites
      /\ call.out_queue \in Seq(1..MaxWrites) /\ call.out_inflight \in 0..MaxWrites
      /\ A \in [1..MaxWrites -> Seq(Status)]
  BY CallFields DEF Tracked, WriteMessage, Handling
<1>2. n \in 1..MaxWrites /\ n \in 0..MaxWrites
  BY <1>1, ConstantsAssumption
<1>3. /\ Ledger(S, H, call.written, A) /\ Rising(call.wire)
      /\ Lined(call.out_queue, call.out_inflight)
      /\ Writable(call) => \A k \in 1..call.written : Kept(S, H, k, A)
  BY <1>1 DEF Tracked, Book
<1>4. c \in Call
  <2> HIDE DEF n
  <2> QED
    BY ZenonT(30), <1>1, <1>2 DEF Call
<1>5. /\ c.wire = call.wire /\ c.out_queue = call.out_queue
      /\ c.out_inflight = call.out_inflight /\ c.written = n
      /\ c.write_closed = call.write_closed /\ c.answers = A
  BY <1>1 DEF Call
<1>6. Reads(call, c)
  BY <1>1 DEF Call, Reads
<1>7. \/ (call.responded \/ call.write_closed) /\ call' = Answer(c, {n}, "Internal")
      \/ call' = Answer(c, {n}, "ResourceExhausted")
      \/ Writable(call) /\ call' = PumpOut(d, blocked)
  BY ZenonT(30), <1>1, <1>5, <1>6 DEF WriteMessage, Writable, Reads
<1> HIDE DEF c
<1>8. ASSUME NEW st \in Status, st # "Ok", call' = Answer(c, {n}, st),
             st = "ResourceExhausted" \/ ~Writable(call)
      PROVE  Tracked(call')
  <2> DEFINE a == call'
  <2>1. Answered(c, a, {n}, st)
    BY <1>4, <1>8, AnswerFields
  <2> HIDE DEF a, n
  <2>2. /\ a \in Call /\ Reads(c, a) /\ a.wire = call.wire /\ a.out_queue = call.out_queue
        /\ a.out_inflight = call.out_inflight /\ a.written = n
        /\ a.write_closed = call.write_closed
        /\ Posts(A, a.answers, {n}, st)
    BY ZenonT(30), <1>5, <2>1 DEF Answered
  <2>3. Reads(call, a)
    BY <1>6, <2>2 DEF Reads
  <2>4. Sent(a) = S /\ Held(a) = H
    BY <2>2 DEF Sent, Held
  <2>5. /\ Ledger(S, H, n, a.answers)
        /\ \A k \in 1..call.written : Kept(S, H, k, A) => Kept(S, H, k, a.answers)
        /\ st = "ResourceExhausted" => Kept(S, H, n, a.answers)
    <3> HIDE DEF S, H, A
    <3> QED
      BY Zenon, <1>1, <1>3, <1>8, <2>2, LedgerRefuse DEF n
  <2>6. Writable(a) => \A k \in 1..n : Kept(S, H, k, a.answers)
    <3>1. Writable(a) => Writable(call)
      BY <2>2, <2>3 DEF Writable, Reads
    <3>2. \A k \in 1..n : k \in 1..call.written \/ k = n
      BY <1>1 DEF n
    <3> HIDE DEF S, H, A, a
    <3> QED
      BY ZenonT(30), <1>3, <1>8, <2>5, <3>1, <3>2
  <2>7. Book(a)
    BY ZenonT(30), <1>1, <1>3, <2>2, <2>3, <2>4, <2>5, <2>6 DEF Book, Reads
  <2>8. Tracked(a)
    BY <2>2, <2>3, <2>7, ReadsReading DEF Tracked
  <2> QED
    BY <2>8 DEF a
<1>9. CASE Writable(call) /\ call' = PumpOut(d, blocked)
  <2>1. /\ q \in Seq(1..MaxWrites) /\ Len(call.out_queue) \in Nat
        /\ DOMAIN call.out_queue = 1..Len(call.out_queue)
        /\ DOMAIN q = 1..(Len(call.out_queue) + 1)
        /\ \A k \in 1..Len(call.out_queue) : q[k] = call.out_queue[k]
        /\ q[Len(call.out_queue) + 1] = n
    BY <1>1, <1>2, AppendProperties
  <2> HIDE DEF q
  <2>2. \A k \in DOMAIN q : k \in DOMAIN call.out_queue \/ k = Len(call.out_queue) + 1
    BY <2>1
  <2>3. Elems(q) = Elems(call.out_queue) \cup {n}
    <3> HIDE DEF n
    <3>1. Len(call.out_queue) + 1 \in DOMAIN q
      BY <2>1
    <3>2. \A x \in Elems(q) : x \in Elems(call.out_queue) \cup {n}
      BY <2>1, <2>2 DEF Elems
    <3>3. \A x \in Elems(call.out_queue) : x \in Elems(q)
      <4>1. \A k \in DOMAIN call.out_queue : k \in DOMAIN q /\ q[k] = call.out_queue[k]
        BY <2>1
      <4> QED
        BY Zenon, <4>1 DEF Elems
    <3>4. n \in Elems(q)
      BY Zenon, <2>1, <3>1 DEF Elems
    <3> QED
      BY <3>2, <3>3, <3>4
  <2>4. \A k \in DOMAIN call.out_queue : call.out_queue[k] \in H
    BY DEF Held, Elems
  <2>5. \A h \in H : h \in 1..call.written
    BY <1>3 DEF Ledger
  <2>6. \A k \in DOMAIN call.out_queue : q[k] = call.out_queue[k] /\ q[k] < n
    BY <1>1, <2>1, <2>4, <2>5
  <2>7. call.out_inflight # 0 => call.out_inflight < n
    BY <1>1, <2>5 DEF Held
  <2>8. Lined(q, call.out_inflight)
    <3>1. \A j, k \in DOMAIN call.out_queue :
             j < k => call.out_queue[j] < call.out_queue[k]
      BY Zenon, <1>3 DEF Lined
    <3>2. call.out_inflight # 0 =>
             \A k \in DOMAIN call.out_queue : call.out_inflight < call.out_queue[k]
      BY Zenon, <1>3 DEF Lined
    <3>3. \A j, k \in DOMAIN q : j < k => q[j] < q[k]
      BY <2>1, <2>2, <2>6, <3>1
    <3>4. call.out_inflight # 0 => \A k \in DOMAIN q : call.out_inflight < q[k]
      BY <2>1, <2>2, <2>6, <2>7, <3>2
    <3> QED
      BY Zenon, <3>3, <3>4 DEF Lined
  <2>9. d \in Call
    BY ZenonT(30), <1>4, <2>1 DEF Call
  <2>10. /\ d.wire = call.wire /\ d.out_queue = q /\ d.out_inflight = call.out_inflight
         /\ d.written = n /\ d.write_closed = call.write_closed /\ d.answers = A
    BY <1>4, <1>5 DEF Call
  <2>11. Reads(call, d)
    BY <1>4, <1>6 DEF Call, Reads
  <2> HIDE DEF d
  <2>12. Sent(d) = S /\ Held(d) = H \cup {n}
    BY <1>2, <2>3, <2>10 DEF Sent, Held
  <2>13. /\ Ledger(S, H \cup {n}, n, A)
         /\ \A k \in 1..n : Kept(S, H \cup {n}, k, A)
    <3> HIDE DEF S, H, A
    <3> QED
      BY ZenonT(30), <1>1, <1>3, <1>9, LedgerHold
  <2>14. Book(d)
    BY Zenon, <1>1, <1>3, <2>8, <2>10, <2>11, <2>12, <2>13 DEF Book, Reads
  <2>15. Tracked(d)
    BY <2>9, <2>11, <2>14, ReadsReading DEF Tracked
  <2> QED
    BY <1>9, <2>15, PumpOutTracked
<1>10. CASE (call.responded \/ call.write_closed) /\ call' = Answer(c, {n}, "Internal")
  BY <1>8, <1>10 DEF Status, Writable
<1>11. CASE call' = Answer(c, {n}, "ResourceExhausted")
  BY <1>8, <1>11 DEF Status
<1> QED
  BY <1>7, <1>9, <1>10, <1>11

-----------------------------------------------------------------------------
(* Messages arrive                                                           *)

\* The messages among the events read.
Got(r) == {r[k].msg : k \in {j \in DOMAIN r : r[j].msg # 0}}

(* What was read and what is unread.                                         *)
LEMMA TakenIs ==
    ASSUME NEW c
    PROVE  Taken(c) = Got(c.reads) \cup Elems(c.unread)
  BY DEF Taken, Got

(* One more event for the reader.                                            *)
LEMMA ReadsAppend ==
    ASSUME NEW r \in Seq(ReadEvent), NEW e \in ReadEvent, NEW s, s = Append(r, e)
    PROVE  /\ DOMAIN r = 1..Len(r) /\ DOMAIN s = 1..(Len(r) + 1) /\ Len(r) \in Nat
           /\ \A k \in 1..Len(r) : s[k] = r[k]
           /\ s[Len(r) + 1] = e
           /\ \A k \in DOMAIN s : k \in DOMAIN r \/ k = Len(r) + 1
  BY AppendProperties

(* A message is read: the first unread one, or the one that just came.       *)
LEMMA GotRead ==
    ASSUME NEW r \in Seq(ReadEvent), NEW e \in ReadEvent, e.msg # 0
    PROVE  Got(Append(r, e)) = Got(r) \cup {e.msg}
<1> DEFINE s == Append(r, e)
           X == {j \in DOMAIN r : r[j].msg # 0}
           Y == {j \in DOMAIN s : s[j].msg # 0}
           n == Len(r) + 1
<1>1. /\ DOMAIN r = 1..Len(r) /\ DOMAIN s = 1..(Len(r) + 1) /\ Len(r) \in Nat
      /\ \A k \in 1..Len(r) : s[k] = r[k]
      /\ s[n] = e
      /\ \A k \in DOMAIN s : k \in DOMAIN r \/ k = n
  BY ReadsAppend
<1>2. Y = X \cup {n} /\ \A k \in X : s[k] = r[k]
  BY <1>1
<1> HIDE DEF X, Y, n
<1>3. {s[k].msg : k \in Y} = {r[k].msg : k \in X} \cup {e.msg}
  <2> HIDE DEF s
  <2> QED
    BY <1>1, <1>2
<1> QED
  BY <1>3 DEF X, Y, Got

(* A message younger than all read before it.                                *)
LEMMA OrderRead ==
    ASSUME NEW r \in Seq(ReadEvent), NEW u, NEW v, NEW e \in ReadEvent, Order(r, u),
           \A j \in DOMAIN r : r[j].msg < e.msg,
           \A k \in DOMAIN v : e.msg < v[k],
           \A j \in DOMAIN r, k \in DOMAIN v : r[j].msg < v[k],
           \A j, k \in DOMAIN v : j < k => v[j] < v[k]
    PROVE  Order(Append(r, e), v)
<1> DEFINE s == Append(r, e)
<1>1. /\ DOMAIN r = 1..Len(r) /\ DOMAIN s = 1..(Len(r) + 1) /\ Len(r) \in Nat
      /\ \A k \in 1..Len(r) : s[k] = r[k]
      /\ s[Len(r) + 1] = e
      /\ \A k \in DOMAIN s : k \in DOMAIN r \/ k = Len(r) + 1
  BY ReadsAppend
<1> HIDE DEF s
<1>2. ASSUME NEW j \in DOMAIN s, NEW k \in DOMAIN s, j < k, s[k].msg # 0
      PROVE  s[j].msg < s[k].msg
  <2>1. j \in DOMAIN r
    BY <1>1, <1>2
  <2>2. CASE k \in DOMAIN r
    BY <1>1, <1>2, <2>1, <2>2 DEF Order
  <2>3. CASE k = Len(r) + 1
    BY <1>1, <2>1, <2>3
  <2> QED
    BY <1>1, <2>2, <2>3
<1>3. \A j \in DOMAIN s, k \in DOMAIN v : s[j].msg < v[k]
  BY <1>1
<1>4. Order(s, v)
  BY <1>2, <1>3 DEF Order
<1> QED
  BY <1>4 DEF s

(* ReadMessage and FinishRequest move the first unread message to the reader.*)
LEMMA MoveFirst ==
    ASSUME NEW c \in Call, NEW d \in Call, c.unread # <<>>, Order(c.reads, c.unread),
           NEW e \in ReadEvent, e.msg = Head(c.unread),
           d.reads = Append(c.reads, e), d.unread = Tail(c.unread)
    PROVE  Taken(d) = Taken(c) /\ Order(d.reads, d.unread)
<1> DEFINE r == c.reads
           u == c.unread
           t == Tail(u)
<1>1. r \in Seq(ReadEvent) /\ u \in Seq(1..MaxRequests)
  BY CallFields
<1>2. /\ Head(u) \in 1..MaxRequests /\ Tail(u) \in Seq(1..MaxRequests)
      /\ Elems(u) = Elems(t) \cup {Head(u)} /\ 1 \in DOMAIN u /\ Head(u) = u[1]
      /\ \A k \in DOMAIN t : k \in Nat /\ k + 1 \in DOMAIN u /\ t[k] = u[k + 1] /\ 1 < k + 1
  BY Zenon, <1>1, SeqSplit
<1>3. e.msg # 0
  BY <1>2
<1>4. Taken(d) = Taken(c)
  <2>1. Got(Append(r, e)) = Got(r) \cup {Head(u)}
    BY <1>1, <1>3, GotRead
  <2> QED
    BY Zenon, <1>2, <2>1, TakenIs
<1> HIDE DEF r, u, t
<1>5. Order(Append(r, e), t)
  <2>1. \A j \in DOMAIN r : r[j].msg < e.msg
    BY <1>2 DEF Order, r, u
  <2>2. \A k \in DOMAIN t : e.msg < t[k]
    BY <1>2 DEF Order, u
  <2>3. \A j \in DOMAIN r, k \in DOMAIN t : r[j].msg < t[k]
    BY <1>2 DEF Order, r, u
  <2>4. ASSUME NEW j \in DOMAIN t, NEW k \in DOMAIN t, j < k
        PROVE  t[j] < t[k]
    <3>1. j + 1 < k + 1 /\ j + 1 \in DOMAIN u /\ k + 1 \in DOMAIN u
      BY <1>2, <2>4
    <3> QED
      BY <1>2, <3>1 DEF Order, u
  <2>5. Order(r, u)
    BY DEF r, u
  <2> QED
    BY <1>1, <2>1, <2>2, <2>3, <2>4, <2>5, OrderRead
<1> QED
  BY <1>4, <1>5 DEF r, t, u

(* What was taken before a message came is below its number.                 *)
LEMMA StillBelow ==
    ASSUME NEW r \in 0..MaxRequests, NEW T, \A m \in T : m \in 1..MaxRequests,
           \A m \in T : m <= r
    PROVE  \A m \in T : m <= r + 1
  BY ConstantsAssumption

(* What has come so far and what comes next.                                 *)
LEMMA TakenRange ==
    ASSUME NEW c \in Call
    PROVE  \A m \in Taken(c) : m \in 1..MaxRequests
<1>1. c.reads \in Seq(ReadEvent) /\ c.unread \in Seq(1..MaxRequests)
  BY CallFields
<1>2. \A k \in DOMAIN c.reads : c.reads[k] \in ReadEvent
  BY <1>1, LenProperties
<1>3. \A k \in DOMAIN c.reads : c.reads[k].msg \in 0..MaxRequests
  BY <1>2 DEF ReadEvent
<1>4. \A m \in Got(c.reads) : m \in 0..MaxRequests /\ m # 0
  BY <1>3 DEF Got
<1>5. \A m \in Elems(c.unread) : m \in 1..MaxRequests
  BY Zenon, <1>1, ElemsType
<1> QED
  BY <1>4, <1>5, TakenIs, ConstantsAssumption

(* The next message closes the gap to what was received.                     *)
LEMMA NextTaken ==
    ASSUME NEW c \in Call, NEW d, Full(c), \A m \in Taken(c) : m <= c.received,
           d.received = c.received + 1, Taken(d) = Taken(c) \cup {c.received + 1}
    PROVE  Full(d) /\ NoGap(Taken(d)) /\ \A m \in Taken(d) : m <= d.received
<1> DEFINE T == Taken(c)
           n == c.received
<1>1. n \in Nat
  BY CallFields
<1>2. \A m \in T : m \in Nat
  BY TakenRange
<1>3. \A m \in T : m <= n
  OBVIOUS
<1>4. 1..n \subseteq T
  BY DEF Full
<1> HIDE DEF T, n
<1>5. 1..(n + 1) \subseteq T \cup {n + 1}
  BY <1>1, <1>4
<1>6. \A m \in T \cup {n + 1} : m \in Nat /\ m <= n + 1
  BY <1>1, <1>2, <1>3
<1>7. NoGap(T \cup {n + 1})
  BY <1>1, <1>5, <1>6 DEF NoGap
<1> QED
  BY <1>5, <1>6, <1>7 DEF T, n, Full

(* A message that follows all before it keeps the order, unread or read.     *)
LEMMA YoungerThan ==
    ASSUME NEW c \in Call, \A m \in Taken(c) : m <= c.received
    PROVE  LET m == c.received + 1 IN
           /\ \A j \in DOMAIN c.reads : c.reads[j].msg < m
           /\ \A k \in DOMAIN c.unread : c.unread[k] < m
<1> DEFINE n == c.received
<1>1. c.reads \in Seq(ReadEvent) /\ c.unread \in Seq(1..MaxRequests) /\ n \in Nat
  BY CallFields
<1>2. \A k \in DOMAIN c.reads : c.reads[k] \in ReadEvent
  BY <1>1, LenProperties
<1>3. \A k \in DOMAIN c.reads : c.reads[k].msg \in Nat
  BY <1>2, ConstantsAssumption DEF ReadEvent
<1>4. \A k \in DOMAIN c.reads : c.reads[k].msg # 0 => c.reads[k].msg \in Taken(c)
  BY DEF Taken
<1>5. \A k \in DOMAIN c.unread : c.unread[k] \in Taken(c)
  BY DEF Taken, Elems
<1>6. \A m \in Taken(c) : m \in Nat /\ m <= n
  BY TakenRange
<1> HIDE DEF n
<1>7. \A j \in DOMAIN c.reads : c.reads[j].msg < n + 1
  BY <1>1, <1>3, <1>4, <1>6
<1>8. \A k \in DOMAIN c.unread : c.unread[k] < n + 1
  BY <1>1, <1>5, <1>6
<1> QED
  BY <1>7, <1>8 DEF n

(* The next message waits for its reader.                                    *)
LEMMA KeepUnread ==
    ASSUME NEW c \in Call, NEW d, Order(c.reads, c.unread), \A m \in Taken(c) : m <= c.received,
           c.received + 1 \in 1..MaxRequests,
           d.reads = c.reads, d.unread = Append(c.unread, c.received + 1)
    PROVE  Order(d.reads, d.unread) /\ Taken(d) = Taken(c) \cup {c.received + 1}
<1> DEFINE u == c.unread
           m == c.received + 1
           v == Append(u, m)
           n == Len(u) + 1
<1>1. u \in Seq(1..MaxRequests)
  BY CallFields
<1>2. /\ DOMAIN u = 1..Len(u) /\ DOMAIN v = 1..n /\ Len(u) \in Nat
      /\ \A k \in 1..Len(u) : v[k] = u[k]
      /\ v[n] = m
  BY <1>1, AppendProperties
<1>3. (\A j \in DOMAIN c.reads : c.reads[j].msg < m) /\ (\A k \in DOMAIN u : u[k] < m)
  BY YoungerThan
<1> HIDE DEF u, v, m
<1>4. \A k \in DOMAIN v : k \in DOMAIN u \/ k = n
  BY <1>2
<1>5. \A j, k \in DOMAIN v : j < k => v[j] < v[k]
  BY <1>2, <1>3, <1>4 DEF Order, u
<1>6. \A j \in DOMAIN c.reads, k \in DOMAIN v : c.reads[j].msg < v[k]
  BY <1>2, <1>3, <1>4 DEF Order, u
<1>7. Order(c.reads, v)
  BY <1>5, <1>6 DEF Order
<1>8. Elems(v) = Elems(u) \cup {m}
  <2>1. \A x \in Elems(v) : x \in Elems(u) \cup {m}
    BY <1>2, <1>4 DEF Elems
  <2>2. \A k \in DOMAIN u : k \in DOMAIN v /\ v[k] = u[k]
    BY <1>2
  <2>3. \A x \in Elems(u) : x \in Elems(v)
    BY Zenon, <2>2 DEF Elems
  <2>4. n \in DOMAIN v
    BY <1>2
  <2>5. m \in Elems(v)
    BY ZenonT(30), <1>2, <2>4 DEF Elems
  <2> QED
    BY <2>1, <2>3, <2>5
<1> QED
  BY Zenon, <1>7, <1>8, TakenIs DEF u, v, m

(* A message arrives at a call that kept all before it, or is late.          *)
LEMMA ArriveTracked ==
    ASSUME NEW c, Tracked(c), NEW d \in Call, Writes(c, d), c.peer # "idle",
           d.garbled = c.garbled, d.read_finished = c.read_finished, d.peer = c.peer,
           d.timer = c.timer, d.received = c.received + 1,
           Taken(d) = Taken(c) \cup {c.received + 1}, Order(d.reads, d.unread),
           Full(c) \/ Late(c),
           d.read_cb => d.unread = <<>> /\ d.dispatched /\ d.form \in Streaming,
           c.dispatched => d.dispatched, d.form = "serverStreaming" => d.dispatched
    PROVE  Tracked(d)
<1>1. c \in Call /\ Reading(c) /\ \A m \in Taken(c) : m <= c.received
  BY DEF Tracked, Reading
<1>2. Book(d)
  BY WritesBook DEF Tracked
<1>3. Late(c) <=> Late(d)
  BY DEF Late, Writes
<1>4. \A m \in Taken(d) : m <= d.received
  <2>1. c.received \in 0..MaxRequests
    BY Zenon, <1>1, CallFields
  <2>2. \A m \in Taken(c) : m \in 1..MaxRequests
    BY Zenon, <1>1, TakenRange
  <2>3. \A m \in Taken(c) : m <= c.received + 1
    BY Zenon, <1>1, <2>1, <2>2, StillBelow
  <2>4. c.received + 1 <= c.received + 1
    BY <2>1
  <2> QED
    BY Zenon, <2>3, <2>4
<1>5. Full(c) => Full(d) /\ NoGap(Taken(d))
  BY ZenonT(30), <1>1, NextTaken
<1>6. d.form \notin Streaming => Full(c)
  BY <1>1 DEF Reading, Writes
<1>7. Reading(d)
  BY <1>1, <1>3, <1>4, <1>5, <1>6 DEF Reading, Writes
<1>8. Whole(d)
  BY <1>3, <1>5 DEF Whole
<1> QED
  BY <1>2, <1>7, <1>8 DEF Tracked

(* A message arrives and is given up.                                        *)
LEMMA MissedReading ==
    ASSUME NEW c, Tracked(c), NEW d \in Call, d.received = c.received + 1, c.peer # "idle",
           Writes(c, d), d.reads = c.reads, d.unread = c.unread, d.dispatched = c.dispatched,
           d.garbled = c.garbled, d.read_finished = c.read_finished, d.peer = c.peer,
           d.timer = c.timer, d.read_cb = c.read_cb,
           c.form \in Streaming, c.form = "serverStreaming" => c.dispatched
    PROVE  Book(d) /\ Reading(d)
<1>1. c \in Call /\ Reading(c)
  BY DEF Tracked
<1>2. Taken(d) = Taken(c)
  BY DEF Taken
<1>3. \A m \in Taken(d) : m <= d.received
  <2>0. c.received \in 0..MaxRequests /\ \A m \in Taken(c) : m \in 1..MaxRequests
    BY Zenon, <1>1, CallFields, TakenRange
  <2>1. \A m \in Taken(c) : m <= c.received
    BY Zenon, <1>1 DEF Reading
  <2>2. \A m \in Taken(c) : m <= c.received + 1
    BY Zenon, <2>0, <2>1, StillBelow
  <2> QED
    BY Zenon, <1>2, <2>2
<1>4. Late(c) => Late(d)
  BY DEF Late, Writes
<1>5. Reading(d)
  BY <1>1, <1>2, <1>3, <1>4 DEF Reading, Writes
<1> QED
  BY <1>5, WritesBook DEF Tracked

(* A message arrives: it is read, kept, given up or too many.                *)
LEMMA OnDataTracked ==
    ASSUME Tracked(call), OnData
    PROVE  Tracked(call')
<1> DEFINE m == call.received + 1
           b == [call EXCEPT !.received = m]
           g == [b EXCEPT !.read_cb = FALSE]
           e == Event("Ok", FALSE, m)
           a == [b EXCEPT !.unread = Append(@, m)]
           s == [b EXCEPT !.dispatched = TRUE, !.unread = <<m>>]
<1>1. /\ call \in Call /\ call.peer = "open" /\ call.place = "open" /\ ~call.garbled
      /\ call' = OnMessage(b, m) /\ call.unread \in Seq(1..MaxRequests)
      /\ call.reads \in Seq(ReadEvent)
  BY CallFields DEF Tracked, OnData
<1>2. m \in 1..MaxRequests /\ m \in 0..MaxRequests /\ call.received \in Nat
  BY SMTT(30), <1>1, CallFields, ConstantsAssumption DEF OnData
<1>3. /\ Reading(call) /\ Whole(call) /\ Order(call.reads, call.unread)
      /\ \A x \in Taken(call) : x <= call.received
  BY DEF Tracked, Reading
<1> HIDE DEF m
<1>4. b \in Call
  BY ZenonT(30), <1>1, <1>2 DEF Call
<1>5. /\ Writes(call, b) /\ b.received = m /\ b.reads = call.reads /\ b.unread = call.unread
      /\ b.dispatched = call.dispatched /\ b.garbled = call.garbled
      /\ b.read_finished = call.read_finished /\ b.peer = call.peer
      /\ b.timer = call.timer /\ b.read_cb = call.read_cb
      /\ b.form = call.form /\ b.place = call.place /\ b.responded = call.responded
  BY <1>1 DEF Call, Writes
<1> HIDE DEF b
<1>6. Append(call.unread, m) \in Seq(1..MaxRequests) /\ <<m>> \in Seq(1..MaxRequests)
  BY <1>1, <1>2, AppendProperties
<1>7. a \in Call
  <2>1. Append(b.unread, m) \in Seq(1..MaxRequests)
    BY <1>5, <1>6
  <2> QED
    BY ZenonT(30), <1>4, <2>1 DEF Call
<1>8. /\ Writes(b, a) /\ a.received = m /\ a.reads = b.reads
      /\ a.unread = Append(call.unread, m) /\ a.dispatched = b.dispatched
      /\ a.garbled = b.garbled /\ a.read_finished = b.read_finished /\ a.peer = b.peer
      /\ a.timer = b.timer /\ a.read_cb = b.read_cb
  BY <1>4, <1>5 DEF Call, Writes
<1> HIDE DEF a
<1>9. ASSUME Full(call) \/ Late(call), ~call.read_cb, call.form # "serverStreaming"
      PROVE  Tracked(a)
  <2>1. Order(a.reads, a.unread) /\ Taken(a) = Taken(call) \cup {call.received + 1}
    BY Zenon, <1>1, <1>2, <1>3, <1>5, <1>8, KeepUnread DEF m
  <2>2. Writes(call, a)
    BY <1>5, <1>8 DEF Writes
  <2>3. a.received = call.received + 1
    BY <1>8 DEF m
  <2> QED
    BY Zenon, <1>1, <1>5, <1>7, <1>8, <1>9, <2>1, <2>2, <2>3, ArriveTracked DEF Writes
<1>10. call.form \in ClientStreams /\ ~call.read_finished => Full(call) \/ Late(call)
  BY <1>1, <1>3 DEF Whole
<1>11. call.form \in Streaming /\ (call.form = "serverStreaming" => call.dispatched)
          => Book(b) /\ Reading(b)
  BY <1>1, <1>4, <1>5, MissedReading DEF m
<1>12. CASE call.form \in {"unary", "unknown"}
  <2>1. call' = a
    BY <1>1, <1>5, <1>12 DEF OnMessage, a
  <2>2. Full(call) /\ ~call.read_cb
    BY <1>3, <1>12 DEF Reading, Streaming
  <2> QED
    BY <1>9, <1>12, <2>1, <2>2
<1>13. CASE call.form \in ClientStreams
  <2>1. call' = DeliverRead(b, m) /\ call.form \in Streaming /\ call.form # "serverStreaming"
    BY <1>1, <1>5, <1>13 DEF OnMessage, ClientStreams, Streaming
  <2>2. Book(b) /\ Reading(b)
    BY <1>11, <2>1
  <2>3. CASE call.read_finished
    <3>1. Whole(b)
      BY <1>5, <2>3 DEF Whole
    <3>2. call' = b
      BY <1>5, <2>1, <2>3 DEF DeliverRead
    <3> QED
      BY <1>4, <2>2, <3>1, <3>2 DEF Tracked
  <2>4. CASE ~call.read_finished /\ call.read_cb
    <3> DEFINE r == Append(call.reads, e)
               d == [g EXCEPT !.reads = r]
    <3>1. e \in ReadEvent /\ e.msg = m
      <4>1. e \in ReadEvent
        BY ZenonT(30), <1>2, EventType DEF Status
      <4> QED
        BY <4>1 DEF Event
    <3>2. g \in Call /\ g.reads = call.reads
      BY ZenonT(30), <1>4, <1>5 DEF Call
    <3>3. call' = d
      BY Zenon, <1>5, <2>1, <2>4, <3>2 DEF DeliverRead, Give
    <3> HIDE DEF e
    <3>4. r \in Seq(ReadEvent)
      BY <1>1, <3>1, AppendProperties
    <3>5. d \in Call
      <4> HIDE DEF g, r
      <4> QED
        BY ZenonT(30), <3>2, <3>4 DEF Call
    <3>6. /\ Writes(b, d) /\ d.received = m /\ d.reads = r /\ d.unread = b.unread
          /\ d.dispatched = b.dispatched /\ d.garbled = b.garbled
          /\ d.read_finished = b.read_finished /\ d.peer = b.peer
          /\ d.timer = b.timer /\ d.read_cb = FALSE
      BY <1>4, <1>5 DEF Call, Writes
    <3> HIDE DEF d, r
    <3>7. call.unread = <<>> /\ DOMAIN call.unread = {}
      BY <1>3, <2>4 DEF Reading
    <3>8. Order(r, call.unread)
      <4>1. \A j \in DOMAIN call.reads : call.reads[j].msg < m
        BY <1>1, <1>3, YoungerThan DEF m
      <4> QED
        BY <1>1, <1>3, <3>1, <3>7, <4>1, OrderRead DEF r
    <3>9. Taken(d) = Taken(call) \cup {m}
      <4>1. Got(r) = Got(call.reads) \cup {m}
        <5>1. e.msg # 0
          BY <1>2, <3>1
        <5> QED
          BY <1>1, <3>1, <5>1, GotRead DEF r
      <4> QED
        BY <1>5, <3>6, <4>1, TakenIs
    <3>10. Writes(call, d)
      BY <1>5, <3>6 DEF Writes
    <3>11. d.received = call.received + 1 /\ Taken(d) = Taken(call) \cup {call.received + 1}
      BY <3>6, <3>9 DEF m
    <3>12. Order(d.reads, d.unread) /\ (Full(call) \/ Late(call))
      BY <1>5, <1>10, <1>13, <2>4, <3>6, <3>8
    <3> QED
      BY ZenonT(30), <1>1, <1>5, <2>1, <3>3, <3>5, <3>6, <3>10, <3>11, <3>12, ArriveTracked DEF Writes
  <2>5. CASE ~call.read_finished /\ ~call.read_cb
    <3>1. call' = FinishStream(b, "ResourceExhausted") \/ call' = a
      BY <1>5, <2>1, <2>5 DEF DeliverRead, a
    <3>2. Tracked(a)
      BY <1>9, <1>10, <1>13, <2>1, <2>5
    <3>3. b.place # "open" \/ b.responded => Whole(b)
      BY <1>1, <1>3, <1>5, <1>13, <2>5 DEF Reading, Whole, Late
    <3>4. Tracked(FinishStream(b, "ResourceExhausted"))
      BY <1>4, <2>2, <3>3, FinishStreamTracked DEF Status
    <3> QED
      BY <3>1, <3>2, <3>4
  <2> QED
    BY <2>3, <2>4, <2>5
<1>14. CASE call.form = "serverStreaming" /\ call.dispatched
  <2>1. call' = FinishStream(b, "Internal")
    BY <1>1, <1>5, <1>14 DEF OnMessage
  <2>2. Book(b) /\ Reading(b)
    BY <1>11, <1>14 DEF Streaming
  <2>3. Whole(b)
    BY <1>5, <1>14 DEF Whole, ClientStreams
  <2> QED
    BY <1>4, <2>1, <2>2, <2>3, FinishStreamTracked DEF Status
<1>15. CASE call.form = "serverStreaming" /\ ~call.dispatched
  <2>1. call' = s
    BY <1>1, <1>5, <1>15 DEF OnMessage
  <2>2. call.received = 0 /\ ~call.read_cb /\ Taken(call) = {}
    <3>1. call.received = 0 /\ ~call.read_cb
      BY <1>3, <1>15 DEF Reading
    <3>2. \A x \in Taken(call) : x \in 1..MaxRequests /\ x <= 0
      BY <1>1, <1>3, <3>1, TakenRange
    <3>3. \A x \in Taken(call) : FALSE
      BY <3>2
    <3> QED
      BY <3>1, <3>3
  <2>3. s \in Call
    BY ZenonT(30), <1>4, <1>6 DEF Call
  <2>4. /\ Writes(b, s) /\ s.received = m /\ s.reads = b.reads /\ s.unread = <<m>>
        /\ s.dispatched = TRUE /\ s.garbled = b.garbled
        /\ s.read_finished = b.read_finished /\ s.peer = b.peer
        /\ s.timer = b.timer /\ s.read_cb = b.read_cb
    BY <1>4, <1>5 DEF Call, Writes
  <2> HIDE DEF s
  <2>5. Elems(<<m>>) = {m}
    BY DEF Elems
  <2>6. Taken(s) = Taken(call) \cup {m}
    <3>1. Elems(call.unread) = {} /\ Got(call.reads) = {}
      BY <2>2, TakenIs
    <3> QED
      BY <1>5, <2>2, <2>4, <2>5, <3>1, TakenIs
  <2>7. Order(s.reads, s.unread)
    <3>1. \A j \in DOMAIN call.reads : call.reads[j].msg < m
      BY <1>1, <1>3, YoungerThan DEF m
    <3>2. DOMAIN <<m>> = {1} /\ <<m>>[1] = m
      OBVIOUS
    <3>3. Order(call.reads, <<m>>)
      BY <1>3, <3>1, <3>2 DEF Order
    <3> QED
      BY <1>5, <2>4, <3>3
  <2>8. Full(call)
    BY <2>2 DEF Full
  <2>9. Writes(call, s)
    BY <1>5, <2>4 DEF Writes
  <2>10. s.received = call.received + 1 /\ Taken(s) = Taken(call) \cup {call.received + 1}
    BY <2>4, <2>6 DEF m
  <2> QED
    BY <1>1, <1>5, <2>1, <2>2, <2>3, <2>4, <2>7, <2>8, <2>9, <2>10, ArriveTracked
<1>16. call.form \in AllForms
  BY <1>1 DEF Call
<1> QED
  BY <1>12, <1>13, <1>14, <1>15, <1>16 DEF AllForms, Streaming, ClientStreams

(* The end of the request                                                    *)

(* A read that finds no message: only the reader's state and its callback    *)
(* change.                                                                   *)
LEMMA GivenTracked ==
    ASSUME NEW c, Tracked(c), NEW d \in Call, Writes(c, d), Extends(c.reads, d.reads),
           d.garbled = c.garbled, d.dispatched = c.dispatched, d.received = c.received,
           d.unread = c.unread, d.peer = c.peer, d.timer = c.timer,
           c.read_finished => d.read_finished, d.read_cb => c.read_cb
    PROVE  Tracked(d)
<1>1. Ends(c, d) /\ d.responded = c.responded
  BY DEF Ends, Writes
<1> QED
  BY <1>1, EndsTracked

(* The first unread message is read.                                         *)
LEMMA MovedTracked ==
    ASSUME NEW c, Tracked(c), NEW d \in Call, Writes(c, d), c.unread # <<>>,
           NEW e \in ReadEvent, e.msg = Head(c.unread),
           d.reads = Append(c.reads, e), d.unread = Tail(c.unread),
           d.garbled = c.garbled, c.dispatched => d.dispatched, d.received = c.received,
           d.peer = c.peer, d.timer = c.timer, d.read_cb = c.read_cb,
           d.read_finished = c.read_finished
    PROVE  Tracked(d)
<1>1. c \in Call /\ Reading(c) /\ Whole(c) /\ Order(c.reads, c.unread)
  BY DEF Tracked, Reading
<1>2. Taken(d) = Taken(c) /\ Order(d.reads, d.unread)
  BY ZenonT(30), <1>1, MoveFirst
<1>3. Late(c) <=> Late(d)
  BY DEF Late, Writes
<1>4. Full(c) <=> Full(d)
  BY <1>2 DEF Full
<1>5. ~d.read_cb
  BY <1>1 DEF Reading
<1>6. Reading(d)
  BY <1>1, <1>2, <1>3, <1>4, <1>5 DEF Reading, Writes
<1>7. Whole(d)
  BY <1>1, <1>3, <1>4 DEF Whole, Writes
<1> QED
  BY <1>6, <1>7, WritesBook DEF Tracked

(* The event without a message that a reader is given.                       *)
LEMMA EmptyEvent ==
    ASSUME NEW st \in Status, NEW eos \in BOOLEAN, NEW r \in Seq(ReadEvent), NEW s,
           s = Append(r, Event(st, eos, 0))
    PROVE  s \in Seq(ReadEvent) /\ Extends(r, s)
<1>1. Event(st, eos, 0) \in ReadEvent /\ Event(st, eos, 0).msg = 0
  <2>1. 0 \in 0..MaxRequests
    BY ConstantsAssumption
  <2>2. Event(st, eos, 0) \in ReadEvent
    BY <2>1, EventType
  <2> QED
    BY <2>2 DEF Event
<1> QED
  BY <1>1, AppendProperties DEF Extends

(* The reader is told of the end.                                            *)
LEMMA DeliverEosTracked ==
    ASSUME NEW c, Tracked(c)
    PROVE  Tracked(DeliverEos(c))
<1> DEFINE e == Event("Ok", TRUE, 0)
           r == IF c.read_cb THEN Append(c.reads, e) ELSE c.reads
           d == [c EXCEPT !.read_finished = TRUE, !.read_cb = FALSE, !.reads = r]
<1>1. c \in Call /\ c.reads \in Seq(ReadEvent)
  BY CallFields DEF Tracked
<1>2. CASE c.read_finished
  BY <1>2 DEF DeliverEos
<1>3. CASE ~c.read_finished
  <2>1. DeliverEos(c) = d
    BY Zenon, <1>1, <1>3 DEF DeliverEos, Give, Call
  <2>2. r \in Seq(ReadEvent) /\ Extends(c.reads, r)
    <3>1. CASE c.read_cb
      BY ZenonT(30), <1>1, <3>1, EmptyEvent DEF Status
    <3>2. CASE ~c.read_cb
      BY <1>1, <3>2 DEF Extends
    <3> QED
      BY Zenon, <3>1, <3>2
  <2> HIDE DEF r
  <2>3. d \in Call
    BY ZenonT(30), <1>1, <2>2 DEF Call
  <2>4. /\ Writes(c, d) /\ d.reads = r /\ d.garbled = c.garbled
        /\ d.dispatched = c.dispatched /\ d.received = c.received
        /\ d.unread = c.unread /\ d.peer = c.peer /\ d.timer = c.timer
        /\ d.read_finished /\ ~d.read_cb
    BY <1>1 DEF Call, Writes
  <2> HIDE DEF d
  <2>5. Tracked(d)
    BY <2>2, <2>3, <2>4, GivenTracked
  <2> QED
    BY <2>1, <2>5
<1> QED
  BY <1>2, <1>3

(* END_STREAM of an open call; a unary handler gets its message.             *)
LEMMA FinishRequestTracked ==
    ASSUME NEW c, Tracked(c), c.place = "open"
    PROVE  Tracked(FinishRequest(c))
<1> DEFINE d == [c EXCEPT !.request_done = TRUE]
           s == [d EXCEPT !.request_half_closed = TRUE]
           e == Event("Ok", FALSE, Head(c.unread))
           r == Append(c.reads, e)
           g == [d EXCEPT !.dispatched = TRUE, !.unread = Tail(@), !.reads = r]
<1>1. c \in Call /\ c.reads \in Seq(ReadEvent) /\ c.unread \in Seq(1..MaxRequests)
  BY CallFields DEF Tracked
<1>2. d \in Call /\ s \in Call
  BY Zenon, <1>1 DEF Call
<1>3. Reads(c, d) /\ Writes(c, d) /\ d.unread = c.unread /\ d.reads = c.reads
  BY <1>1 DEF Call, Reads, Writes
<1>4. Reads(d, s) /\ Writes(d, s)
  BY <1>2 DEF Call, Reads, Writes
<1> HIDE DEF d
<1>5. Tracked(d)
  BY <1>2, <1>3, ReadsReading, WritesBook DEF Tracked
<1> HIDE DEF s
<1>6. Tracked(s)
  BY <1>2, <1>4, <1>5, ReadsReading, WritesBook DEF Tracked
<1>7. d.form = c.form /\ s.form = c.form
  BY <1>3, <1>4 DEF Reads
<1>8. CASE c.form \in {"unary", "unknown"} /\ (c.form = "unary" => c.unread = <<>>)
  <2>1. FinishRequest(c) = TrailersOnly(d, "Unimplemented")
        \/ FinishRequest(c) = TrailersOnly(d, "Internal")
    BY Zenon, <1>8 DEF FinishRequest, d
  <2> QED
    BY <1>5, <1>7, <1>8, <2>1, TrailersOnlyTracked DEF ClientStreams, Status
<1>9. CASE c.form = "unary" /\ c.unread # <<>>
  <2>1. FinishRequest(c) = Give([d EXCEPT !.dispatched = TRUE, !.unread = Tail(@)], e)
    BY <1>9 DEF FinishRequest, d
  <2>2. FinishRequest(c) = g
    BY Zenon, <1>2, <1>3, <2>1 DEF Give, Call
  <2>3. Head(c.unread) \in 1..MaxRequests /\ Tail(c.unread) \in Seq(1..MaxRequests)
    BY Zenon, <1>1, <1>9, SeqSplit
  <2>4. Head(c.unread) \in 0..MaxRequests
    BY <2>3
  <2>5. e \in ReadEvent /\ e.msg = Head(c.unread)
    <3>1. e \in ReadEvent
      BY ZenonT(30), <2>4, EventType DEF Status
    <3> QED
      BY <3>1 DEF Event
  <2> HIDE DEF e
  <2>6. r \in Seq(ReadEvent)
    BY <1>1, <2>5, AppendProperties
  <2>7. g \in Call
    <3>1. Tail(d.unread) \in Seq(1..MaxRequests)
      BY <1>3, <2>3
    <3> HIDE DEF r
    <3> QED
      BY ZenonT(30), <1>2, <2>6, <3>1 DEF Call
  <2>8. /\ Writes(d, g) /\ g.reads = r /\ g.unread = Tail(d.unread)
        /\ g.garbled = d.garbled /\ g.dispatched /\ g.received = d.received
        /\ g.peer = d.peer /\ g.timer = d.timer /\ g.read_cb = d.read_cb
        /\ g.read_finished = d.read_finished
    BY Zenon, <1>2 DEF Call, Writes
  <2> HIDE DEF g
  <2>9. Tracked(g)
    BY <1>3, <1>5, <1>9, <2>5, <2>7, <2>8, MovedTracked
  <2> QED
    BY <2>2, <2>9
<1>10. CASE c.form \in Streaming
  <2>1. \/ FinishRequest(c) = TrailersOnly(s, "Internal") /\ ~c.dispatched
        \/ FinishRequest(c) = DeliverEos(s)
    BY Zenon, <1>10 DEF FinishRequest, d, s, Streaming
  <2>2. ~c.dispatched => s.form \notin ClientStreams
    BY <1>7 DEF Tracked, Reading
  <2>3. ~c.dispatched => Tracked(TrailersOnly(s, "Internal"))
    BY <1>6, <2>2, TrailersOnlyTracked DEF Status
  <2>4. Tracked(DeliverEos(s))
    BY <1>6, DeliverEosTracked
  <2> QED
    BY <2>1, <2>3, <2>4
<1>11. c.form \in AllForms
  BY <1>1 DEF Call
<1> QED
  BY <1>8, <1>9, <1>10, <1>11 DEF AllForms

(* END_STREAM.                                                               *)
LEMMA RecvEndTracked ==
    ASSUME Tracked(call), RecvEnd
    PROVE  Tracked(call')
<1> DEFINE c == IF call.place = "open" THEN FinishRequest(call) ELSE call
           d == [c EXCEPT !.peer = "ended"]
<1>1. Tracked(c)
  BY FinishRequestTracked
<1>2. call' = Settle(d)
  BY DEF RecvEnd
<1> HIDE DEF c
<1>3. c \in Call
  BY <1>1 DEF Tracked
<1>4. d \in Call
  BY Zenon, <1>3 DEF Call
<1>5. /\ Fixed(c, d) /\ d.reads = c.reads /\ d.read_cb = c.read_cb
      /\ d.read_finished = c.read_finished /\ d.out_queue = c.out_queue
      /\ d.answers = c.answers /\ d.place = c.place /\ d.peer = "ended"
      /\ d.timer = c.timer
  BY <1>3 DEF Call, Fixed
<1> HIDE DEF d
<1>6. Ends(c, d) /\ d.responded = c.responded
  BY <1>4, <1>5 DEF Ends, Fixed, Extends
<1> QED
  BY <1>1, <1>2, <1>6, EndsTracked, SettleTracked

(* A read finds a message, the end, another read, or waits.                  *)
LEMMA ReadMessageTracked ==
    ASSUME Tracked(call), StartInv(call), ReadMessage
    PROVE  Tracked(call')
<1> DEFINE b == call.request_half_closed
           h == Event("Ok", FALSE, Head(call.unread))
           m == [call EXCEPT !.unread = Tail(@), !.reads = Append(call.reads, h)]
           w == [call EXCEPT !.read_cb = TRUE]
           u == Append(call.reads, Event("Unavailable", b, 0))
           o == Append(call.reads, Event("Ok", TRUE, 0))
           i == Append(call.reads, Event("Internal", FALSE, 0))
           du == [call EXCEPT !.reads = u]
           do == [call EXCEPT !.read_finished = TRUE, !.reads = o]
           di == [call EXCEPT !.reads = i]
<1>1. /\ call \in Call /\ call.reads \in Seq(ReadEvent) /\ b \in BOOLEAN
      /\ call.unread \in Seq(1..MaxRequests)
      /\ call.form \in Streaming /\ call.dispatched /\ call.place = "open"
  BY CallFields DEF Tracked, ReadMessage, Handling, Call
<1>2. \/ call' = du \/ call' = do \/ call' = di
      \/ call.unread # <<>> /\ call' = m
      \/ call.unread = <<>> /\ call' = w
  BY <1>1 DEF ReadMessage, Give, Call
<1>3. /\ u \in Seq(ReadEvent) /\ Extends(call.reads, u)
      /\ o \in Seq(ReadEvent) /\ Extends(call.reads, o)
      /\ i \in Seq(ReadEvent) /\ Extends(call.reads, i)
  BY ZenonT(30), <1>1, EmptyEvent DEF Status
<1> HIDE DEF u, o, i
<1>4. CASE call' = du
  <2>1. du \in Call
    BY ZenonT(30), <1>1, <1>3 DEF Call
  <2>2. /\ Writes(call, du) /\ du.reads = u /\ du.garbled = call.garbled
        /\ du.dispatched = call.dispatched /\ du.received = call.received
        /\ du.unread = call.unread /\ du.peer = call.peer /\ du.timer = call.timer
        /\ du.read_finished = call.read_finished /\ du.read_cb = call.read_cb
    BY Zenon, <1>1 DEF Call, Writes
  <2> HIDE DEF du
  <2>3. Tracked(du)
    BY <1>3, <2>1, <2>2, GivenTracked
  <2> QED
    BY <1>4, <2>3
<1>5. CASE call' = do
  <2>1. do \in Call
    BY ZenonT(30), <1>1, <1>3 DEF Call
  <2>2. /\ Writes(call, do) /\ do.reads = o /\ do.garbled = call.garbled
        /\ do.dispatched = call.dispatched /\ do.received = call.received
        /\ do.unread = call.unread /\ do.peer = call.peer /\ do.timer = call.timer
        /\ do.read_finished /\ do.read_cb = call.read_cb
    BY Zenon, <1>1 DEF Call, Writes
  <2> HIDE DEF do
  <2>3. Tracked(do)
    BY <1>3, <2>1, <2>2, GivenTracked
  <2> QED
    BY <1>5, <2>3
<1>6. CASE call' = di
  <2>1. di \in Call
    BY ZenonT(30), <1>1, <1>3 DEF Call
  <2>2. /\ Writes(call, di) /\ di.reads = i /\ di.garbled = call.garbled
        /\ di.dispatched = call.dispatched /\ di.received = call.received
        /\ di.unread = call.unread /\ di.peer = call.peer /\ di.timer = call.timer
        /\ di.read_finished = call.read_finished /\ di.read_cb = call.read_cb
    BY Zenon, <1>1 DEF Call, Writes
  <2> HIDE DEF di
  <2>3. Tracked(di)
    BY <1>3, <2>1, <2>2, GivenTracked
  <2> QED
    BY <1>6, <2>3
<1>7. CASE call.unread # <<>> /\ call' = m
  <2>1. Head(call.unread) \in 1..MaxRequests /\ Tail(call.unread) \in Seq(1..MaxRequests)
    BY Zenon, <1>1, <1>7, SeqSplit
  <2>2. Head(call.unread) \in 0..MaxRequests
    BY <2>1
  <2>3. h \in ReadEvent /\ h.msg = Head(call.unread)
    <3>1. h \in ReadEvent
      BY ZenonT(30), <2>2, EventType DEF Status
    <3> QED
      BY <3>1 DEF Event
  <2> HIDE DEF h
  <2>4. Append(call.reads, h) \in Seq(ReadEvent)
    BY <1>1, <2>3, AppendProperties
  <2>5. m \in Call
    BY ZenonT(30), <1>1, <2>1, <2>4 DEF Call
  <2>6. /\ Writes(call, m) /\ m.reads = Append(call.reads, h) /\ m.unread = Tail(call.unread)
        /\ m.garbled = call.garbled /\ m.dispatched = call.dispatched
        /\ m.received = call.received /\ m.peer = call.peer /\ m.timer = call.timer
        /\ m.read_cb = call.read_cb /\ m.read_finished = call.read_finished
    BY Zenon, <1>1 DEF Call, Writes
  <2> HIDE DEF m
  <2>7. Tracked(m)
    BY <1>7, <2>3, <2>5, <2>6, MovedTracked
  <2> QED
    BY <1>7, <2>7
<1>8. CASE call.unread = <<>> /\ call' = w
  <2>1. w \in Call
    BY Zenon, <1>1 DEF Call
  <2>2. /\ Writes(call, w) /\ w.reads = call.reads /\ w.unread = call.unread
        /\ w.garbled = call.garbled /\ w.dispatched = call.dispatched
        /\ w.received = call.received /\ w.peer = call.peer /\ w.timer = call.timer
        /\ w.read_cb = TRUE /\ w.read_finished = call.read_finished
    BY ZenonT(30), <1>1 DEF Call, Writes
  <2> HIDE DEF w
  <2>3. Taken(w) = Taken(call) /\ (Late(call) <=> Late(w))
    BY <2>2 DEF Taken, Late, Writes
  <2>4. Full(call) <=> Full(w)
    BY <2>2, <2>3 DEF Full
  <2>5. Reading(call) /\ Whole(call)
    BY DEF Tracked
  <2>6. call.peer # "idle"
    BY <1>1 DEF StartInv
  <2>7. Reading(w)
    BY ZenonT(30), <1>1, <1>8, <2>2, <2>3, <2>4, <2>5, <2>6 DEF Reading, Writes
  <2>8. Whole(w)
    BY <2>2, <2>3, <2>4, <2>5 DEF Whole, Writes
  <2>9. Tracked(w)
    BY <2>1, <2>2, <2>7, <2>8, WritesBook DEF Tracked
  <2> QED
    BY <1>8, <2>9
<1> QED
  BY <1>2, <1>4, <1>5, <1>6, <1>7, <1>8

-----------------------------------------------------------------------------
(* The other steps                                                           *)

(* The call is opened; nothing was received or written before.               *)
LEMMA HeadersTracked ==
    ASSUME Tracked(call), StartInv(call), NEW deadline \in BOOLEAN, OnHeadersComplete(deadline)
    PROVE  Tracked(call')
<1> DEFINE t == IF deadline THEN "armed" ELSE "off"
           g == call.form \in ClientStreams
           d == [call EXCEPT !.place = "open", !.peer = "open", !.timer = t, !.dispatched = g]
<1>1. call \in Call /\ call.peer = "idle" /\ call' = d
  BY DEF Tracked, OnHeadersComplete, ClientStreams
<1>2. t \in {"off", "armed", "fired"} /\ g \in BOOLEAN
  OBVIOUS
<1> HIDE DEF t, g
<1>3. d \in Call
  BY ZenonT(30), <1>1, <1>2 DEF Call
<1>4. /\ d.form = call.form /\ d.wire = call.wire /\ d.out_queue = call.out_queue
      /\ d.out_inflight = call.out_inflight /\ d.written = call.written
      /\ d.answers = call.answers /\ d.responded = call.responded
      /\ d.write_closed = call.write_closed /\ d.garbled = call.garbled
      /\ d.received = call.received /\ d.unread = call.unread /\ d.reads = call.reads
      /\ d.read_cb = call.read_cb /\ d.read_finished = call.read_finished
      /\ d.place = "open" /\ d.peer = "open" /\ d.timer = t /\ d.dispatched = g
  BY <1>1 DEF Call
<1> HIDE DEF d
<1>5. Taken(d) = Taken(call) /\ Sent(d) = Sent(call) /\ Held(d) = Held(call)
  BY <1>4 DEF Taken, Sent, Held
<1>6. Book(call) /\ Reading(call) /\ ~call.responded /\ call.received = 0 /\ ~call.read_cb
  BY <1>1 DEF Tracked, Reading, StartInv
<1>7. ~Late(call) /\ ~Late(d) /\ ~d.responded
  BY <1>4, <1>6 DEF Late
<1>8. Full(d)
  BY <1>4, <1>6 DEF Full
<1>9. Reading(d)
  BY Zenon, <1>4, <1>5, <1>6, <1>7, <1>8 DEF Reading, g
<1>10. Taken(d) = {} /\ Whole(d)
  <2>1. \A m \in Taken(call) : m \in 1..MaxRequests /\ m <= 0
    BY <1>1, <1>6, TakenRange DEF Reading
  <2>2. \A m \in Taken(call) : FALSE
    BY <2>1
  <2> QED
    BY <1>5, <1>8, <2>2 DEF Whole
<1>11. Book(d)
  <2>1. Writable(d) => Writable(call)
    BY <1>1, <1>4 DEF StartInv, Writable
  <2> QED
    BY ZenonT(30), <1>4, <1>5, <1>6, <2>1 DEF Book
<1> QED
  BY <1>1, <1>3, <1>9, <1>10, <1>11 DEF Tracked

(* Headers that are refused without a Call.                                  *)
LEMMA BadHeadersTracked ==
    ASSUME Tracked(call), BadHeaders
    PROVE  Tracked(call')
<1> DEFINE d == [call EXCEPT !.peer = "open"]
<1>1. call \in Call /\ call' = End(d, "trailersOnly", "Internal")
  BY DEF Tracked, BadHeaders, SendTrailersOnly
<1>2. d \in Call
  BY Zenon, <1>1 DEF Call
<1>3. /\ Fixed(call, d) /\ d.reads = call.reads /\ d.read_cb = call.read_cb
      /\ d.read_finished = call.read_finished /\ d.out_queue = call.out_queue
      /\ d.answers = call.answers /\ d.place = call.place /\ d.peer = "open"
      /\ d.timer = call.timer
  BY <1>1 DEF Call, Fixed
<1> HIDE DEF d
<1>4. Ends(call, d) /\ d.responded = call.responded
  BY <1>2, <1>3 DEF Ends, Fixed, Extends
<1> QED
  BY <1>1, <1>4, EndsTracked, EndTracked DEF Status

(* DATA that cannot be decoded: nothing is kept from here on.                *)
LEMMA OnBadDataTracked ==
    ASSUME Tracked(call), NEW st, OnBadData(st)
    PROVE  Tracked(call')
<1> DEFINE d == [call EXCEPT !.garbled = TRUE]
<1>1. call \in Call /\ call' = RespondError(d, st)
  BY DEF Tracked, OnBadData
<1>2. d \in Call
  BY ZenonT(30), <1>1 DEF Call
<1>3. /\ Writes(call, d) /\ d.dispatched = call.dispatched /\ d.garbled
      /\ d.received = call.received /\ d.unread = call.unread /\ d.reads = call.reads
      /\ d.read_cb = call.read_cb /\ d.read_finished = call.read_finished
      /\ d.peer = call.peer /\ d.timer = call.timer
  BY <1>1 DEF Call, Writes
<1> HIDE DEF d
<1>4. Taken(d) = Taken(call) /\ (Late(call) <=> Late(d))
  BY <1>3 DEF Taken, Late, Writes
<1>5. Full(call) <=> Full(d)
  BY <1>3, <1>4 DEF Full
<1>6. Reading(d) /\ Whole(d)
  BY <1>3, <1>4, <1>5 DEF Tracked, Reading, Whole, Writes
<1>7. Tracked(d)
  BY <1>2, <1>3, <1>6, WritesBook DEF Tracked
<1> QED
  BY <1>1, <1>3, <1>7, RespondErrorTracked

(* RST_STREAM.                                                               *)
LEMMA RecvResetTracked ==
    ASSUME Tracked(call), RecvReset
    PROVE  Tracked(call')
<1> DEFINE d == [call EXCEPT !.peer = "reset"]
<1>1. call \in Call /\ call' = Close(d)
  BY DEF Tracked, RecvReset
<1>2. d \in Call
  BY Zenon, <1>1 DEF Call
<1>3. /\ Fixed(call, d) /\ d.reads = call.reads /\ d.read_cb = call.read_cb
      /\ d.read_finished = call.read_finished /\ d.out_queue = call.out_queue
      /\ d.answers = call.answers /\ d.place = call.place /\ d.peer = "reset"
      /\ d.timer = call.timer
  BY <1>1 DEF Call, Fixed
<1> HIDE DEF d
<1>4. Ends(call, d) /\ d.responded = call.responded
  BY <1>2, <1>3 DEF Ends, Fixed, Extends
<1> QED
  BY <1>1, <1>4, EndsTracked, SettleTracked

(* The connection is lost.                                                   *)
LEMMA ConnLostTracked ==
    ASSUME Tracked(call), ConnLost
    PROVE  Tracked(call')
<1> DEFINE e == Cancelled(call)
           d == [e EXCEPT !.peer = "lost", !.place = "gone", !.item = 0]
<1>1. call \in Call /\ call' = d
  BY DEF Tracked, ConnLost, Cancelled
<1>2. Dropped(call, e) /\ e \in Call
  BY <1>1, CancelledDrops DEF Dropped
<1> HIDE DEF e
<1>3. d \in Call
  <2>1. 0 \in 0..MaxWrites
    BY ConstantsAssumption
  <2> QED
    BY ZenonT(30), <1>2, <2>1 DEF Call
<1>4. /\ Fixed(e, d) /\ d.place = "gone" /\ d.peer = "lost"
      /\ d.reads = e.reads /\ d.read_cb = e.read_cb /\ d.read_finished = e.read_finished
      /\ d.out_queue = e.out_queue /\ d.answers = e.answers /\ d.timer = e.timer
  BY <1>2 DEF Call, Fixed
<1> HIDE DEF d
<1>5. Ends(call, d) /\ d.responded = call.responded
  BY <1>1, <1>2, <1>3, <1>4, GoneEnds
<1> QED
  BY <1>1, <1>5, EndsTracked

(* The deadline, after which messages may be passed over.                    *)
LEMMA OnDeadlineTracked ==
    ASSUME Tracked(call), OnDeadline
    PROVE  Tracked(call')
<1> DEFINE f == FireCancel(call)
           d == [f EXCEPT !.timer = "fired"]
           r == [d EXCEPT !.responded = TRUE]
<1>1. call \in Call
  BY DEF Tracked
<1>2. /\ f \in Call /\ Fixed(call, f) /\ f.reads = call.reads /\ f.read_cb = call.read_cb
      /\ f.read_finished = call.read_finished /\ f.out_queue = call.out_queue
      /\ f.answers = call.answers /\ f.place = call.place /\ f.peer = call.peer
  <2>1. f \in Call
    BY Zenon, <1>1, FireCancelSame
  <2> QED
    BY <1>1, <2>1 DEF FireCancel, Call, Fixed
<1>3. \/ call' = d
      \/ call' = TrailStream(r, "DeadlineExceeded")
      \/ call.form = "unary" /\ call' = TrailersOnly(d, "Cancelled")
      \/ call' = FinishStream(d, "Cancelled")
  BY DEF OnDeadline
<1> HIDE DEF f
<1>4. d \in Call
  BY ZenonT(30), <1>2 DEF Call
<1>5. /\ Fixed(f, d) /\ d.reads = f.reads /\ d.read_cb = f.read_cb
      /\ d.read_finished = f.read_finished /\ d.out_queue = f.out_queue
      /\ d.answers = f.answers /\ d.place = f.place /\ d.peer = f.peer /\ d.timer = "fired"
  BY <1>2 DEF Call, Fixed
<1> HIDE DEF d
<1>6. Writes(call, d)
  BY <1>2, <1>5 DEF Writes, Fixed
<1>7. /\ d.reads = call.reads /\ d.unread = call.unread /\ d.received = call.received
      /\ d.garbled = call.garbled /\ d.dispatched = call.dispatched
      /\ d.read_cb = call.read_cb /\ d.read_finished = call.read_finished
      /\ d.peer = call.peer
  BY <1>2, <1>5 DEF Fixed
<1>8. Taken(d) = Taken(call) /\ (Late(call) => Late(d))
  <2>1. Taken(d) = Taken(call)
    BY Zenon, <1>7 DEF Taken
  <2>2. Late(call) => Late(d)
    BY Zenon, <1>5, <1>6 DEF Late, Writes
  <2> QED
    BY Zenon, <2>1, <2>2
<1>9. Full(call) <=> Full(d)
  BY <1>7, <1>8 DEF Full
<1>10. Reading(d) /\ Whole(d)
  BY <1>5, <1>6, <1>7, <1>8, <1>9 DEF Tracked, Reading, Whole, Writes
<1>11. Tracked(d)
  BY <1>4, <1>6, <1>10, WritesBook DEF Tracked
<1>12. Tracked(TrailStream(r, "DeadlineExceeded"))
  <2>1. Tracked(r)
    BY <1>5, <1>11, AnsweredTracked
  <2> QED
    BY <2>1, TrailStreamTracked DEF Status
<1>13. call.form = "unary" => Tracked(TrailersOnly(d, "Cancelled"))
  BY <1>6, <1>11, TrailersOnlyTracked DEF Status, ClientStreams, Writes
<1>14. Tracked(FinishStream(d, "Cancelled"))
  BY <1>11, FinishStreamTracked DEF Tracked, Status
<1> QED
  BY <1>3, <1>11, <1>12, <1>13, <1>14

(* The response of a unary handler.                                          *)
LEMMA RespondTracked ==
    ASSUME Tracked(call), CallInv(call), NEW st \in {"Ok", "Internal"},
           NEW blocked \in BOOLEAN, Respond(st, blocked)
    PROVE  Tracked(call')
<1> DEFINE d == StopDeadline([call EXCEPT !.responded = TRUE])
           w == IF blocked THEN <<Headers>> ELSE <<Headers, Data(1)>>
           e == [d EXCEPT !.wire = w]
<1>1. /\ call \in Call /\ call.place = "open" /\ ~call.responded
      /\ call.form \notin Streaming
  BY DEF CallInv, Base, Respond, Handling, Streaming
<1>2. Tracked(d)
  BY <1>1, AnsweredTracked DEF ClientStreams, Streaming
<1>3. d \in Call /\ d.wire = <<>> /\ d.form \notin Streaming
  <2>1. Marked(call, d)
    BY <1>1, MarkType
  <2> QED
    BY Zenon, <1>1, <2>1, MarkedReady DEF CallInv, Marked
<1>4. w \in Seq(Frame) /\ d.wire \o w = w /\ Rising(w)
  <2>1. Headers \in Frame /\ Headers.kind = "headers"
    BY DEF Frame, Headers
  <2>2. Data(1) \in Frame
    <3>1. 1 \in 1..(MaxWrites + 1)
      BY ConstantsAssumption
    <3> QED
      BY <3>1 DEF Frame, Data
  <2>3. CASE blocked
    <3>1. w = <<Headers>>
      BY <2>3
    <3>2. w \in Seq(Frame) /\ Rising(w)
      BY <2>1, <3>1 DEF Rising
    <3>3. <<>> \o w = w
      <4> HIDE DEF w
      <4> QED
        BY <3>2
    <3> QED
      BY Zenon, <1>3, <3>2, <3>3
  <2>4. CASE ~blocked
    <3>1. w = <<Headers, Data(1)>>
      BY <2>4
    <3>2. w \in Seq(Frame) /\ Rising(w)
      BY <2>1, <2>2, <3>1 DEF Rising
    <3>3. <<>> \o w = w
      <4> HIDE DEF w
      <4> QED
        BY <3>2
    <3> QED
      BY Zenon, <1>3, <3>2, <3>3
  <2> QED
    BY Zenon, <2>3, <2>4
<1>5. call' = IF st = "Ok" THEN End(e, "trailers", "Ok") ELSE End(d, "trailersOnly", st)
  BY ZenonT(30), <1>4 DEF Respond, SendTrailers, SendTrailersOnly
<1> HIDE DEF d, w
<1>6. e \in Call
  BY ZenonT(30), <1>3, <1>4 DEF Call
<1>7. /\ Reads(d, e) /\ e.wire = w /\ e.out_queue = d.out_queue
      /\ e.out_inflight = d.out_inflight /\ e.written = d.written /\ e.form = d.form
  BY <1>3 DEF Call, Reads
<1> HIDE DEF e
<1>8. Book(e)
  BY ZenonT(30), <1>2, <1>3, <1>4, <1>7 DEF Tracked, Book
<1>9. Tracked(e)
  BY <1>2, <1>6, <1>7, <1>8, ReadsReading DEF Tracked
<1>10. Tracked(End(e, "trailers", "Ok"))
  BY <1>9, EndTracked DEF Status
<1>11. Tracked(End(d, "trailersOnly", st))
  BY <1>2, EndTracked DEF Status
<1> QED
  BY <1>5, <1>10, <1>11

(* The steps that are one of the functions above.                            *)
LEMMA OtherTracked ==
    ASSUME Tracked(call), CallInv(call),
           \/ Unblock \/ OnCancel \/ WriteDone
           \/ \E blocked \in BOOLEAN : RunPumpOut(blocked)
           \/ \E st \in {"Ok", "Internal"} : Finish(st)
    PROVE  Tracked(call')
<1> DEFINE p == [call EXCEPT !.pumps = @ - 1]
           o == [call EXCEPT !.on_cancel = TRUE]
           w == [call EXCEPT !.write_closed = TRUE]
<1>1. call \in Call /\ call.pumps \in Nat
  BY DEF Tracked, Call
<1>2. CASE Unblock
  BY <1>2, ConsumedTracked DEF Unblock, CallInv, Base, ItemInv
<1>3. CASE OnCancel
  <2>1. o \in Call /\ call' = o
    BY Zenon, <1>1, <1>3 DEF Call, OnCancel
  <2>2. Reads(call, o) /\ Writes(call, o)
    BY <1>1 DEF Call, Reads, Writes
  <2> HIDE DEF o
  <2> QED
    BY <2>1, <2>2, ReadsReading, WritesBook DEF Tracked
<1>4. CASE WriteDone
  <2>1. w \in Call /\ call' = w
    BY Zenon, <1>1, <1>4 DEF Call, WriteDone
  <2>2. Reads(call, w) /\ Writes(call, w)
    BY <1>1 DEF Call, Reads, Writes
  <2> HIDE DEF w
  <2> QED
    BY <2>1, <2>2, ReadsReading, WritesBook DEF Tracked
<1>5. ASSUME NEW blocked \in BOOLEAN, RunPumpOut(blocked)
      PROVE  Tracked(call')
  <2>1. call.pumps > 0 /\ call' = PumpOut(p, blocked)
    BY <1>5 DEF RunPumpOut
  <2>2. p \in Call
    <3>1. call.pumps - 1 \in Nat
      BY <1>1, <2>1
    <3> QED
      BY Zenon, <1>1, <3>1 DEF Call
  <2>3. Reads(call, p) /\ Writes(call, p)
    BY <1>1 DEF Call, Reads, Writes
  <2> HIDE DEF p
  <2>4. Tracked(p)
    BY <2>2, <2>3, ReadsReading, WritesBook DEF Tracked
  <2> QED
    BY <2>1, <2>4, PumpOutTracked
<1>6. ASSUME NEW st \in {"Ok", "Internal"}, Finish(st)
      PROVE  Tracked(call')
  BY <1>6, FinishStreamTracked DEF Finish, Tracked, Status
<1> QED
  BY <1>2, <1>3, <1>4, <1>5, <1>6

(* What is queued is younger than what no queued message is older than.      *)
LEMMA QueuedBehind ==
    ASSUME NEW q \in Seq(1..MaxWrites), NEW m, \A k \in DOMAIN q : m < q[k]
    PROVE  \A h \in Elems(q) : m < h /\ h \in 1..MaxWrites
<1>1. \A h \in Elems(q) : h \in 1..MaxWrites /\ \E k \in DOMAIN q : h = q[k]
  BY ZenonT(30), ElemsType
<1> QED
  BY <1>1

(* A stream the peer has not opened.                                         *)
LEMMA InitTracked ==
    ASSUME Init
    PROVE  Tracked(call)
<1>1. call \in Call
  BY InitInv DEF CallInv, Base
<1>2. /\ call.wire = <<>> /\ call.out_queue = <<>> /\ call.out_inflight = 0
      /\ call.written = 0 /\ call.unread = <<>> /\ call.reads = <<>> /\ call.received = 0
      /\ ~call.read_cb /\ ~call.responded /\ call.place = "none"
      /\ call.answers = [n \in 1..MaxWrites |-> <<>>]
  <2>1. PICK f \in Forms : Init!(f)
    BY ZenonT(30) DEF Init
  <2>2. call.wire = <<>> /\ call.out_queue = <<>> /\ call.out_inflight = 0
    BY Zenon, <2>1
  <2>3. call.written = 0 /\ call.unread = <<>> /\ call.reads = <<>>
    BY Zenon, <2>1
  <2>4. call.received = 0 /\ ~call.read_cb /\ ~call.responded /\ call.place = "none"
    BY Zenon, <2>1
  <2>5. call.answers = [n \in 1..MaxWrites |-> <<>>]
    BY Zenon, <2>1
  <2> QED
    BY Zenon, <2>2, <2>3, <2>4, <2>5
<1>3. Sent(call) = {} /\ Held(call) = {} /\ Taken(call) = {} /\ Full(call)
  BY <1>2 DEF Sent, Held, Taken, Elems, Full
<1>4. Ledger({}, {}, 0, call.answers)
  BY <1>2 DEF Ledger
<1>5. Book(call)
  <2>1. Rising(call.wire)
    BY <1>2 DEF Rising
  <2>2. Lined(call.out_queue, call.out_inflight)
    BY <1>2 DEF Lined
  <2>3. Ledger(Sent(call), Held(call), call.written, call.answers)
    BY Zenon, <1>2, <1>3, <1>4
  <2>4. \A k \in 1..call.written : Kept(Sent(call), Held(call), k, call.answers)
    BY <1>2
  <2> QED
    BY Zenon, <1>2, <2>1, <2>2, <2>3, <2>4 DEF Book
<1>6. Reading(call) /\ Whole(call)
  <2>1. Reading(call)
    <3>1. Order(call.reads, call.unread)
      BY <1>2 DEF Order
    <3>2. NoGap(Taken(call)) /\ \A m \in Taken(call) : m <= call.received
      BY Zenon, <1>3 DEF NoGap
    <3> QED
      BY Zenon, <1>2, <1>3, <3>1, <3>2 DEF Reading
  <2>2. Whole(call)
    BY Zenon, <1>3 DEF Whole
  <2> QED
    BY Zenon, <2>1, <2>2
<1> QED
  BY <1>1, <1>5, <1>6 DEF Tracked

(* Every step keeps the messages accounted for.                              *)
LEMMA NextTracked ==
    ASSUME Tracked(call), CallInv(call), [Next]_vars
    PROVE  Tracked(call')
<1>1. StartInv(call)
  BY DEF CallInv, Base
<1>2. CASE Handler
  BY <1>1, <1>2, OtherTracked, ReadMessageTracked, WriteMessageTracked, RespondTracked
     DEF Handler
<1>3. CASE Loop
  BY <1>3, OnDeadlineTracked, OtherTracked DEF Loop
<1>4. CASE Peer
  BY <1>1, <1>4, HeadersTracked, BadHeadersTracked, OnDataTracked, RecvEndTracked,
     RecvResetTracked, ConnLostTracked, OtherTracked, OnBadDataTracked DEF Peer
<1>5. CASE UNCHANGED vars
  BY <1>5 DEF vars
<1> QED
  BY <1>2, <1>3, <1>4, <1>5 DEF Next

(* Every written message is on the wire, held or answered, and every message *)
(* read came in order, in every reachable state of a call.                   *)
THEOREM MessagesTracked == Spec => []Tracked(call)
<1>1. Init => Tracked(call)
  BY InitTracked
<1>2. Tracked(call) /\ CallInv(call) /\ [Next]_vars => Tracked(call)'
  BY NextTracked
<1> QED
  BY <1>1, <1>2, CallInvariant, PTL DEF Spec

(* A write callback fires at most once, with OK exactly when PumpOut's DATA  *)
(* was sent, and one still owed belongs to a message queued or in flight     *)
(* (WritesAccounted), whatever ends the call and whenever.                   *)
THEOREM WritesAreAccounted == Spec => []WritesAccounted
<1>1. ASSUME NEW n \in 1..call.written, Ledger(Sent(call), Held(call), call.written, call.answers)
      PROVE  /\ Len(call.answers[n]) <= 1
             /\ call.answers[n] = <<"Ok">> <=> n \in Sent(call)
             /\ call.answers[n] = <<>> <=> n \in Held(call)
  BY <1>1 DEF Ledger
<1>2. ASSUME NEW n \in 1..call.written
      PROVE  n \in Held(call) <=> n \in Elems(call.out_queue) \cup {call.out_inflight}
  BY DEF Held
<1>3. Tracked(call) => WritesAccounted
  <2> SUFFICES ASSUME Tracked(call), NEW n \in 1..call.written
               PROVE  /\ Len(call.answers[n]) <= 1
                      /\ call.answers[n] = <<"Ok">> <=> n \in Sent(call)
                      /\ call.answers[n] = <<>> <=>
                             n \in Elems(call.out_queue) \cup {call.out_inflight}
    BY DEF WritesAccounted
  <2>1. call.form \in Streaming
    <3>1. call.form \notin Streaming => call.written = 0
      BY Zenon DEF Tracked, Book
    <3> QED
      BY <3>1
  <2>2. Ledger(Sent(call), Held(call), call.written, call.answers)
    BY <2>1 DEF Tracked, Book
  <2> QED
    BY <1>1, <1>2, <2>2
<1> QED
  BY <1>3, MessagesTracked, PTL

(* FR-007 in both directions (MessagesInOrder): messages reach the wire in   *)
(* the order of their WriteMessage calls and the handler in the order they   *)
(* came, none twice; WriteMessage passes over only a refused message, and    *)
(* DeliverRead only messages that follow a deadline.                         *)
THEOREM MessagesStayInOrder == Spec => []MessagesInOrder
<1> DEFINE W == call.wire
           D == {k \in DOMAIN W : W[k].kind = "data"}
<1>1. Tracked(call) /\ CallInv(call) => WrittenInOrder
  <2> SUFFICES ASSUME Tracked(call), CallInv(call)
               PROVE  WrittenInOrder
    OBVIOUS
  <2>1. call \in Call /\ Book(call) /\ Rising(W) /\ ItemInv(call)
    BY ZenonT(30) DEF Tracked, Book, CallInv, Base
  <2>2. \A j, k \in D : j < k => W[j].msg < W[k].msg
    BY <2>1 DEF Rising
  <2>3. call.item # 0 => call.item \in Held(call) /\ call.out_inflight # 0
    BY <2>1 DEF ItemInv, Held
  <2>4. CASE call.form \notin Streaming
    <3>1. call.item = 0 /\ call.written = 0
      BY Zenon, <2>1, <2>3, <2>4 DEF Book
    <3> QED
      BY <2>2, <3>1 DEF WrittenInOrder
  <2>5. CASE call.form \in Streaming
    <3> DEFINE S == Sent(call)
               H == Held(call)
               A == call.answers
    <3>1. Ledger(S, H, call.written, A)
      BY <2>1, <2>5 DEF Book
    <3>2. \A m \in S : call.item # 0 => m < call.item
      <4> HIDE DEF S, H
      <4> QED
        BY <2>3, <3>1 DEF Ledger, H
    <3>3. ASSUME NEW m \in S \cup {call.item}, NEW n \in 1..call.written, n < m
          PROVE  n \in S \/ A[n] = <<"ResourceExhausted">>
      <4>1. m \in S \cup H
        <5>1. m # 0
          BY <2>1, <3>3
        <5> QED
          BY <2>3, <5>1
      <4>2. n \in S \/ n \in H \/ A[n] = <<"ResourceExhausted">>
        <5> HIDE DEF S, H, A
        <5> QED
          BY ZenonT(30), <3>1, <3>3, <4>1 DEF Ledger, Kept
      <4>3. n \notin H
        <5>1. CASE m \in S
          <6>1. \A h \in H : m < h /\ h \in 1..call.written /\ m \in 1..call.written
            BY <3>1, <5>1 DEF Ledger
          <6> QED
            BY <3>3, <6>1
        <5>2. CASE m = call.item /\ m # 0
          <6>1. /\ m = call.out_inflight /\ m \in 1..MaxWrites
                /\ call.out_queue \in Seq(1..MaxWrites)
            BY <2>1, <5>2, CallFields DEF ItemInv
          <6>2. \A h \in Elems(call.out_queue) : m < h /\ h \in 1..MaxWrites
            <7>1. \A k \in DOMAIN call.out_queue : m < call.out_queue[k]
              BY <2>1, <5>2, <6>1 DEF Book, Lined
            <7> QED
              BY ZenonT(30), <6>1, <7>1, QueuedBehind
          <6>3. \A h \in H : m <= h /\ h \in 1..MaxWrites
            BY <6>1, <6>2 DEF Held
          <6> HIDE DEF H
          <6> QED
            BY <3>3, <6>1, <6>3
        <5> QED
          BY <3>3, <5>1, <5>2
      <4> QED
        BY <4>2, <4>3
    <3> QED
      BY ZenonT(30), <2>2, <3>2, <3>3 DEF WrittenInOrder
  <2> QED
    BY <2>4, <2>5
<1>2. Tracked(call) => ReadInOrder
  BY DEF Tracked, Reading, ReadInOrder, Order, Late, NoGap
<1>3. Tracked(call) /\ CallInv(call) => MessagesInOrder
  BY <1>1, <1>2 DEF MessagesInOrder
<1> QED
  BY <1>3, MessagesTracked, CallInvariant, PTL

=============================================================================
