------------------------------ MODULE H2Session ------------------------------
(***************************************************************************)
(* H2Session (urpc_h2_session.cc): the framing layer between nghttp2 and   *)
(* the channel or the server connection that owns it.                      *)
(*                                                                         *)
(* All of it runs on one thread, but it nests: nghttp2 calls back into the *)
(* owner, the owner calls the session, every call of the session flushes,  *)
(* and a flush runs the owner's consumed-notifications, which may call the *)
(* session again.  So the state holds the call stack, and a step is what   *)
(* one activation does between two calls.                                  *)
(*                                                                         *)
(* nghttp2 (external) is its streams, their windows, the frames queued and *)
(* the body each stream is sending.  The owner may call the session        *)
(* whenever its code runs, for streams it knows to be open.  No call is    *)
(* made from OnStreamClose: the channel's callbacks post, and what a       *)
(* server's callback writes there is for a stream nghttp2 no longer has    *)
(* (ServerStream).                                                         *)
(***************************************************************************)
EXTENDS Integers, Sequences, FiniteSets

CONSTANTS
    Streams,      \* streams of the connection
    Bodies,       \* bodies to send, each handed over once
    Size,         \* per body: its length in frames
    None,         \* no body
    MaxWindow,    \* bound: frames the peer lets a stream send ahead
    MaxFrames     \* bound: frames in one Consume

ASSUME ConstantsAssumption ==
    /\ Size \in [Bodies -> Nat]
    /\ None \notin Bodies
    /\ MaxWindow \in Nat /\ MaxFrames \in Nat

VARIABLES
    role,                     \* role: who opens streams
    stack,                    \* the activations of the session and of its owner's code
    flush_depth,              \* flush_depth_
    consumed_notifications,   \* bodies whose on_consumed waits to run
    out,                      \* is there output to write?
    pending_bodies,           \* per stream: bodies kept alive
    on_consumed,              \* bodies whose on_consumed is still set
    read,                     \* per body: frames read
    handed,                   \* bodies that were handed over
    known,                    \* streams the owner knows
    called,                   \* per stream: calls the owner makes once, and has made
    state,                    \* nghttp2, per stream: idle, open or closed
    shut,                     \* nghttp2, per stream: the sides that have ended
    item,                     \* nghttp2, per stream: the body attached and its END_STREAM
    window,                   \* nghttp2, per stream: frames it may send
    queue,                    \* nghttp2: other frames to send
    fired                     \* history: notifications run, in order

ngVars == <<state, shut, item, window, queue>>
bodyVars == <<pending_bodies, on_consumed, read, handed>>
vars == <<role, stack, flush_depth, consumed_notifications, out, bodyVars, known,
          called, ngVars, fired>>

\* FlushOut sends, drains notifications, runs them, sends again and writes.
Flushing == {"send", "drain", "notes", "resend", "write"}
FlushFrame == [at : Flushing, notes : Seq(Bodies)]
\* The owner's code: a callback of nghttp2, or a notification.
OwnerFrame == [at : {"callback", "note"}]
\* nghttp2_session_mem_recv2; what follows a frame's callback; a request made.
RecvFrame == [at : {"recv"}, left : 0..MaxFrames]
AfterFrame == [at : {"frameEnd", "submitted"}, s : Streams]

Items == [body : Bodies \cup {None}, end : BOOLEAN]
NoItem == [body |-> None, end |-> FALSE]

\* The types of the state.
TypeOK ==
    /\ role \in {"server", "client"}
    /\ stack \in Seq(FlushFrame \cup OwnerFrame \cup RecvFrame \cup AfterFrame)
    /\ flush_depth \in 0..1
    /\ consumed_notifications \in Seq(Bodies)
    /\ out \in BOOLEAN
    /\ pending_bodies \in [Streams -> SUBSET Bodies]
    /\ on_consumed \subseteq Bodies
    /\ read \in [Bodies -> Nat]
    /\ handed \subseteq Bodies /\ known \subseteq Streams
    /\ called \in [Streams -> SUBSET {"headers", "trailers", "reset"}]
    /\ state \in [Streams -> {"idle", "open", "closed"}]
    /\ shut \in [Streams -> SUBSET {"read", "write"}]
    /\ item \in [Streams -> Items]
    /\ window \in [Streams -> 0..MaxWindow]
    /\ queue \in Seq([f : {"settings", "headers", "trailers", "reset"},
                      s : Streams \cup {None}, item : Items, end : BOOLEAN])
    /\ fired \in Seq(Bodies)

\* Frames for nghttp2's queue: the item is attached once the headers are sent.
Frame(f, s, it, end) == [f |-> f, s |-> s, item |-> it, end |-> end]
Flush == [at |-> "send", notes |-> <<>>]

\* The constructor queues the SETTINGS, and the owner calls Flush.
Init ==
    /\ role \in {"server", "client"}
    /\ stack = <<Flush>> /\ flush_depth = 0 /\ consumed_notifications = <<>>
    /\ out = FALSE
    /\ pending_bodies = [s \in Streams |-> {}]
    /\ on_consumed = {} /\ read = [b \in Bodies |-> 0] /\ handed = {} /\ known = {}
    /\ called = [s \in Streams |-> {}]
    /\ state = [s \in Streams |-> "idle"] /\ shut = [s \in Streams |-> {}]
    /\ item = [s \in Streams |-> NoItem]
    /\ window = [s \in Streams |-> MaxWindow]
    /\ queue = <<Frame("settings", None, NoItem, FALSE)>>
    /\ fired = <<>>

-----------------------------------------------------------------------------
(* The call stack *)

\* Those of SequencesExt.
Last(q)  == q[Len(q)]
Front(q) == SubSeq(q, 1, Len(q) - 1)

At(pcs) == stack # <<>> /\ Last(stack).at \in pcs
Call(frames) == stack' = stack \o frames
Goto(frame) == stack' = Append(Front(stack), frame)
Return == stack' = Front(stack)

\* Code of the owner runs: an event of the loop, a callback or a notification.
OwnerRuns == stack = <<>> \/ At({"callback", "note"})

-----------------------------------------------------------------------------
(* Inside nghttp2_session_send *)

\* Sides of a stream end; when both have, the stream closes: OnStreamCloseCb
\* drops its bodies, and the owner forgets it (OnStreamClose).
EndSides(s, sides, it) ==
    LET closes == shut[s] \cup sides = {"read", "write"}
    IN  /\ shut' = [shut EXCEPT ![s] = @ \cup sides]
        /\ state' = [state EXCEPT ![s] = IF closes THEN "closed" ELSE "open"]
        /\ item' = [item EXCEPT ![s] = IF closes \/ "write" \in sides THEN NoItem ELSE it]
        /\ pending_bodies' = [pending_bodies EXCEPT ![s] = IF closes THEN {} ELSE @]
        /\ known' = IF closes THEN known \ {s} ELSE known

streamVars == <<shut, state, item, pending_bodies, known>>

\* nghttp2 drops a frame for a stream, or a side of it, that has ended.
Dropped(f) == /\ f.f # "settings"
              /\ state[f.s] = "closed" \/ (f.f # "reset" /\ "write" \in shut[f.s])

\* SendCb2 appends the frame to out.
SendQueued ==
    /\ At({"send", "resend"}) /\ queue # <<>>
    /\ queue' = Tail(queue)
    /\ LET f == Head(queue)
       IN  /\ out' = (out \/ ~Dropped(f))
           /\ IF f.f = "settings" \/ Dropped(f)
              THEN UNCHANGED streamVars
              ELSE EndSides(f.s, CASE f.f = "reset" -> {"read", "write"}
                                   [] f.f # "reset" /\ f.end -> {"write"}
                                   [] OTHER -> {},
                            IF f.item = NoItem THEN item[f.s] ELSE f.item)
    /\ UNCHANGED <<role, stack, flush_depth, consumed_notifications, on_consumed,
                   read, handed, called, window, fired>>

CanSend(s) == item[s] # NoItem /\ window[s] > 0

\* Bug variant of SendBody: on_consumed is due with the first chunk.
SendBodyEarly(s) ==
    /\ At({"send", "resend"}) /\ queue = <<>> /\ CanSend(s)
    /\ LET b   == item[s].body
           n   == IF read[b] < Size[b] THEN 1 ELSE 0
           eof == read[b] + n = Size[b]
       IN  /\ read' = [read EXCEPT ![b] = @ + n]
           /\ window' = [window EXCEPT ![s] = @ - n]
           /\ IF b \in on_consumed
              THEN /\ consumed_notifications' = Append(consumed_notifications, b)
                   /\ on_consumed' = on_consumed \ {b}
              ELSE UNCHANGED <<consumed_notifications, on_consumed>>
           /\ IF eof
              THEN EndSides(s, IF item[s].end THEN {"write"} ELSE {}, NoItem)
              ELSE UNCHANGED streamVars
    /\ out' = TRUE
    /\ UNCHANGED <<role, stack, flush_depth, handed, called, queue, fired>>

\* A DATA frame: nghttp2 calls BodyRead2, which reads a chunk of the body, an
\* empty one too, and at its end queues on_consumed.  nghttp2 sends DATA after
\* the other frames, and only within the window.
SendBody(s) ==
    /\ At({"send", "resend"}) /\ queue = <<>> /\ CanSend(s)
    /\ LET b   == item[s].body
           n   == IF read[b] < Size[b] THEN 1 ELSE 0
           eof == read[b] + n = Size[b]
       IN  /\ read' = [read EXCEPT ![b] = @ + n]
           /\ window' = [window EXCEPT ![s] = @ - n]
           /\ IF eof /\ b \in on_consumed
              THEN /\ consumed_notifications' = Append(consumed_notifications, b)
                   /\ on_consumed' = on_consumed \ {b}
              ELSE UNCHANGED <<consumed_notifications, on_consumed>>
           /\ IF eof
              THEN EndSides(s, IF item[s].end THEN {"write"} ELSE {}, NoItem)
              ELSE UNCHANGED streamVars
    /\ out' = TRUE
    /\ UNCHANGED <<role, stack, flush_depth, handed, called, queue, fired>>

-----------------------------------------------------------------------------
(* FlushOut *)

Sent == queue = <<>> /\ \A s \in Streams : ~CanSend(s)

othersAtFlush == <<role, bodyVars, known, called, ngVars>>

\* Bug variant of SendDone: one round of notifications, not a loop.
SendDoneOneRound ==
    /\ At({"send", "resend"}) /\ Sent
    /\ IF Last(stack).at = "send" /\ flush_depth = 0
       THEN /\ flush_depth' = 1
            /\ Goto([at |-> "drain", notes |-> <<>>])
       ELSE /\ flush_depth' = IF Last(stack).at = "resend" THEN 0 ELSE flush_depth
            /\ Goto([at |-> "write", notes |-> <<>>])
    /\ UNCHANGED <<othersAtFlush, consumed_notifications, out, fired>>

\* nghttp2_session_send returns; only the outermost FlushOut drains.
SendDone ==
    /\ At({"send", "resend"}) /\ Sent
    /\ IF Last(stack).at = "send" /\ flush_depth # 0
       THEN /\ Goto([at |-> "write", notes |-> <<>>])
            /\ UNCHANGED flush_depth
       ELSE /\ Goto([at |-> "drain", notes |-> <<>>])
            /\ flush_depth' = 1
    /\ UNCHANGED <<othersAtFlush, consumed_notifications, out, fired>>

\* Takes the notifications that wait, or leaves the loop.
Drain ==
    /\ At({"drain"})
    /\ IF consumed_notifications = <<>>
       THEN flush_depth' = flush_depth - 1 /\ Goto([at |-> "write", notes |-> <<>>])
       ELSE Goto([at |-> "notes", notes |-> consumed_notifications]) /\ UNCHANGED flush_depth
    /\ consumed_notifications' = <<>>
    /\ UNCHANGED <<othersAtFlush, out, fired>>

RunNote ==
    /\ At({"notes"}) /\ Last(stack).notes # <<>>
    /\ stack' = Front(stack) \o <<[Last(stack) EXCEPT !.notes = Tail(@)], [at |-> "note"]>>
    /\ fired' = Append(fired, Head(Last(stack).notes))
    /\ UNCHANGED <<othersAtFlush, flush_depth, consumed_notifications, out>>

\* Bug variant of NotesRun: the deque is cleared after the round.
NotesRunClear ==
    /\ At({"notes"}) /\ Last(stack).notes = <<>>
    /\ Goto([at |-> "resend", notes |-> <<>>])
    /\ consumed_notifications' = <<>>
    /\ UNCHANGED <<othersAtFlush, flush_depth, out, fired>>

NotesRun ==
    /\ At({"notes"}) /\ Last(stack).notes = <<>>
    /\ Goto([at |-> "resend", notes |-> <<>>])
    /\ UNCHANGED <<othersAtFlush, flush_depth, consumed_notifications, out, fired>>

\* Bug variant of Write: a body lives as long as the flush that submitted it.
WriteAndFree ==
    /\ At({"write"})
    /\ out' = FALSE
    /\ Return
    /\ pending_bodies' = [s \in Streams |-> {}]
    /\ UNCHANGED <<role, on_consumed, read, handed, known, called, ngVars, flush_depth,
                   consumed_notifications, fired>>

\* OnWrite hands out to the socket; FlushOut returns.
Write ==
    /\ At({"write"})
    /\ out' = FALSE
    /\ Return
    /\ UNCHANGED <<othersAtFlush, flush_depth, consumed_notifications, fired>>

-----------------------------------------------------------------------------
(* The owner calls the session *)

othersAtCall == <<role, flush_depth, consumed_notifications, out, read, known, fired>>
Once(s, c) == c \notin called[s] /\ called' = [called EXCEPT ![s] = @ \cup {c}]
HandOver(b) == b \notin handed /\ handed' = handed \cup {b}

\* A request with its body; with an empty one, END_STREAM is on the headers.
\* The owner learns the stream's id when the call returns.
SubmitRequest(s, b) ==
    /\ role = "client" /\ OwnerRuns /\ state[s] = "idle" /\ HandOver(b)
    /\ \A i \in DOMAIN stack : stack[i].at = "submitted" => stack[i].s # s
    /\ queue' = Append(queue, IF Size[b] = 0
                              THEN Frame("headers", s, NoItem, TRUE)
                              ELSE Frame("headers", s, [body |-> b, end |-> TRUE], FALSE))
    /\ pending_bodies' = [pending_bodies EXCEPT ![s] = IF Size[b] = 0 THEN @ ELSE @ \cup {b}]
    /\ Call(<<[at |-> "submitted", s |-> s], Flush>>)
    /\ UNCHANGED <<othersAtCall, on_consumed, called, state, shut, item, window>>

SubmitRequestOpen(s) ==
    /\ role = "client" /\ OwnerRuns /\ state[s] = "idle"
    /\ \A i \in DOMAIN stack : stack[i].at = "submitted" => stack[i].s # s
    /\ queue' = Append(queue, Frame("headers", s, NoItem, FALSE))
    /\ Call(<<[at |-> "submitted", s |-> s], Flush>>)
    /\ UNCHANGED <<othersAtCall, bodyVars, called, state, shut, item, window>>

Submitted ==
    /\ At({"submitted"})
    /\ known' = IF state[Last(stack).s] = "open" THEN known \cup {Last(stack).s} ELSE known
    /\ Return
    /\ UNCHANGED <<role, flush_depth, consumed_notifications, out, bodyVars, called, ngVars, fired>>

SendHeaders(s, end) ==
    /\ role = "server" /\ OwnerRuns /\ s \in known /\ Once(s, "headers")
    /\ queue' = Append(queue, Frame("headers", s, NoItem, end))
    /\ Call(<<Flush>>)
    /\ UNCHANGED <<othersAtCall, bodyVars, state, shut, item, window>>

\* The body is kept, and nghttp2 asked to send it; it refuses when the stream
\* has a body already or has sent its end, and the code does not look.
SendData(s, b, end, note) ==
    /\ OwnerRuns /\ s \in known /\ HandOver(b)
    /\ role = "server" => "headers" \in called[s] /\ ~end
    /\ pending_bodies' = [pending_bodies EXCEPT ![s] = @ \cup {b}]
    /\ on_consumed' = IF note THEN on_consumed \cup {b} ELSE on_consumed
    /\ item' = IF item[s] = NoItem /\ "write" \notin shut[s]
               THEN [item EXCEPT ![s] = [body |-> b, end |-> end]] ELSE item
    /\ Call(<<Flush>>)
    /\ UNCHANGED <<othersAtCall, called, state, shut, window, queue>>

SendTrailers(s) ==
    /\ role = "server" /\ OwnerRuns /\ s \in known /\ "headers" \in called[s]
    /\ Once(s, "trailers")
    /\ queue' = Append(queue, Frame("trailers", s, NoItem, TRUE))
    /\ Call(<<Flush>>)
    /\ UNCHANGED <<othersAtCall, bodyVars, state, shut, item, window>>

ResetStream(s) ==
    /\ role = "client" /\ OwnerRuns /\ s \in known /\ Once(s, "reset")
    /\ queue' = Append(queue, Frame("reset", s, NoItem, FALSE))
    /\ Call(<<Flush>>)
    /\ UNCHANGED <<othersAtCall, bodyVars, state, shut, item, window>>

\* A callback or a notification returns.
OwnerReturns ==
    /\ At({"callback", "note"})
    /\ Return
    /\ UNCHANGED <<othersAtFlush, flush_depth, consumed_notifications, out, fired>>

-----------------------------------------------------------------------------
(* Consume: bytes of the peer go through nghttp2, then FlushOut *)

othersAtRecv == <<role, flush_depth, consumed_notifications, out, on_consumed, read,
                  handed, called, queue, fired>>

Consume ==
    /\ stack = <<>>
    /\ Call(<<[at |-> "recv", left |-> MaxFrames]>>)
    /\ UNCHANGED <<othersAtRecv, pending_bodies, known, state, shut, item, window>>

\* nghttp2 handles one frame of the bytes, and makes calls.
Recv(calls) ==
    /\ At({"recv"}) /\ Last(stack).left > 0
    /\ stack' = Front(stack) \o <<[Last(stack) EXCEPT !.left = @ - 1]>> \o calls

Callback == [at |-> "callback"]
FrameEnd(s, end) == IF end THEN <<[at |-> "frameEnd", s |-> s]>> ELSE <<>>

\* HEADERS: OnHeaderCb for each field, OnFrameRecvCb for the block.  On a
\* server they open the stream; the owner knows it from then on.
RecvHeaders(s, end) ==
    /\ \/ role = "server" /\ state[s] = "idle"
       \/ role = "client" /\ state[s] = "open" /\ "read" \notin shut[s]
    /\ Recv(FrameEnd(s, end) \o <<Callback>>)
    /\ state' = [state EXCEPT ![s] = "open"]
    /\ known' = IF role = "server" THEN known \cup {s} ELSE known
    /\ UNCHANGED <<othersAtRecv, pending_bodies, shut, item, window>>

\* DATA: OnDataChunkCb for the bytes and OnFrameRecvCb for the frame call OnData
\* one after the other, as one piece of the owner's code.
RecvData(s, end) ==
    /\ state[s] = "open" /\ "read" \notin shut[s]
    /\ Recv(FrameEnd(s, end) \o <<Callback>>)
    /\ UNCHANGED <<othersAtRecv, pending_bodies, known, state, shut, item, window>>

\* After the callback of a frame with END_STREAM nghttp2 ends the peer's side.
RecvEnd ==
    /\ At({"frameEnd"})
    /\ Return
    /\ LET s == Last(stack).s
       IN  IF state[s] = "closed" THEN UNCHANGED streamVars
           ELSE EndSides(s, {"read"}, item[s])
    /\ UNCHANGED <<othersAtRecv, window>>

RecvWindow(s) ==
    /\ window[s] < MaxWindow
    /\ Recv(<<>>)
    /\ window' = [window EXCEPT ![s] = @ + 1]
    /\ UNCHANGED <<othersAtRecv, streamVars>>

RecvReset(s) ==
    /\ state[s] = "open"
    /\ Recv(<<>>)
    /\ EndSides(s, {"read", "write"}, NoItem)
    /\ UNCHANGED <<othersAtRecv, window>>

Received ==
    /\ At({"recv"})
    /\ Goto(Flush)
    /\ UNCHANGED <<othersAtRecv, pending_bodies, known, state, shut, item, window>>

-----------------------------------------------------------------------------
FlushOut == \/ SendQueued \/ (\E s \in Streams : SendBody(s)) \/ SendDone
            \/ Drain \/ RunNote \/ NotesRun \/ Write

OwnerCalls ==
    \E s \in Streams :
        \/ \E b \in Bodies : \/ SubmitRequest(s, b)
                             \/ \E end, note \in BOOLEAN : SendData(s, b, end, note)
        \/ SubmitRequestOpen(s) \/ SendTrailers(s) \/ ResetStream(s)
        \/ \E end \in BOOLEAN : SendHeaders(s, end)

Peer == \/ Consume
        \/ \E s \in Streams : \/ \E end \in BOOLEAN : RecvHeaders(s, end) \/ RecvData(s, end)
                              \/ RecvWindow(s) \/ RecvReset(s)

Next == FlushOut \/ OwnerCalls \/ OwnerReturns \/ Submitted \/ Peer \/ RecvEnd \/ Received

Spec == Init /\ [][Next]_vars

\* Code that runs goes on.  Nobody has to call, and nothing has to arrive.
FairSpec == Spec /\ WF_vars(FlushOut \/ Submitted \/ RecvEnd \/ Received \/ OwnerReturns)

-----------------------------------------------------------------------------
(* Properties *)

In(b, q) == \E k \in DOMAIN q : q[k] = b

(* "Draining it inline would recurse once per queued message" (FlushOut): a  *)
(* notification never runs inside another one, however notifications,        *)
(* callbacks and sends nest, so the stack does not grow with the messages.   *)
NotesDoNotNest ==
    \A i, j \in DOMAIN stack : stack[i].at = "note" /\ stack[j].at = "note" => i = j

(* "Keep every body alive until its stream closes" (pending_bodies): a body  *)
(* nghttp2 holds a pointer to, attached to a stream or to a request it has   *)
(* not sent, is alive, over flushes that flow control cuts short.            *)
BodyAlive ==
    /\ \A s \in Streams : item[s] # NoItem => item[s].body \in pending_bodies[s]
    /\ \A k \in DOMAIN queue : queue[k].item # NoItem /\ ~Dropped(queue[k]) =>
          queue[k].item.body \in pending_bodies[queue[k].s]

(* h2_session.h, SendData: on_consumed "fires exactly once after nghttp2 has *)
(* fully read the body": never twice, and never before its last byte is in a *)
(* frame.                                                                    *)
ConsumedOnce ==
    \A i, j \in DOMAIN fired :
        /\ fired[i] = fired[j] => i = j
        /\ read[fired[i]] = Size[fired[i]]

(* Once every call has returned nothing is left that could have gone out: no *)
(* frame nghttp2 could send, no byte in out, no notification.  Until the     *)
(* next event nobody would come for them.                                    *)
Settled == stack = <<>> => Sent /\ ~out /\ consumed_notifications = <<>>

(* A body that was fully read has its on_consumed run: the notification is   *)
(* not lost when other notifications and nested flushes queue more of them.  *)
NotesFire == \A b \in Bodies : In(b, consumed_notifications) ~> In(b, fired)
=============================================================================
