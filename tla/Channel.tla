------------------------------ MODULE Channel ------------------------------
(***************************************************************************)
(* The client channel of urpc/core (urpc_channel.cc): unary calls and      *)
(* request streams over one lazily opened HTTP/2 connection.               *)
(*                                                                         *)
(* Any thread may call the API; each operation only posts a task.  All the *)
(* rest happens on the loop thread: posted tasks in FIFO order, timers,    *)
(* the outcome of the connect, the frames of the peer.  A step of this     *)
(* specification is one task, one timer or one frame, run to completion.   *)
(*                                                                         *)
(* place[i] says which of the channel's containers holds call i:           *)
(*   "none"    not started, or its task has not run;                       *)
(*   "pending" in pending / pending_streams, waiting for the connection;   *)
(*   "live"    in calls and by_stream / streams and stream_by_sid;         *)
(*   "over"    completed (a completed stream's leftover entry in streams   *)
(*             behaves like a missing one everywhere it is looked up).     *)
(* Every handler that changes one of the paired maps changes the other.    *)
(***************************************************************************)
EXTENDS Integers, Sequences, FiniteSets

CONSTANTS
    Calls,          \* ids of unary calls
    Streams,        \* ids of request streams
    Msgs,           \* messages for StreamSend, each sent at most once
    NoMsg,          \* the empty body of a bare half-close
    SendQueueCap,   \* bound of out_queue (64 in the code)
    PeerStatus,     \* the grpc-status values the peer may send
    MaxReplies,     \* bound: response messages the peer sends on a stream
    PeerAborts      \* may the peer end or reset a stream without trailers?

Ids == Calls \cup Streams

Status == {"Ok", "DeadlineExceeded", "ResourceExhausted", "Internal",
           "Unavailable"}

Message == "message"

ASSUME ConstantsAssumption ==
    /\ Calls \cap Streams = {}
    /\ \A S \in SUBSET Streams : Cardinality(S) \in Nat  \* finitely many
    /\ NoMsg \notin Msgs
    /\ SendQueueCap \in Nat \ {0}
    /\ MaxReplies \in Nat
    /\ PeerStatus \subseteq Status
    /\ PeerAborts \in BOOLEAN

VARIABLES
    tasks,         \* LoopRunner: posted tasks, oldest first
    conn,          \* Impl::state
    place,         \* per id: the container that holds it
    timer,         \* per id: its deadline timer
    out_queue,     \* per stream: messages not yet given to the session
    out_inflight,  \* streams with a message inside the session
    send_closed,   \* streams whose send side is closed
    h2,            \* per id: the HTTP/2 stream (nghttp2), peer's side
    item,          \* per stream: DATA attached in nghttp2, not yet sent
    wire,          \* per stream: messages sent, in order
    aborted,       \* the process died of a corrupted heap
    issued,        \* ids handed out by Call / OpenStream
    timed,         \* those with a deadline
    events,        \* per id: what its callbacks were given
    sent,          \* per stream: messages given to StreamSend, in order
    closing,       \* streams given to StreamCloseSend
    flushed        \* per message: what its on_flushed was given

sendVars == <<out_queue, out_inflight, send_closed, item, wire>>
userVars == <<issued, timed, sent, closing>>
vars == <<tasks, conn, place, timer, sendVars, h2, aborted, userVars, events,
          flushed>>

OutMsg == [msg : Msgs \cup {NoMsg}, close : BOOLEAN]
NoItem == [msg |-> NoMsg, close |-> FALSE]
HalfClose == [msg |-> NoMsg, close |-> TRUE]
Task == [op : {"start", "cancel", "send", "closeSend", "pump"}, id : Ids,
         out : OutMsg]
T(op, i) == [op |-> op, id |-> i, out |-> NoItem]

\* The types of the state.
TypeOK ==
    /\ tasks \in Seq(Task)
    /\ conn \in {"Idle", "Connecting", "Ready", "Broken"}
    /\ place \in [Ids -> {"none", "pending", "live", "over"}]
    /\ timer \in [Ids -> {"off", "armed", "fired"}]
    /\ out_queue \in [Streams -> Seq(OutMsg)]
    /\ out_inflight \subseteq Streams
    /\ send_closed \subseteq Streams
    /\ h2 \in [Ids -> {"none", "open", "body", "ended", "closed"}]
    /\ item \in [Streams -> OutMsg]
    /\ wire \in [Streams -> Seq(OutMsg)]
    /\ aborted \in BOOLEAN
    /\ issued \subseteq Ids
    /\ timed \subseteq Ids
    /\ events \in [Ids -> Seq(Status \cup {Message})]
    /\ sent \in [Streams -> Seq(Msgs)]
    /\ closing \subseteq Streams
    /\ flushed \in [Msgs -> Seq(Status)]

Init ==
    /\ tasks = <<>> /\ conn = "Idle" /\ aborted = FALSE
    /\ place = [i \in Ids |-> "none"]
    /\ timer = [i \in Ids |-> "off"]
    /\ out_queue = [s \in Streams |-> <<>>]
    /\ out_inflight = {} /\ send_closed = {}
    /\ h2 = [i \in Ids |-> "none"]
    /\ item = [s \in Streams |-> NoItem]
    /\ wire = [s \in Streams |-> <<>>]
    /\ issued = {} /\ timed = {} /\ closing = {}
    /\ sent = [s \in Streams |-> <<>>]
    /\ events = [i \in Ids |-> <<>>]
    /\ flushed = [m \in Msgs |-> <<>>]

-----------------------------------------------------------------------------
(* Building blocks *)

Elems(q) == {q[k] : k \in DOMAIN q}
Held(p)  == {i \in Ids : place[i] = p}

\* f with the value v at every point of S.
Set(f, S, v) == [x \in DOMAIN f |-> IF x \in S THEN v ELSE f[x]]

\* f with v appended to the sequence at every point of S.
Add(f, S, v) == [x \in DOMAIN f |-> IF x \in S THEN Append(f[x], v) ELSE f[x]]

Queued(S) == UNION {{o.msg : o \in Elems(out_queue[s])} : s \in S \cap Streams}

\* END_STREAM rides the last message of a queue.
CloseLast(q) == [q EXCEPT ![Len(q)] = [msg |-> @.msg, close |-> TRUE]]

CancelTimers(S) == Set(timer, {i \in S : timer[i] = "armed"}, "off")

\* Bug variant of Finish: the entry stays in the maps.
FinishKeepsEntry(S, st) ==
    /\ place' = place
    /\ events' = Add(events, S, st)
    /\ flushed' = Add(flushed, Queued(S), st)
    /\ out_queue' = Set(out_queue, S, <<>>)

(* Complete, CompleteStream, Stream::Fail: the calls of S leave their maps,  *)
(* queued messages are answered, done / on_complete fires.                   *)
Finish(S, st) ==
    /\ place' = Set(place, S, "over")
    /\ events' = Add(events, S, st)
    /\ flushed' = Add(flushed, Queued(S), st)
    /\ out_queue' = Set(out_queue, S, <<>>)

EndSent(s) == wire[s] # <<>> /\ wire[s][Len(wire[s])].close

(* H2Session::SendData.  nghttp2 refuses a second DATA item while one is     *)
(* attached, and drops one that follows END_STREAM; the session ignores      *)
(* both and on_consumed never fires.                                         *)
Accepts(s) == item[s] = NoItem /\ ~EndSent(s)

\* Bug variant of PumpStreams: the message is copied, not popped.
PumpStreamsNoPop(S, q, blk) ==
    /\ out_queue' = q
    /\ out_inflight' = (out_inflight \cup S) \ {s \in S \ blk : Accepts(s)}
    /\ send_closed' = send_closed
    /\ wire' = [s \in Streams |-> IF s \in S \ blk /\ Accepts(s)
                                  THEN Append(wire[s], Head(q[s])) ELSE wire[s]]
    /\ item' = [s \in Streams |-> IF s \in S \cap blk /\ Accepts(s)
                                  THEN Head(q[s]) ELSE item[s]]

(* PumpStream on each stream of S, none of which returns early: q are the    *)
(* queues, blk the streams whose flow-control window is exhausted.           *)
Consumed(S, blk) == {s \in S \ blk : Accepts(s)}

PumpStreams(S, q, blk) ==
    LET now  == Consumed(S, blk)
        held == {s \in S \cap blk : Accepts(s)}
    IN  /\ out_queue' = [s \in Streams |-> IF s \in S THEN Tail(q[s]) ELSE q[s]]
        /\ out_inflight' = (out_inflight \cup S) \ now
        /\ send_closed' = send_closed \cup {s \in S : Head(q[s]).close}
        /\ wire' = [s \in Streams |-> IF s \in now THEN Append(wire[s], Head(q[s]))
                                                   ELSE wire[s]]
        /\ item' = [s \in Streams |-> IF s \in held THEN Head(q[s]) ELSE item[s]]

-----------------------------------------------------------------------------
(* The API, callable from any thread: each operation posts one task. *)

Post(t) == tasks' = Append(tasks, t)

\* Call and OpenStream.
Issue(i, deadline) ==
    /\ i \notin issued
    /\ issued' = issued \cup {i}
    /\ timed' = IF deadline THEN timed \cup {i} ELSE timed
    /\ Post(T("start", i))
    /\ UNCHANGED <<conn, place, timer, sendVars, h2, aborted, sent, closing,
                   events, flushed>>

\* Bound: at most one Cancel of a call is queued at a time.
Cancel(i) ==
    /\ i \in issued
    /\ T("cancel", i) \notin Elems(tasks)
    /\ Post(T("cancel", i))
    /\ UNCHANGED <<conn, place, timer, sendVars, h2, aborted, userVars, events,
                   flushed>>

StreamSend(s, m, close) ==
    /\ s \in issued
    /\ m \notin UNION {Elems(sent[r]) : r \in Streams}
    /\ sent' = [sent EXCEPT ![s] = Append(@, m)]
    /\ Post([op |-> "send", id |-> s, out |-> [msg |-> m, close |-> close]])
    /\ UNCHANGED <<conn, place, timer, sendVars, h2, aborted, issued, timed,
                   closing, events, flushed>>

StreamCloseSend(s) ==
    /\ s \in issued \ closing
    /\ closing' = closing \cup {s}
    /\ Post(T("closeSend", s))
    /\ UNCHANGED <<conn, place, timer, sendVars, h2, aborted, issued, timed,
                   sent, events, flushed>>

-----------------------------------------------------------------------------
(* Posted tasks, run by the loop thread in the order they were posted. *)

IsNext(op, i) == tasks # <<>> /\ Head(tasks).op = op /\ Head(tasks).id = i

(* CallNow and OpenStreamNow on the ids of S: nghttp2 refuses a stream id to *)
(* those of bad, which fail; the others go live, and the parked messages of  *)
(* a stream are seeded into its queue and the first one pumped.  A half-     *)
(* close anywhere in a parked queue moves to the last message as well.       *)
Seeded(q) == IF \E k \in DOMAIN q : q[k].close THEN CloseLast(q) ELSE q

Launch(S, bad, blk, rest) ==
    LET good == S \ bad
        q    == Set([s \in Streams |-> IF s \in S THEN Seeded(out_queue[s])
                                      ELSE out_queue[s]], bad, <<>>)
        pump == {s \in good \cap Streams : q[s] # <<>>}
        now  == Consumed(pump, blk)
    IN  /\ place' = Set(Set(place, good, "live"), bad, "over")
        /\ h2' = Set(h2, good, "open")
        /\ events' = Add(events, bad, "Unavailable")
        /\ PumpStreams(pump, q, blk)
        /\ flushed' = Add(Add(flushed, Queued(bad), "Unavailable"),
                          {Head(q[s]).msg : s \in now}, "Ok")
        /\ \E o \in [1..Cardinality(now) -> now] :
              /\ Elems(o) = now
              /\ tasks' = rest \o [k \in DOMAIN o |-> T("pump", o[k])]

\* The deadline timer of a unary call is set before anything else is tried;
\* a call that fails on the spot cancels it again.
StartTimer(i) == timer' = Set(timer, {i} \cap timed, "armed")

StartReady(i) ==
    /\ conn = "Ready"
    /\ \/ Launch({i}, {}, {}, Tail(tasks)) /\ StartTimer(i)
       \/ Launch({i}, {i}, {}, Tail(tasks)) /\ UNCHANGED timer
    /\ UNCHANGED conn

\* Bug variant of StartBroken: the call is dropped without an answer.
StartBrokenDrops(i) ==
    /\ conn = "Broken"
    /\ tasks' = Tail(tasks)
    /\ UNCHANGED <<conn, place, events, flushed, timer, sendVars, h2>>

StartBroken(i) ==
    /\ conn = "Broken"
    /\ Finish({i}, "Unavailable")
    /\ tasks' = Tail(tasks)
    /\ UNCHANGED <<conn, timer, out_inflight, send_closed, item, wire, h2>>

\* Bug variant of StartPending: nobody starts the connect.
StartPendingNoConnect(i) ==
    /\ conn \in {"Idle", "Connecting"}
    /\ place' = [place EXCEPT ![i] = "pending"]
    /\ tasks' = Tail(tasks)
    /\ UNCHANGED <<conn, timer, sendVars, h2, events, flushed>>

\* ConnectNow, if this is the first call.
StartPending(i) ==
    /\ conn \in {"Idle", "Connecting"}
    /\ conn' = "Connecting"
    /\ place' = [place EXCEPT ![i] = "pending"]
    /\ IF i \in Calls THEN StartTimer(i) ELSE UNCHANGED timer
    /\ tasks' = Tail(tasks)
    /\ UNCHANGED <<sendVars, h2, events, flushed>>

\* ConnectNow fails on the spot: unary calls fail, a stream stays pending.
StartConnectFails(i) ==
    /\ conn = "Idle"
    /\ conn' = "Broken"
    /\ IF i \in Calls
       THEN Finish({i}, "Unavailable")
       ELSE /\ place' = [place EXCEPT ![i] = "pending"]
            /\ UNCHANGED <<events, flushed, out_queue>>
    /\ tasks' = Tail(tasks)
    /\ UNCHANGED <<timer, out_inflight, send_closed, item, wire, h2>>

RunStart(i) ==
    /\ IsNext("start", i)
    /\ \/ StartReady(i) \/ StartBroken(i)
       \/ StartPending(i) \/ StartConnectFails(i)
    /\ UNCHANGED <<aborted, userVars>>

\* Only Impl::calls is searched: a pending call or a stream is not found.
RunCancel(i) ==
    /\ IsNext("cancel", i)
    /\ tasks' = Tail(tasks)
    /\ IF i \in Calls /\ place[i] = "live"
       THEN /\ Finish({i}, "Unavailable")
            /\ timer' = CancelTimers({i})
            /\ h2' = [h2 EXCEPT ![i] = "closed"]
       ELSE UNCHANGED <<place, events, flushed, out_queue, timer, h2>>
    /\ UNCHANGED <<conn, out_inflight, send_closed, item, wire, aborted, userVars>>

\* PumpStream of a live stream with queues q: it returns early, or hands one
\* message to the session.  A message taken at once is answered, and the
\* next pump is posted.
PumpStream(s, q) ==
    \E blk \in SUBSET {s} :
        LET S   == {s} \cap {r \in Streams \ out_inflight : q[r] # <<>>}
            now == Consumed(S, blk)
        IN  /\ PumpStreams(S, q, blk)
            /\ flushed' = Add(flushed, {Head(q[r]).msg : r \in now}, "Ok")
            /\ tasks' = IF now = {} THEN Tail(tasks)
                                    ELSE Append(Tail(tasks), T("pump", s))

SendRefused(o, st) ==
    /\ flushed' = Add(flushed, {o.msg}, st)
    /\ tasks' = Tail(tasks)
    /\ UNCHANGED sendVars

SendParked(s, o) ==
    /\ out_queue' = [out_queue EXCEPT ![s] = Append(@, o)]
    /\ tasks' = Tail(tasks)
    /\ UNCHANGED <<out_inflight, send_closed, item, wire, flushed>>

Full(s) == Len(out_queue[s]) >= SendQueueCap

RunSend(s) ==
    /\ IsNext("send", s)
    /\ LET o    == Head(tasks).out
           open == place[s] = "live" /\ s \notin send_closed
       IN  \/ /\ place[s] = "pending" /\ ~Full(s)
              /\ SendParked(s, o)
           \/ /\ open /\ ~Full(s)
              /\ PumpStream(s, [out_queue EXCEPT ![s] = Append(@, o)])
           \/ /\ (place[s] = "pending" \/ open) /\ Full(s)
              /\ SendRefused(o, "ResourceExhausted")
           \/ /\ place[s] = "live" /\ s \in send_closed
              /\ SendRefused(o, "Internal")
           \/ /\ place[s] \in {"none", "over"}
              /\ SendRefused(o, "Unavailable")
    /\ UNCHANGED <<conn, place, timer, h2, aborted, userVars, events>>

CloseQueued(s) ==
    /\ out_queue[s] # <<>>
    /\ out_queue' = [out_queue EXCEPT ![s] = CloseLast(@)]
    /\ UNCHANGED <<send_closed, item, wire>>

CloseParked(s) ==
    /\ out_queue[s] = <<>>
    /\ out_queue' = [out_queue EXCEPT ![s] = <<HalfClose>>]
    /\ UNCHANGED <<send_closed, item, wire>>

\* An empty DATA with END_STREAM, submitted whether or not a message is in
\* flight, and without on_consumed.
CloseNow(s) ==
    /\ out_queue[s] = <<>>
    /\ send_closed' = send_closed \cup {s}
    /\ \/ Accepts(s) /\ wire' = [wire EXCEPT ![s] = Append(@, HalfClose)] /\ UNCHANGED item
       \/ Accepts(s) /\ item' = [item EXCEPT ![s] = HalfClose] /\ UNCHANGED wire
       \/ ~Accepts(s) /\ UNCHANGED <<item, wire>>
    /\ UNCHANGED out_queue

RunCloseSend(s) ==
    /\ IsNext("closeSend", s)
    /\ tasks' = Tail(tasks)
    /\ LET open == place[s] = "live" /\ s \notin send_closed
       IN  \/ place[s] = "pending" /\ (CloseQueued(s) \/ CloseParked(s))
           \/ open /\ (CloseQueued(s) \/ CloseNow(s))
           \/ ~open /\ place[s] # "pending" /\ UNCHANGED <<out_queue, send_closed, item, wire>>
    /\ UNCHANGED <<conn, place, timer, out_inflight, h2, aborted, userVars,
                   events, flushed>>

RunPump(s) ==
    /\ IsNext("pump", s)
    /\ \/ place[s] = "live" /\ PumpStream(s, out_queue)
       \/ place[s] # "live" /\ tasks' = Tail(tasks) /\ UNCHANGED <<sendVars, flushed>>
    /\ UNCHANGED <<conn, place, timer, h2, aborted, userVars, events>>

RunTask ==
    \/ \E i \in Ids : RunStart(i) \/ RunCancel(i)
    \/ \E s \in Streams : RunSend(s) \/ RunCloseSend(s) \/ RunPump(s)

-----------------------------------------------------------------------------
(* Timers and the connection *)

\* Bug variant of CloseEnds: the mark is not looked at.
CloseEndsAnyway(i, marked) == place[i] = "live"

(* OnStreamClose ends a live call with UNAVAILABLE unless it is marked       *)
(* (completed, rst_pending).  The timer handlers mark a call before they     *)
(* reset its stream, because nghttp2 reports that close from within          *)
(* ResetStream.                                                              *)
CloseEnds(i, marked) == place[i] = "live" /\ ~marked

Timeout(i) ==
    /\ timer[i] = "armed"
    /\ timer' = [timer EXCEPT ![i] = "fired"]
    /\ IF place[i] = "live"
       THEN /\ Finish({i}, IF CloseEnds(i, TRUE) THEN "Unavailable"
                                                ELSE "DeadlineExceeded")
            /\ h2' = [h2 EXCEPT ![i] = "closed"]
            /\ item' = Set(item, {i}, NoItem)
       ELSE UNCHANGED <<place, events, flushed, out_queue, h2, item>>
    /\ UNCHANGED <<tasks, conn, out_inflight, send_closed, wire, aborted, userVars>>

\* StartPending, then StartPendingStreams.
ConnectOk ==
    /\ conn = "Connecting"
    /\ conn' = "Ready"
    /\ \E bad \in SUBSET Held("pending"), blk \in SUBSET Streams :
          /\ Launch(Held("pending"), bad, blk, tasks)
          /\ timer' = [i \in Ids |->
                IF i \in (Held("pending") \ bad) \cap Streams \cap timed THEN "armed"
                ELSE CancelTimers(bad)[i]]
    /\ UNCHANGED <<aborted, userVars>>

\* Bug variant of ConnectFail: pending calls are not failed.
ConnectFailForgets ==
    /\ conn = "Connecting"
    /\ conn' = "Broken"
    /\ UNCHANGED <<tasks, place, timer, sendVars, h2, aborted, userVars, events,
                   flushed>>

\* FailPending covers the unary calls; pending streams stay where they are.
ConnectFail ==
    /\ conn = "Connecting"
    /\ conn' = "Broken"
    /\ Finish(Held("pending") \cap Calls, "Unavailable")
    /\ timer' = CancelTimers(Held("pending") \cap Calls)
    /\ UNCHANGED <<tasks, out_inflight, send_closed, item, wire, h2, aborted, userVars>>

\* The session and all the maps go at once; the timers of streams are left
\* armed and will find nothing.
OnConnectionLost ==
    /\ conn = "Ready"
    /\ conn' = "Broken"
    /\ Finish(Held("live") \cup Held("pending"), "Unavailable")
    /\ timer' = CancelTimers((Held("live") \cup Held("pending")) \cap Calls)
    /\ h2' = [i \in Ids |-> IF h2[i] = "none" THEN "none" ELSE "closed"]
    /\ item' = [s \in Streams |-> NoItem]
    /\ UNCHANGED <<tasks, out_inflight, send_closed, wire, aborted, userVars>>

-----------------------------------------------------------------------------
(* Frames of the peer, as nghttp2 delivers them *)

\* Bug variant of End: no check that the call is still known.
EndAnyway(i, st) == Finish({i}, st) /\ timer' = CancelTimers({i})

\* The handlers look the call up by stream id and ignore frames of others.
End(i, st) ==
    /\ Finish({i} \cap Held("live"), st)
    /\ timer' = CancelTimers({i} \cap Held("live"))

recvVars == <<tasks, conn, out_inflight, send_closed, wire, userVars>>

\* OnHeadersComplete: :status 200 and no grpc-status.
RecvHeaders(i) ==
    /\ h2[i] = "open"
    /\ h2' = [h2 EXCEPT ![i] = "body"]
    /\ UNCHANGED <<recvVars, place, timer, out_queue, item, aborted, events, flushed>>

\* OnHeadersComplete: another :status, with or without END_STREAM, or
\* trailers without grpc-status.
RecvBadHeaders(i) ==
    /\ h2[i] \in {"open", "body"}
    /\ \E e \in {"body", "ended"} \ {h2[i]} : h2' = [h2 EXCEPT ![i] = e]
    /\ End(i, "Unavailable")
    /\ UNCHANGED <<recvVars, item, aborted>>

\* OnHeadersComplete: a block with grpc-status (trailers or trailers-only).
RecvTrailers(i, st) ==
    /\ h2[i] \in {"open", "body"}
    /\ h2' = [h2 EXCEPT ![i] = "ended"]
    /\ End(i, st)
    /\ UNCHANGED <<recvVars, item, aborted>>

\* OnData: one whole message (a unary call keeps it in its decoder).
RecvMessage(s) ==
    /\ h2[s] = "body"
    /\ Len(events[s]) < MaxReplies
    /\ events' = Add(events, {s} \cap Held("live"), Message)
    /\ UNCHANGED <<recvVars, place, timer, out_queue, h2, item, aborted, flushed>>

\* OnData: the decoder rejects the bytes (bad frame, message too large).
RecvBadData(i, st) ==
    /\ h2[i] = "body"
    /\ End(i, st)
    /\ UNCHANGED <<recvVars, h2, item, aborted>>

\* The peer ends its side without trailers.
RecvEnd(i) ==
    /\ PeerAborts
    /\ h2[i] = "body"
    /\ h2' = [h2 EXCEPT ![i] = "ended"]
    /\ UNCHANGED <<recvVars, place, timer, out_queue, item, aborted, events, flushed>>

(* OnStreamClose: the peer reset the stream, or both sides have ended.       *)
(* Ending a live call erases its entry in by_stream / stream_by_sid, and     *)
(* the handler then erases it again through the iterator it holds: undefined *)
(* behaviour, in practice a double free that aborts or goes unnoticed.       *)
OnStreamClose(i) ==
    /\ h2[i] \in {"open", "body", "ended"}
    /\ PeerAborts \/ (h2[i] = "ended" /\ (i \in Streams => EndSent(i)))
    /\ h2' = [h2 EXCEPT ![i] = "closed"]
    /\ item' = Set(item, {i}, NoItem)
    /\ End(i, "Unavailable")
    /\ aborted' \in {FALSE, CloseEnds(i, FALSE)}
    /\ UNCHANGED recvVars

(* WINDOW_UPDATE: the item held back is sent.  If PumpStream attached it,    *)
(* on_consumed clears out_inflight, posts a pump and answers on_flushed.     *)
Unblock(s) ==
    /\ item[s] # NoItem
    /\ wire' = [wire EXCEPT ![s] = Append(@, item[s])]
    /\ item' = [item EXCEPT ![s] = NoItem]
    /\ IF s \in out_inflight
       THEN /\ out_inflight' = out_inflight \ {s}
            /\ Post(T("pump", s))
            /\ flushed' = Add(flushed, {item[s].msg}, "Ok")
       ELSE UNCHANGED <<out_inflight, tasks, flushed>>
    /\ UNCHANGED <<conn, place, timer, send_closed, out_queue, h2, aborted,
                   userVars, events>>

-----------------------------------------------------------------------------
Api ==
    \/ \E i \in Ids : Cancel(i) \/ \E deadline \in BOOLEAN : Issue(i, deadline)
    \/ \E s \in Streams : \/ StreamCloseSend(s)
                          \/ \E m \in Msgs, close \in BOOLEAN : StreamSend(s, m, close)

Frame(i) ==
    \/ RecvHeaders(i) \/ RecvBadHeaders(i) \/ RecvEnd(i) \/ OnStreamClose(i)
    \/ \E st \in PeerStatus : RecvTrailers(i, st)
    \/ \E st \in {"Internal", "ResourceExhausted"} : RecvBadData(i, st)

Next ==
    /\ ~aborted
    /\ \/ Api \/ RunTask
       \/ ConnectOk \/ ConnectFail \/ OnConnectionLost
       \/ \E i \in Ids : Timeout(i) \/ Frame(i)
       \/ \E s \in Streams : RecvMessage(s) \/ Unblock(s)

Spec == Init /\ [][Next]_vars

(* Fairness.  The loop thread keeps running posted tasks and due timers; the *)
(* operating system resolves a connect; nghttp2 reports a stream that both   *)
(* sides have ended; the peer grants window.  A peer that answers also ends  *)
(* the streams it is given.  A dead process does none of it.                 *)
Up(A) == ~aborted /\ A

LoopFairness == WF_vars(Up(RunTask)) /\ \A i \in Ids : WF_vars(Up(Timeout(i)))
ConnectFairness == WF_vars(Up(ConnectOk \/ ConnectFail))
SessionFairness ==
    /\ \A s \in Streams : WF_vars(Up(Unblock(s)))
    /\ \A i \in Ids : WF_vars(Up(h2[i] = "ended" /\ OnStreamClose(i)))
PeerFairness == \A i \in Ids : WF_vars(Up(\E st \in PeerStatus : RecvTrailers(i, st)))

\* A silent peer: only this end and the network below it make progress.
LocalSpec == Spec /\ LoopFairness /\ ConnectFairness /\ SessionFairness
FairSpec  == LocalSpec /\ PeerFairness

-----------------------------------------------------------------------------
(* Properties *)

Ended(i)  == \E k \in DOMAIN events[i] : events[i][k] \in Status

\* The positions in a task queue of the task that starts call i.
Starts(q, i) == {k \in DOMAIN q : q[k].op = "start" /\ q[k].id = i}
Posted(i)    == Starts(tasks, i) # {}

(* channel.h, "`done` fires exactly once" and "on_complete fires exactly     *)
(* once": whatever timers, cancels, frames and connection losses race, a     *)
(* terminal status is the last thing a caller hears, so it hears only one.   *)
TerminalLast ==
    \A i \in Ids : \A k \in DOMAIN events[i] :
        events[i][k] \in Status => k = Len(events[i])

(* No call is forgotten: a call that was issued and has not ended is in      *)
(* exactly one place, its one posted task or one of the channel's            *)
(* containers, and they drop a call exactly when its owner is told.          *)
Accounted ==
    \A i \in Ids :
        /\ i \in issued <=> (Posted(i) \/ place[i] # "none")
        /\ Posted(i) => place[i] = "none"
        /\ \A j, k \in Starts(tasks, i) : j = k
        /\ Ended(i) <=> place[i] = "over"

(* No unary call waits for something that cannot happen: it is pending only  *)
(* while a connect is outstanding, and live only on a ready connection whose *)
(* HTTP/2 stream can still deliver its end (ConnectNow, OnConnectionLost).   *)
NoCallWaitsInVain ==
    /\ \A c \in Calls : place[c] = "pending" => conn = "Connecting"
    /\ \A i \in Ids : place[i] = "live" =>
                          conn = "Ready" /\ h2[i] \in {"open", "body", "ended"}

\* The messages of stream s in a task queue, one entry per task.
Posts(q, s) == [k \in DOMAIN q |-> IF q[k].op = "send" /\ q[k].id = s
                                   THEN q[k].out ELSE NoItem]

\* What stream s has under way, from the wire back to the API.
Pipeline(s) == wire[s] \o <<item[s]>> \o out_queue[s] \o Posts(tasks, s)

(* Messages of a stream reach the wire in the order StreamSend was called,   *)
(* none twice, across parking, seeding and pumping; END_STREAM is last.      *)
WireInOrder ==
    \A s \in Streams :
        LET pos(k) == CHOOSE j \in DOMAIN sent[s] : sent[s][j] = Pipeline(s)[k].msg
            full   == {k \in DOMAIN Pipeline(s) : Pipeline(s)[k].msg # NoMsg}
        IN  /\ \A j, k \in full : j < k => pos(j) < pos(k)
            /\ \A k \in DOMAIN wire[s] : wire[s][k].close => k = Len(wire[s])

(* on_flushed fires at most once per message, and with OK for every message  *)
(* the transport took (PumpStream's on_consumed against CompleteStream).     *)
FlushedOnce ==
    \A m \in Msgs :
        /\ Len(flushed[m]) <= 1
        /\ (\E s \in Streams, c \in BOOLEAN : [msg |-> m, close |-> c] \in Elems(wire[s]))
              => flushed[m] = <<"Ok">>

(* A deadline that fires on a call in flight is reported as                  *)
(* DEADLINE_EXCEEDED, although resetting the stream makes nghttp2 report it  *)
(* closed first.                                                             *)
DeadlineReported ==
    [][\A i \in Ids : timer[i] = "armed" /\ timer'[i] = "fired" /\ place[i] = "live"
          => events'[i] = Append(events[i], "DeadlineExceeded")]_vars

Promise == INSTANCE CallPromise

(* The channel implements the contract of CallPromise. *)
PromiseSpec == Promise!Spec

(* If the peer ends the streams it is given, every unary call completes,     *)
(* also when the connect fails, the connection is lost or the peer resets    *)
(* the stream, unless the process dies of OnStreamClose's double erase.      *)
CallsComplete == \A c \in Calls : c \in issued ~> Ended(c) \/ aborted

=============================================================================
