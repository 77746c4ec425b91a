------------------------- MODULE ChannelWireProofs -------------------------
(***************************************************************************)
(* What the channel puts on the wire, for any number of streams and        *)
(* messages: with the lines of ChannelSendProofs, what the HTTP/2 session  *)
(* holds for a stream is the inductive invariant from which each message   *)
(* is flushed once and reaches the wire in the order it was sent.          *)
(***************************************************************************)
EXTENDS ChannelSendProofs

-----------------------------------------------------------------------------
(* What the session holds *)

(* Whatever starts a call finds it nowhere. *)
LEMMA StartsNowhere ==
    ASSUME TypeOK, Accounted, NEW i \in Ids, IsNext("start", i)
    PROVE  place[i] = "none"
<1>1. 1 \in DOMAIN tasks /\ tasks[1].op = "start" /\ tasks[1].id = i
  BY HeadTailProperties DEF TypeOK, IsNext
<1>. QED
  BY <1>1 DEF Accounted, Posted, Starts

(* A step that gives the session nothing. *)
LEMMA SessionKept ==
    ASSUME NEW s \in Streams, InSession(s), UNCHANGED <<out_inflight, wire>>,
           item'[s] = item[s] \/ item'[s] = NoItem,
           place'[s] \in {"none", "pending"} => place[s] \in {"none", "pending"}
    PROVE  InSession(s)'
<1>1. EndSent(s)' <=> EndSent(s)
  BY DEF EndSent
<1>2. item'[s] = NoItem => item'[s].msg = NoMsg
  BY DEF NoItem
<1>. QED
  BY Zenon, <1>1, <1>2 DEF InSession

(* END_STREAM stays last if nothing follows it. *)
LEMMA CloseStaysLast ==
    ASSUME NEW w \in Seq(OutMsg), NEW o \in OutMsg,
           \A k \in DOMAIN w : w[k].close => k = Len(w),
           ~(w # <<>> /\ w[Len(w)].close)
    PROVE  \A k \in DOMAIN Append(w, o) : Append(w, o)[k].close => k = Len(Append(w, o))
<1>. DEFINE a == Append(w, o)
<1>1. /\ Len(w) \in Nat /\ DOMAIN w = 1..Len(w) /\ DOMAIN a = 1..(Len(w) + 1)
      /\ \A k \in 1..Len(w) : a[k] = w[k]
      /\ Len(a) = Len(w) + 1
  BY AppendProperties
<1>. HIDE DEF a
<1>2. \A k \in 1..(Len(w) + 1) : k \in 1..Len(w) \/ k = Len(w) + 1
  BY <1>1
<1>3. \A k \in 1..Len(w) : ~w[k].close
  <2>1. \A k \in 1..Len(w) : w # <<>>
    OBVIOUS
  <2>. QED
    BY <1>1, <2>1
<1>4. \A k \in DOMAIN a : a[k].close => k = Len(a)
  BY <1>1, <1>2, <1>3
<1>. QED
  BY <1>4 DEF a

(* PumpStream gives the session messages of live streams only. *)
LEMMA SessionPumped ==
    ASSUME TypeOK, NEW S \in SUBSET Streams, NEW q \in [Streams -> Seq(OutMsg)],
           NEW blk, \A r \in S : q[r] # <<>>, PumpStreams(S, q, blk),
           NEW s \in Streams, InSession(s),
           place'[s] \in {"none", "pending"} => s \notin S /\ place[s] \in {"none", "pending"}
    PROVE  InSession(s)'
<1>1. /\ Consumed(S, blk) \subseteq S
      /\ \A r \in Consumed(S, blk) : item[r] = NoItem /\ ~EndSent(r) /\ r \notin blk
  BY DEF Consumed, Accepts
<1>2. /\ wire'[s] = IF s \in Consumed(S, blk) THEN Append(wire[s], Head(q[s])) ELSE wire[s]
      /\ s \notin S => (s \in out_inflight' <=> s \in out_inflight)
      /\ s \in out_inflight /\ s \notin Consumed(S, blk) => s \in out_inflight'
      /\ s \in S /\ s \notin Consumed(S, blk) => s \in out_inflight'
      /\ \/ item'[s] = item[s]
         \/ /\ s \in S /\ s \notin Consumed(S, blk) /\ item[s] = NoItem /\ ~EndSent(s)
            /\ item'[s] = Head(q[s])
  BY <1>1 DEF PumpStreams, Consumed, Accepts
<1>3. wire[s] \in Seq(OutMsg) /\ (s \in S => Head(q[s]) \in OutMsg)
  BY HeadTailProperties DEF TypeOK
<1>4. CASE s \in Consumed(S, blk)
  <2>1. /\ item'[s] = NoItem /\ wire'[s] = Append(wire[s], Head(q[s]))
        /\ place'[s] \notin {"none", "pending"}
    BY <1>1, <1>2, <1>4
  <2>2. \A k \in DOMAIN wire'[s] : wire'[s][k].close => k = Len(wire'[s])
    BY <1>1, <1>3, <1>4, <2>1, CloseStaysLast DEF InSession, EndSent
  <2>. QED
    BY <2>1, <2>2 DEF InSession, NoItem
<1>5. CASE s \notin Consumed(S, blk)
  <2>1. wire'[s] = wire[s]
    BY <1>2, <1>5
  <2>2. CASE item'[s] = item[s]
    BY <1>2, <1>5, <2>1, <2>2 DEF InSession, EndSent
  <2>3. CASE s \in S /\ item[s] = NoItem /\ ~EndSent(s) /\ item'[s] = Head(q[s])
    BY <1>2, <1>5, <2>1, <2>3 DEF InSession, EndSent
  <2>. QED
    BY <1>2, <2>2, <2>3
<1>. QED
  BY <1>4, <1>5
(* Everything about the send side that a step preserves. *)
SendInv == SendLine /\ \A s \in Streams : InSession(s)

(* Steps of the calls: queues are emptied and answered, items dropped. *)
LEMMA FinishInv ==
    ASSUME TypeOK, SendInv, NEW S, NEW st \in Status,
           out_queue' = Set(out_queue, S, <<>>), flushed' = Add(flushed, Queued(S), st),
           UNCHANGED <<wire, sent, out_inflight>>,
           \A s \in Streams : item'[s] = item[s] \/ item'[s] = NoItem,
           tasks' = tasks \/ (tasks # <<>> /\ tasks' = Tail(tasks)),
           \A s \in Streams : place'[s] \in {"none", "pending"} => place[s] \in {"none", "pending"}
    PROVE  SendInv'
<1>1. SendLine'
  BY FinishSend DEF SendInv, SendLine
<1>2. \A s \in Streams : InSession(s)'
  BY SessionKept DEF SendInv
<1>. QED
  BY <1>1, <1>2 DEF SendInv

(* Those that answer nothing. *)
LEMMA QuietInv ==
    ASSUME TypeOK, SendInv, UNCHANGED <<out_queue, flushed, wire, sent, out_inflight>>,
           \A s \in Streams : item'[s] = item[s] \/ item'[s] = NoItem,
           tasks' = tasks \/ (tasks # <<>> /\ tasks' = Tail(tasks)),
           \A s \in Streams : place'[s] \in {"none", "pending"} => place[s] \in {"none", "pending"}
    PROVE  SendInv'
<1>. DEFINE S == {}
<1>1. out_queue' = Set(out_queue, S, <<>>) /\ flushed' = Add(flushed, Queued(S), "Ok")
  BY DEF Set, Add, Queued, TypeOK
<1>2. "Ok" \in Status
  BY DEF Status
<1>. HIDE DEF S
<1>. QED
  BY <1>1, <1>2, FinishInv

(* Finish, in a step that gives the session nothing. *)
LEMMA FinishedInv ==
    ASSUME TypeOK, SendInv, NEW S \in SUBSET Ids, NEW st \in Status, Finish(S, st),
           UNCHANGED <<wire, sent, out_inflight>>,
           \A s \in Streams : item'[s] = item[s] \/ item'[s] = NoItem,
           tasks' = tasks \/ (tasks # <<>> /\ tasks' = Tail(tasks))
    PROVE  SendInv'
<1>1. out_queue' = Set(out_queue, S, <<>>) /\ flushed' = Add(flushed, Queued(S), st)
  BY DEF Finish
<1>2. \A s \in Streams : place'[s] \in {"none", "pending"} => place[s] \in {"none", "pending"}
  BY FinishPoint DEF Ids
<1>. QED
  BY <1>1, <1>2, FinishInv

(* Launch, of calls and streams that were not yet in the session. *)
LEMMA LaunchInv ==
    ASSUME TypeOK, SendInv, sent' = sent, NEW S \in SUBSET Ids, NEW bad \in SUBSET S, NEW blk,
           NEW rest \in Seq(Task), Launch(S, bad, blk, rest),
           rest = tasks \/ (tasks # <<>> /\ rest = Tail(tasks))
    PROVE  SendInv'
<1>1. SendLine'
  BY LaunchLine DEF SendInv
<1>2. ASSUME NEW s \in Streams PROVE InSession(s)'
  <2>. DEFINE q    == Set([r \in Streams |-> IF r \in S THEN Seeded(out_queue[r])
                                            ELSE out_queue[r]], bad, <<>>)
              pump == {r \in (S \ bad) \cap Streams : q[r] # <<>>}
  <2>1. q \in [Streams -> Seq(OutMsg)]
    <3>1. \A r \in Streams : out_queue[r] \in Seq(OutMsg)
      BY DEF TypeOK
    <3>2. \A r \in Streams : Seeded(out_queue[r]) \in Seq(OutMsg)
      BY <3>1, SeededType
    <3>3. [r \in Streams |-> IF r \in S THEN Seeded(out_queue[r]) ELSE out_queue[r]]
            \in [Streams -> Seq(OutMsg)]
      BY <3>1, <3>2
    <3>4. <<>> \in Seq(OutMsg)
      OBVIOUS
    <3>. QED
      BY ZenonT(30), <3>3, <3>4, SetType
  <2>2. pump \in SUBSET Streams /\ pump \subseteq S /\ \A r \in pump : q[r] # <<>>
    OBVIOUS
  <2>3. PumpStreams(pump, q, blk)
    BY ZenonT(30) DEF Launch
  <2>. HIDE DEF q, pump
  <2>4. place'[s] \in {"none", "pending"} => s \notin pump /\ place[s] \in {"none", "pending"}
    <3>1. place'[s] = IF s \in bad THEN "over" ELSE IF s \in S THEN "live" ELSE place[s]
      BY ZenonT(30), LaunchPoint DEF Ids
    <3>. QED
      BY Zenon, <2>2, <3>1
  <2>. QED
    BY <2>1, <2>2, <2>3, <2>4, SessionPumped DEF SendInv
<1>. QED
  BY <1>1, <1>2 DEF SendInv

(* Running the start task of a call or a stream. *)
LEMMA RunStartInv ==
    ASSUME TypeOK, Accounted, SendInv, NEW i \in Ids, RunStart(i)
    PROVE  SendInv'
<1>1. /\ tasks # <<>> /\ Tail(tasks) \in Seq(Task) /\ IsNext("start", i) /\ sent' = sent
      /\ place[i] = "none"
  BY NextTask, StartsNowhere DEF RunStart, IsNext, userVars
<1>2. "Unavailable" \in Status /\ {i} \in SUBSET Ids
  BY DEF Status
<1>3. CASE StartReady(i)
  <2>1. PICK bad \in {{}, {i}} : Launch({i}, bad, {}, Tail(tasks))
    BY <1>3 DEF StartReady
  <2>2. bad \in SUBSET {i}
    BY <2>1
  <2>. QED
    BY Zenon, <1>1, <1>2, <2>1, <2>2, LaunchInv
<1>4. CASE StartBroken(i)
  BY <1>1, <1>2, <1>4, FinishedInv DEF StartBroken
<1>5. CASE StartPending(i)
  BY SMTT(30), <1>1, <1>5, QuietInv DEF StartPending, sendVars, TypeOK
<1>6. CASE StartConnectFails(i)
  <2>1. UNCHANGED <<item, wire, out_inflight>> /\ tasks' = Tail(tasks)
    BY <1>6 DEF StartConnectFails
  <2>2. CASE i \in Calls
    BY <1>1, <1>2, <1>6, <2>1, <2>2, FinishedInv DEF StartConnectFails
  <2>3. CASE i \notin Calls
    <3>1. UNCHANGED <<flushed, out_queue>> /\ place' = [place EXCEPT ![i] = "pending"]
      BY <1>6, <2>3 DEF StartConnectFails
    <3>2. \A s \in Streams : place'[s] \in {"none", "pending"} => place[s] \in {"none", "pending"}
      BY <1>1, <3>1 DEF TypeOK, Ids
    <3>. QED
      BY <1>1, <2>1, <3>1, <3>2, QuietInv
  <2>. QED
    BY <2>2, <2>3
<1>. QED
  BY <1>3, <1>4, <1>5, <1>6 DEF RunStart

(* Cancel and deadlines. *)
LEMMA CancelInv ==
    ASSUME TypeOK, SendInv, NEW i \in Ids, RunCancel(i) \/ Timeout(i)
    PROVE  SendInv'
<1>1. UNCHANGED <<wire, sent, out_inflight>>
  BY ZenonT(30) DEF RunCancel, Timeout, userVars
<1>2. tasks' = tasks \/ (tasks # <<>> /\ tasks' = Tail(tasks))
  BY ZenonT(30) DEF RunCancel, Timeout, IsNext
<1>3. \A s \in Streams : item'[s] = item[s] \/ item'[s] = NoItem
  <2>1. item' = item \/ item' = Set(item, {i}, NoItem)
    BY ZenonT(30) DEF RunCancel, Timeout
  <2>. QED
    BY <2>1 DEF Set, TypeOK
<1>4. \/ \E st \in Status : Finish({i}, st)
      \/ UNCHANGED <<place, flushed, out_queue>>
  BY ZenonT(30) DEF RunCancel, Timeout, Status
<1>5. {i} \in SUBSET Ids
  OBVIOUS
<1>. QED
  BY ZenonT(30), <1>1, <1>2, <1>3, <1>4, <1>5, FinishedInv, QuietInv

(* The outcome of a connect and the loss of a connection. *)
LEMMA ConnectionInv ==
    ASSUME TypeOK, SendInv, ConnectOk \/ ConnectFail \/ OnConnectionLost
    PROVE  SendInv'
<1>1. "Unavailable" \in Status /\ sent' = sent
  BY DEF Status, ConnectOk, ConnectFail, OnConnectionLost, userVars
<1>2. CASE ConnectOk
  <2>1. PICK bad \in SUBSET Held("pending"), blk \in SUBSET Streams :
           Launch(Held("pending"), bad, blk, tasks)
    BY <1>2 DEF ConnectOk
  <2>2. Held("pending") \in SUBSET Ids /\ tasks \in Seq(Task)
    BY DEF Held, TypeOK
  <2>. QED
    BY <1>1, <2>1, <2>2, LaunchInv
<1>3. CASE ConnectFail
  <2>. DEFINE S == Held("pending") \cap Calls
  <2>1. Finish(S, "Unavailable") /\ S \in SUBSET Ids /\ UNCHANGED <<tasks, item, wire, out_inflight>>
    BY <1>3 DEF ConnectFail, Held
  <2>. HIDE DEF S
  <2>. QED
    BY <1>1, <2>1, FinishedInv
<1>4. CASE OnConnectionLost
  <2>. DEFINE S == Held("live") \cup Held("pending")
  <2>1. /\ Finish(S, "Unavailable") /\ S \in SUBSET Ids /\ UNCHANGED <<tasks, wire, out_inflight>>
        /\ \A s \in Streams : item'[s] = NoItem
    BY <1>4 DEF OnConnectionLost, Held
  <2>. HIDE DEF S
  <2>. QED
    BY <1>1, <2>1, FinishedInv
<1>. QED
  BY <1>2, <1>3, <1>4

(* The frames of the peer. *)
LEMMA FrameInv ==
    ASSUME TypeOK, SendInv, NEW i \in Ids, Frame(i) \/ (i \in Streams /\ RecvMessage(i))
    PROVE  SendInv'
<1>1. UNCHANGED <<tasks, wire, sent, out_inflight>>
  BY ZenonT(30) DEF Frame, RecvHeaders, RecvBadHeaders, RecvEnd, OnStreamClose, RecvTrailers,
     RecvBadData, RecvMessage, recvVars, userVars
<1>2. \A s \in Streams : item'[s] = item[s] \/ item'[s] = NoItem
  <2>1. item' = item \/ item' = Set(item, {i}, NoItem)
    BY ZenonT(30) DEF Frame, RecvHeaders, RecvBadHeaders, RecvEnd, OnStreamClose, RecvTrailers,
       RecvBadData, RecvMessage
  <2>. QED
    BY <2>1 DEF Set, TypeOK
<1>3. UNCHANGED <<place, flushed, out_queue>> \/ \E st \in Status : End(i, st)
  BY ZenonT(30), ConstantsAssumption DEF Frame, RecvHeaders, RecvBadHeaders, RecvEnd,
     OnStreamClose, RecvTrailers, RecvBadData, RecvMessage, Status
<1>4. ASSUME NEW st \in Status, End(i, st) PROVE SendInv'
  <2>. DEFINE S == {i} \cap Held("live")
  <2>1. Finish(S, st) /\ S \in SUBSET Ids
    BY <1>4 DEF End
  <2>. HIDE DEF S
  <2>. QED
    BY <1>1, <1>2, <2>1, FinishedInv
<1>. QED
  BY <1>1, <1>2, <1>3, <1>4, QuietInv

(* A window update. *)
LEMMA UnblockInv ==
    ASSUME TypeOK, SendInv, NEW s \in Streams, Unblock(s)
    PROVE  SendInv'
<1>1. SendLine'
  BY UnblockLine DEF SendInv
<1>2. /\ wire'[s] = Append(wire[s], item[s]) /\ item'[s] = NoItem /\ place' = place
      /\ item[s] # NoItem /\ wire[s] \in Seq(OutMsg) /\ item[s] \in OutMsg
      /\ \A r \in Streams \ {s} : /\ wire'[r] = wire[r] /\ item'[r] = item[r]
                                  /\ r \in out_inflight' <=> r \in out_inflight
  BY DEF Unblock, TypeOK
<1>3. InSession(s)'
  <2>1. place[s] \notin {"none", "pending"} /\ ~EndSent(s)
    BY <1>2 DEF SendInv, InSession
  <2>2. \A k \in DOMAIN wire'[s] : wire'[s][k].close => k = Len(wire'[s])
    BY <1>2, <2>1, CloseStaysLast DEF SendInv, InSession, EndSent
  <2>. QED
    BY <1>2, <2>1, <2>2 DEF InSession, NoItem
<1>4. \A r \in Streams \ {s} : InSession(r)'
  BY <1>2 DEF SendInv, InSession, EndSent
<1>. QED
  BY <1>1, <1>3, <1>4 DEF SendInv
(* PumpStream of a live stream: what is inside the session stays in order. *)
LEMMA PumpStreamSession ==
    ASSUME TypeOK, NEW s \in Streams, NEW q \in [Streams -> Seq(OutMsg)],
           PumpStream(s, q), place' = place, place[s] = "live",
           \A r \in Streams : InSession(r)
    PROVE  \A r \in Streams : InSession(r)'
<1>1. PICK blk \in SUBSET {s} :
         PumpStreams({s} \cap {r \in Streams \ out_inflight : q[r] # <<>>}, q, blk)
  BY Zenon DEF PumpStream
<1>. DEFINE S == {s} \cap {r \in Streams \ out_inflight : q[r] # <<>>}
<1>2. /\ S \in SUBSET Streams /\ PumpStreams(S, q, blk)
      /\ \A r \in S : q[r] # <<>> /\ r = s
  BY <1>1
<1>. HIDE DEF S
<1>3. ASSUME NEW r \in Streams PROVE InSession(r)'
  <2>1. place'[r] \in {"none", "pending"} => r \notin S /\ place[r] \in {"none", "pending"}
    BY <1>2
  <2>. QED
    BY Zenon, <1>2, <2>1, SessionPumped
<1>. QED
  BY <1>3

(* StreamSend's task: parked, pumped or refused. *)
LEMMA RunSendInv ==
    ASSUME TypeOK, SendInv, NEW s \in Streams, RunSend(s)
    PROVE  SendInv'
<1>1. SendLine'
  BY RunSendLine DEF SendInv
<1>2. place' = place
  BY DEF RunSend
<1>3. ASSUME UNCHANGED <<out_inflight, item, wire>> PROVE \A r \in Streams : InSession(r)'
  BY <1>2, <1>3, SessionKept DEF SendInv
<1>4. CASE SendParked(s, Head(tasks).out)
  BY <1>1, <1>3, <1>4 DEF SendParked, SendInv
<1>5. CASE \E st \in Status : SendRefused(Head(tasks).out, st)
  BY <1>1, <1>3, <1>5 DEF SendRefused, sendVars, SendInv
<1>6. CASE /\ place[s] = "live"
           /\ PumpStream(s, [out_queue EXCEPT ![s] = Append(@, Head(tasks).out)])
  <2>. DEFINE q == [out_queue EXCEPT ![s] = Append(@, Head(tasks).out)]
  <2>1. q \in [Streams -> Seq(OutMsg)]
    <3>1. Head(tasks).out \in OutMsg
      BY NextTask DEF RunSend, IsNext, Task
    <3>. QED
      BY <3>1 DEF TypeOK
  <2>2. PumpStream(s, q)
    BY <1>6
  <2>. HIDE DEF q
  <2>. QED
    BY ZenonT(30), <1>1, <1>2, <1>6, <2>1, <2>2, PumpStreamSession DEF SendInv
<1>7. \/ SendParked(s, Head(tasks).out)
      \/ \E st \in Status : SendRefused(Head(tasks).out, st)
      \/ /\ place[s] = "live"
         /\ PumpStream(s, [out_queue EXCEPT ![s] = Append(@, Head(tasks).out)])
  BY ZenonT(30) DEF RunSend, Status
<1>. QED
  BY <1>4, <1>5, <1>6, <1>7

(* A posted pump. *)
LEMMA RunPumpInv ==
    ASSUME TypeOK, SendInv, NEW s \in Streams, RunPump(s)
    PROVE  SendInv'
<1>1. SendLine'
  BY RunPumpLine DEF SendInv
<1>2. CASE place[s] = "live" /\ PumpStream(s, out_queue)
  BY Zenon, <1>1, <1>2, PumpStreamSession DEF SendInv, RunPump, TypeOK
<1>3. CASE UNCHANGED sendVars
  BY Zenon, <1>1, <1>3, SessionKept DEF SendInv, RunPump, sendVars
<1>. QED
  BY <1>2, <1>3 DEF RunPump

(* StreamCloseSend's task. *)
LEMMA RunCloseSendInv ==
    ASSUME TypeOK, SendInv, NEW s \in Streams, RunCloseSend(s)
    PROVE  SendInv'
<1>1. SendLine'
  BY RunCloseSendLine DEF SendInv
<1>2. place' = place /\ out_inflight' = out_inflight
  BY DEF RunCloseSend
<1>3. ASSUME UNCHANGED <<item, wire>> PROVE \A r \in Streams : InSession(r)'
  BY <1>2, <1>3, SessionKept DEF SendInv
<1>4. ASSUME place[s] = "live", CloseNow(s), Accepts(s) PROVE \A r \in Streams : InSession(r)'
  <2>1. \A r \in Streams \ {s} : item'[r] = item[r] /\ wire'[r] = wire[r]
    BY <1>4 DEF CloseNow, TypeOK
  <2>2. \A r \in Streams \ {s} : InSession(r)'
    BY <1>2, <2>1 DEF SendInv, InSession, EndSent
  <2>3. ASSUME wire'[s] = Append(wire[s], HalfClose), item'[s] = NoItem PROVE InSession(s)'
    <3>1. \A k \in DOMAIN wire'[s] : wire'[s][k].close => k = Len(wire'[s])
      BY SMTT(30), <1>4, <2>3, CloseStaysLast, OutMsgType DEF SendInv, InSession, EndSent, Accepts, TypeOK
    <3>. QED
      BY SMTT(30), <1>2, <1>4, <2>3, <3>1 DEF InSession, NoItem
  <2>4. ASSUME item'[s] = HalfClose, wire'[s] = wire[s] PROVE InSession(s)'
    BY <1>2, <1>4, <2>4 DEF SendInv, InSession, EndSent, Accepts, HalfClose
  <2>5. \/ wire'[s] = Append(wire[s], HalfClose) /\ item'[s] = NoItem
        \/ item'[s] = HalfClose /\ wire'[s] = wire[s]
    BY Zenon, <1>4 DEF CloseNow, Accepts, TypeOK
  <2>. QED
    BY ZenonT(30), <2>2, <2>3, <2>4, <2>5
<1>5. UNCHANGED <<item, wire>> \/ (place[s] = "live" /\ CloseNow(s) /\ Accepts(s))
  BY ZenonT(30) DEF RunCloseSend, CloseQueued, CloseParked, CloseNow
<1>. QED
  BY <1>1, <1>3, <1>4, <1>5 DEF SendInv

(* The API only posts. *)
LEMMA ApiInv ==
    ASSUME TypeOK, SendInv, Api
    PROVE  SendInv'
<1>1. ASSUME UNCHANGED <<place, out_inflight, item, wire>> PROVE \A r \in Streams : InSession(r)'
  BY <1>1, SessionKept DEF SendInv
<1>2. CASE \E s \in Streams, m \in Msgs, close \in BOOLEAN : StreamSend(s, m, close)
  <2>1. PICK s \in Streams, m \in Msgs, close \in BOOLEAN : StreamSend(s, m, close)
    BY <1>2
  <2>2. SendLine'
    BY <2>1, StreamSendLine DEF SendInv
  <2>3. UNCHANGED <<place, out_inflight, item, wire>>
    BY <2>1 DEF StreamSend, sendVars
  <2>. QED
    BY <1>1, <2>2, <2>3 DEF SendInv
<1>3. CASE \E i \in Ids : Cancel(i) \/ \E deadline \in BOOLEAN : Issue(i, deadline)
  <2>1. PICK i \in Ids : Cancel(i) \/ \E deadline \in BOOLEAN : Issue(i, deadline)
    BY <1>3
  <2>2. PICK x \in Task : x.op # "send" /\ tasks' = Append(tasks, x)
    <3>1. T("start", i) \in Task /\ T("cancel", i) \in Task
      BY OutMsgType DEF T, Task
    <3>2. T("start", i).op # "send" /\ T("cancel", i).op # "send"
      BY DEF T
    <3>. QED
      BY <2>1, <3>1, <3>2 DEF Cancel, Issue, Post
  <2>3. UNCHANGED <<place, out_inflight, item, wire, out_queue, sent, flushed>>
    BY <2>1 DEF Cancel, Issue, sendVars, userVars
  <2>4. SendLine'
    BY <2>2, <2>3, PostLine DEF SendInv
  <2>. QED
    BY <1>1, <2>3, <2>4 DEF SendInv
<1>4. CASE \E s \in Streams : StreamCloseSend(s)
  <2>1. PICK s \in Streams : StreamCloseSend(s)
    BY <1>4
  <2>2. PICK x \in Task : x.op # "send" /\ tasks' = Append(tasks, x)
    <3>1. T("closeSend", s) \in Task /\ T("closeSend", s).op # "send"
      BY OutMsgType DEF T, Task, Ids
    <3>. QED
      BY <2>1, <3>1 DEF StreamCloseSend, Post
  <2>3. UNCHANGED <<place, out_inflight, item, wire, out_queue, sent, flushed>>
    BY <2>1 DEF StreamCloseSend, sendVars
  <2>4. SendLine'
    BY <2>2, <2>3, PostLine DEF SendInv
  <2>. QED
    BY <1>1, <2>3, <2>4 DEF SendInv
<1>. QED
  BY <1>2, <1>3, <1>4 DEF Api
(* Every step of the channel keeps the messages in line. *)
LEMMA NextSendInv == ASSUME CallInv, SendInv, [Next]_vars PROVE SendInv'
<1>1. TypeOK /\ Accounted
  BY DEF CallInv
<1>2. CASE Next
  <2>1. CASE Api
    BY <1>1, <2>1, ApiInv
  <2>2. CASE RunTask
    <3>1. ASSUME NEW i \in Ids, RunStart(i) PROVE SendInv'
      BY <1>1, <3>1, RunStartInv
    <3>2. ASSUME NEW i \in Ids, RunCancel(i) PROVE SendInv'
      BY <1>1, <3>2, CancelInv
    <3>3. ASSUME NEW s \in Streams, RunSend(s) PROVE SendInv'
      BY <1>1, <3>3, RunSendInv
    <3>4. ASSUME NEW s \in Streams, RunCloseSend(s) PROVE SendInv'
      BY <1>1, <3>4, RunCloseSendInv
    <3>5. ASSUME NEW s \in Streams, RunPump(s) PROVE SendInv'
      BY <1>1, <3>5, RunPumpInv
    <3>. QED
      BY Zenon, <2>2, <3>1, <3>2, <3>3, <3>4, <3>5 DEF RunTask
  <2>3. CASE ConnectOk \/ ConnectFail \/ OnConnectionLost
    BY <1>1, <2>3, ConnectionInv
  <2>4. ASSUME NEW i \in Ids, Timeout(i) PROVE SendInv'
    BY <1>1, <2>4, CancelInv
  <2>5. ASSUME NEW i \in Ids, Frame(i) PROVE SendInv'
    BY <1>1, <2>5, FrameInv
  <2>6. ASSUME NEW s \in Streams, RecvMessage(s) PROVE SendInv'
    <3>1. s \in Ids
      BY DEF Ids
    <3>. QED
      BY <1>1, <2>6, <3>1, FrameInv
  <2>7. ASSUME NEW s \in Streams, Unblock(s) PROVE SendInv'
    BY <1>1, <2>7, UnblockInv
  <2>. QED
    BY ZenonT(30), <1>2, <2>1, <2>2, <2>3, <2>4, <2>5, <2>6, <2>7 DEF Next
<1>3. CASE UNCHANGED vars
  <2>1. UNCHANGED <<out_queue, flushed, wire, sent, out_inflight, item, tasks, place>>
    BY <1>3 DEF vars, sendVars, userVars
  <2>. QED
    BY <1>1, <2>1, QuietInv
<1>. QED
  BY <1>2, <1>3

(* Nothing is on its way at first. *)
LEMMA InitSendInv == ASSUME Init PROVE SendInv
<1>1. /\ tasks = <<>>
      /\ \A s \in Streams : /\ out_queue[s] = <<>> /\ wire[s] = <<>> /\ sent[s] = <<>>
                            /\ item[s] = NoItem /\ s \notin out_inflight
      /\ \A m \in Msgs : flushed[m] = <<>>
  BY DEF Init
<1>2. \A s \in Streams : Posts(tasks, s) = <<>>
  BY <1>1 DEF Posts
<1>3. \A s \in Streams : InLine(sent[s], wire[s], item[s], out_queue[s], Posts(tasks, s))
  BY ZenonT(30), <1>1, <1>2, NoMsgs, NoMsgOf DEF InLine, Before
<1>4. SentOnce
  BY <1>1 DEF SentOnce
<1>5. Len(<<>>) <= 1
  OBVIOUS
<1>6. \A s \in Streams : Waiting(s) = {} /\ MsgsOf(wire[s]) = {}
  BY ZenonT(30), <1>1, <1>2, NoMsgs, NoMsgOf DEF Waiting
<1>7. Answered
  BY ZenonT(30), <1>1, <1>5, <1>6 DEF Answered
<1>8. \A s \in Streams : InSession(s)
  <2>1. DOMAIN <<>> = {}
    OBVIOUS
  <2>2. \A s \in Streams : ~EndSent(s) /\ item[s].msg = NoMsg /\ DOMAIN wire[s] = {}
    BY <1>1, <2>1 DEF EndSent, NoItem
  <2>. QED
    BY <1>1, <2>2 DEF InSession
<1>. QED
  BY ZenonT(30), <1>3, <1>4, <1>7, <1>8 DEF SendInv, SendLine, Lines

(* The inductive invariant of the send side, on top of CallInv: a task that  *)
(* starts a stream finds it nowhere, so nothing of it is in the session yet. *)
THEOREM SendInvCorrect == Spec => [](CallInv /\ SendInv)
<1>. QED
  BY InitCallInv, NextCallInv, InitSendInv, NextSendInv, PTL DEF Spec

(* on_flushed fires at most once per message, and with OK for every message  *)
(* the transport took.                                                       *)
THEOREM FlushedOnceCorrect == Spec => []FlushedOnce
<1>1. CallInv /\ SendInv => FlushedOnce
  <2>. SUFFICES ASSUME SendInv, NEW m \in Msgs
                PROVE  /\ Len(flushed[m]) <= 1
                       /\ \A s \in Streams, c \in BOOLEAN :
                             [msg |-> m, close |-> c] \in Elems(wire[s]) => flushed[m] = <<"Ok">>
    BY Zenon DEF FlushedOnce
  <2>1. ASSUME NEW s \in Streams, NEW c \in BOOLEAN, [msg |-> m, close |-> c] \in Elems(wire[s])
        PROVE  m \in MsgsOf(wire[s])
    <3>1. PICK k \in DOMAIN wire[s] : wire[s][k] = [msg |-> m, close |-> c]
      BY <2>1 DEF Elems
    <3>2. wire[s][k].msg = m
      BY <3>1
    <3>. QED
      BY <3>2 DEF MsgsOf
  <2>. QED
    BY <2>1 DEF SendInv, SendLine, Answered
<1>. QED
  BY <1>1, SendInvCorrect, PTL

-----------------------------------------------------------------------------
(* Two parts of the way, joined. *)
Joined(t, p, q) ==
    /\ p \o q \in Seq(OutMsg)
    /\ Ordered(t, p \o q)
    /\ MsgsOf(p \o q) = MsgsOf(p) \cup MsgsOf(q)

(* Two ordered parts of the way are ordered when the first is ahead.        *)
LEMMA JoinOrdered ==
    ASSUME NEW t, NEW p \in Seq(OutMsg), NEW q \in Seq(OutMsg),
           Ordered(t, p), Ordered(t, q), Before(t, MsgsOf(p), MsgsOf(q))
    PROVE  Joined(t, p, q)
<1>. DEFINE a == p \o q
<1>1. /\ a \in Seq(OutMsg) /\ Len(p) \in Nat /\ Len(q) \in Nat
      /\ DOMAIN a = 1..(Len(p) + Len(q)) /\ DOMAIN p = 1..Len(p) /\ DOMAIN q = 1..Len(q)
      /\ \A k \in 1..(Len(p) + Len(q)) : a[k] = IF k <= Len(p) THEN p[k] ELSE q[k - Len(p)]
  BY ConcatProperties
<1>. HIDE DEF a
<1>2. \A k \in DOMAIN a : \/ k \in DOMAIN p /\ a[k] = p[k]
                          \/ k - Len(p) \in DOMAIN q /\ a[k] = q[k - Len(p)] /\ k > Len(p)
  BY <1>1
<1>3. /\ \A k \in DOMAIN p : k \in DOMAIN a /\ a[k] = p[k]
      /\ \A k \in DOMAIN q : k + Len(p) \in DOMAIN a /\ a[k + Len(p)] = q[k]
  BY <1>1
<1>4. MsgsOf(a) = MsgsOf(p) \cup MsgsOf(q)
  <2>1. MsgsOf(a) \subseteq MsgsOf(p) \cup MsgsOf(q)
    BY <1>2 DEF MsgsOf
  <2>2. MsgsOf(p) \cup MsgsOf(q) \subseteq MsgsOf(a)
    BY <1>3 DEF MsgsOf
  <2>. QED
    BY <2>1, <2>2
<1>5. /\ \A k \in DOMAIN p : MsgOf(p[k]) \subseteq MsgsOf(p)
      /\ \A k \in DOMAIN q : MsgOf(q[k]) \subseteq MsgsOf(q)
  BY DEF MsgOf, MsgsOf
<1>6. ASSUME NEW j \in DOMAIN a, NEW k \in DOMAIN a, j < k
      PROVE  Before(t, MsgOf(a[j]), MsgOf(a[k]))
  <2>1. CASE k \in DOMAIN p /\ a[k] = p[k]
    <3>1. j \in DOMAIN p /\ a[j] = p[j]
      BY <1>1, <1>6, <2>1
    <3>. QED
      BY ZenonT(30), <1>6, <2>1, <3>1 DEF Ordered
  <2>2. CASE /\ k - Len(p) \in DOMAIN q /\ a[k] = q[k - Len(p)]
             /\ j \in DOMAIN p /\ a[j] = p[j]
    <3>1. MsgOf(a[j]) \subseteq MsgsOf(p) /\ MsgOf(a[k]) \subseteq MsgsOf(q)
      BY <1>5, <2>2
    <3>. QED
      BY <3>1 DEF Before
  <2>3. CASE /\ k - Len(p) \in DOMAIN q /\ a[k] = q[k - Len(p)]
             /\ j - Len(p) \in DOMAIN q /\ a[j] = q[j - Len(p)]
    <3>1. j - Len(p) < k - Len(p)
      BY SMTT(30), <1>1, <1>6
    <3>. QED
      BY ZenonT(30), <2>3, <3>1 DEF Ordered
  <2>. QED
    BY ZenonT(30), <1>2, <2>1, <2>2, <2>3
<1>7. Ordered(t, a)
  BY <1>6 DEF Ordered
<1>. QED
  BY ZenonT(30), <1>1, <1>4, <1>7 DEF a, Joined

(* The whole way of a stream's messages is in order. *)
LEMMA PipelineOrdered ==
    ASSUME TypeOK, Lines, NEW s \in Streams
    PROVE  /\ Pipeline(s) \in Seq(OutMsg)
           /\ Ordered(sent[s], Pipeline(s))
           /\ MsgsOf(Pipeline(s)) \subseteq Elems(sent[s])
<1>. DEFINE t == sent[s]
            w == wire[s]
            b == item[s]
            q == out_queue[s]
            p == Posts(tasks, s)
<1>1. /\ w \in Seq(OutMsg) /\ b \in OutMsg /\ q \in Seq(OutMsg) /\ p \in Seq(OutMsg)
      /\ InLine(t, w, b, q, p)
  BY PostsType DEF TypeOK, Lines
<1>2. Pipeline(s) = ((w \o <<b>>) \o q) \o p
  BY DEF Pipeline
<1>. HIDE DEF t, w, b, q, p
<1>3. <<b>> \in Seq(OutMsg) /\ MsgsOf(<<b>>) = MsgOf(b) /\ Ordered(t, <<b>>)
  <2>1. <<b>> \in Seq(OutMsg) /\ DOMAIN <<b>> = {1} /\ <<b>>[1] = b
    BY <1>1
  <2>2. MsgsOf(<<b>>) = MsgOf(b)
    BY <2>1 DEF MsgsOf, MsgOf
  <2>3. ~(1 < 1)
    OBVIOUS
  <2>4. Ordered(t, <<b>>)
    BY Zenon, <2>1, <2>3 DEF Ordered
  <2>. QED
    BY <2>1, <2>2, <2>4
<1>4. /\ Ordered(t, w) /\ Ordered(t, q) /\ Ordered(t, p)
      /\ Before(t, MsgsOf(w), MsgsOf(<<b>>))
      /\ Before(t, MsgsOf(w) \cup MsgsOf(<<b>>), MsgsOf(q))
      /\ Before(t, MsgsOf(w) \cup MsgsOf(<<b>>) \cup MsgsOf(q), MsgsOf(p))
      /\ MsgsOf(w) \cup MsgsOf(<<b>>) \cup MsgsOf(q) \cup MsgsOf(p) \subseteq Elems(t)
  BY <1>1, <1>3 DEF InLine, Before
<1>. DEFINE c == w \o <<b>>
            d == c \o q
<1>5. c \in Seq(OutMsg) /\ Ordered(t, c) /\ MsgsOf(c) = MsgsOf(w) \cup MsgsOf(<<b>>)
  <2>1. Joined(t, w, <<b>>)
    BY ZenonT(30), <1>1, <1>3, <1>4, JoinOrdered
  <2>. QED
    BY <2>1 DEF Joined
<1>. HIDE DEF c
<1>6. d \in Seq(OutMsg) /\ Ordered(t, d) /\ MsgsOf(d) = MsgsOf(c) \cup MsgsOf(q)
  <2>1. Before(t, MsgsOf(c), MsgsOf(q))
    BY <1>4, <1>5
  <2>2. Joined(t, c, q)
    BY ZenonT(30), <1>1, <1>4, <1>5, <2>1, JoinOrdered
  <2>. QED
    BY <2>2 DEF Joined
<1>. HIDE DEF d
<1>7. d \o p \in Seq(OutMsg) /\ Ordered(t, d \o p) /\ MsgsOf(d \o p) = MsgsOf(d) \cup MsgsOf(p)
  <2>1. Before(t, MsgsOf(d), MsgsOf(p))
    BY <1>4, <1>5, <1>6
  <2>2. Joined(t, d, p)
    BY ZenonT(30), <1>1, <1>4, <1>6, <2>1, JoinOrdered
  <2>. QED
    BY <2>2 DEF Joined
<1>8. Pipeline(s) = d \o p
  BY <1>2 DEF c, d
<1>. QED
  BY ZenonT(30), <1>4, <1>5, <1>6, <1>7, <1>8 DEF t

(* Messages of a stream reach the wire in the order StreamSend was called,   *)
(* none twice, and END_STREAM is last.                                       *)
THEOREM WireInOrderCorrect == Spec => []WireInOrder
<1>1. CallInv /\ SendInv => WireInOrder
  <2>. SUFFICES ASSUME CallInv, SendInv, NEW s \in Streams
                PROVE  LET pos(k) == CHOOSE j \in DOMAIN sent[s] : sent[s][j] = Pipeline(s)[k].msg
                           full   == {k \in DOMAIN Pipeline(s) : Pipeline(s)[k].msg # NoMsg}
                       IN  /\ \A j, k \in full : j < k => pos(j) < pos(k)
                           /\ \A k \in DOMAIN wire[s] : wire[s][k].close => k = Len(wire[s])
    BY DEF WireInOrder
  <2>. DEFINE pos(k) == CHOOSE j \in DOMAIN sent[s] : sent[s][j] = Pipeline(s)[k].msg
              full   == {k \in DOMAIN Pipeline(s) : Pipeline(s)[k].msg # NoMsg}
  <2>1. /\ Pipeline(s) \in Seq(OutMsg) /\ Ordered(sent[s], Pipeline(s))
        /\ \A j, k \in DOMAIN sent[s] : sent[s][j] = sent[s][k] => j = k
    BY PipelineOrdered DEF CallInv, SendInv, SendLine, SentOnce
  <2>2. \A k \in full : MsgOf(Pipeline(s)[k]) = {Pipeline(s)[k].msg}
    <3>1. \A k \in DOMAIN Pipeline(s) : Pipeline(s)[k] \in OutMsg
      BY <2>1
    <3>. QED
      BY <3>1 DEF MsgOf, OutMsg
  <2>3. ASSUME NEW j \in full, NEW k \in full, j < k PROVE pos(j) < pos(k)
    <3>1. Earlier(sent[s], Pipeline(s)[j].msg, Pipeline(s)[k].msg)
      BY ZenonT(30), <2>1, <2>2, <2>3 DEF Ordered, Before
    <3>2. PICK x \in DOMAIN sent[s], y \in DOMAIN sent[s] :
             x < y /\ sent[s][x] = Pipeline(s)[j].msg /\ sent[s][y] = Pipeline(s)[k].msg
      BY <3>1 DEF Earlier
    <3>3. pos(j) = x /\ pos(k) = y
      BY <2>1, <3>2
    <3>. QED
      BY Zenon, <3>2, <3>3
  <2>4. \A k \in DOMAIN wire[s] : wire[s][k].close => k = Len(wire[s])
    BY DEF SendInv, InSession
  <2>. QED
    BY <2>3, <2>4
<1>. QED
  BY <1>1, SendInvCorrect, PTL
=============================================================================
