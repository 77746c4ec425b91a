--------------------------- MODULE ChannelProofs ---------------------------
(***************************************************************************)
(* Proofs about the client channel, for every set of calls, streams and    *)
(* messages.                                                               *)
(***************************************************************************)
EXTENDS Channel, TLAPS

-----------------------------------------------------------------------------
(* Sequences.  These few facts stand in for the library of sequence          *)
(* theorems, which every obligation would otherwise carry along.             *)

(* What Append returns. *)
LEMMA AppendProperties ==
    ASSUME NEW V, NEW q \in Seq(V), NEW e \in V
    PROVE  /\ Append(q, e) \in Seq(V) /\ Append(q, e) # <<>>
           /\ Len(q) \in Nat /\ DOMAIN q = 1..Len(q)
           /\ Len(Append(q, e)) = Len(q) + 1 /\ DOMAIN Append(q, e) = 1..(Len(q) + 1)
           /\ \A k \in 1..Len(q) : Append(q, e)[k] = q[k]
           /\ Append(q, e)[Len(q) + 1] = e
OBVIOUS

(* What Head and Tail return. *)
LEMMA HeadTailProperties ==
    ASSUME NEW V, NEW q \in Seq(V), q # <<>>
    PROVE  /\ Head(q) \in V /\ Head(q) = q[1]
           /\ Tail(q) \in Seq(V)
           /\ Len(q) \in Nat \ {0} /\ Len(Tail(q)) = Len(q) - 1
           /\ \A k \in 1..(Len(q) - 1) : Tail(q)[k] = q[k + 1]
OBVIOUS

(* What concatenation returns. *)
LEMMA ConcatProperties ==
    ASSUME NEW V, NEW p \in Seq(V), NEW q \in Seq(V)
    PROVE  /\ p \o q \in Seq(V)
           /\ Len(p) \in Nat /\ DOMAIN p = 1..Len(p)
           /\ Len(q) \in Nat /\ DOMAIN q = 1..Len(q)
           /\ Len(p \o q) = Len(p) + Len(q) /\ DOMAIN (p \o q) = 1..(Len(p) + Len(q))
           /\ \A k \in 1..(Len(p) + Len(q)) :
                 (p \o q)[k] = IF k <= Len(p) THEN p[k] ELSE q[k - Len(p)]
OBVIOUS

(* Sequences are equal if they agree everywhere. *)
LEMMA SeqEqual ==
    ASSUME NEW V, NEW p \in Seq(V), NEW q \in Seq(V), Len(p) = Len(q),
           \A k \in 1..Len(p) : p[k] = q[k]
    PROVE  p = q
OBVIOUS

(* Nothing is added by the empty sequence. *)
LEMMA ConcatEmptySeq ==
    ASSUME NEW V, NEW q \in Seq(V)
    PROVE  q \o <<>> = q
<1>1. <<>> \in Seq(V) /\ Len(<<>>) = 0
  OBVIOUS
<1>2. /\ q \o <<>> \in Seq(V) /\ Len(q \o <<>>) = Len(q)
      /\ \A k \in 1..Len(q) : (q \o <<>>)[k] = q[k]
  BY <1>1
<1>. QED
  BY <1>2, SeqEqual

(* Append adds a sequence of one element. *)
LEMMA AppendIsConcat ==
    ASSUME NEW V, NEW q \in Seq(V), NEW e \in V
    PROVE  Append(q, e) = q \o <<e>>
<1>1. <<e>> \in Seq(V) /\ Len(<<e>>) = 1 /\ <<e>>[1] = e
  OBVIOUS
<1>2. /\ q \o <<e>> \in Seq(V) /\ Len(q \o <<e>>) = Len(q) + 1
      /\ \A k \in 1..(Len(q) + 1) : (q \o <<e>>)[k] = Append(q, e)[k]
  BY <1>1
<1>3. Append(q, e) \in Seq(V) /\ Len(Append(q, e)) = Len(q) + 1
  OBVIOUS
<1>. QED
  BY <1>2, <1>3, SeqEqual

-----------------------------------------------------------------------------
(* Types of the building blocks *)

(* Set keeps the type of a function. *)
LEMMA SetType ==
    ASSUME NEW D, NEW R, NEW f \in [D -> R], NEW S, NEW v \in R
    PROVE  Set(f, S, v) \in [D -> R]
BY DEF Set

(* Add keeps the type of a function to sequences. *)
LEMMA AddType ==
    ASSUME NEW D, NEW R, NEW f \in [D -> Seq(R)], NEW S, NEW v \in R
    PROVE  Add(f, S, v) \in [D -> Seq(R)]
BY DEF Add

(* Cancelling timers keeps them timers. *)
LEMMA CancelTimersType ==
    ASSUME TypeOK, NEW S
    PROVE  CancelTimers(S) \in [Ids -> {"off", "armed", "fired"}]
BY ZenonT(30), SetType DEF CancelTimers, TypeOK

(* Finish keeps the types of what it changes. *)
LEMMA FinishType ==
    ASSUME TypeOK, NEW S, NEW st \in Status, Finish(S, st)
    PROVE  /\ place' \in [Ids -> {"none", "pending", "live", "over"}]
           /\ events' \in [Ids -> Seq(Status \cup {Message})]
           /\ flushed' \in [Msgs -> Seq(Status)]
           /\ out_queue' \in [Streams -> Seq(OutMsg)]
<1>1. <<>> \in Seq(OutMsg)
  OBVIOUS
<1>2. st \in Status \cup {Message}
  OBVIOUS
<1>. QED
  BY ZenonT(30), <1>1, <1>2, SetType, AddType DEF Finish, TypeOK

(* A message descriptor with its fields replaced is one. *)
LEMMA OutMsgType ==
    /\ NoItem \in OutMsg
    /\ HalfClose \in OutMsg
    /\ \A i \in Ids, op \in {"start", "cancel", "closeSend", "pump"} : T(op, i) \in Task
BY DEF NoItem, HalfClose, OutMsg, T, Task

(* PumpStreams keeps the types of the send side. *)
LEMMA PumpStreamsType ==
    ASSUME TypeOK, NEW S \in SUBSET Streams, NEW q \in [Streams -> Seq(OutMsg)], NEW blk,
           \A s \in S : q[s] # <<>>,
           PumpStreams(S, q, blk)
    PROVE  /\ out_queue' \in [Streams -> Seq(OutMsg)]
           /\ out_inflight' \subseteq Streams
           /\ send_closed' \subseteq Streams
           /\ item' \in [Streams -> OutMsg]
           /\ wire' \in [Streams -> Seq(OutMsg)]
<1>1. \A s \in S : Head(q[s]) \in OutMsg /\ Tail(q[s]) \in Seq(OutMsg)
  OBVIOUS
<1>2. Consumed(S, blk) \subseteq S
  BY DEF Consumed
<1>. QED
  BY <1>1, <1>2 DEF PumpStreams, TypeOK

(* The close flag of a queue's last message may be set. *)
LEMMA CloseLastType ==
    ASSUME NEW q \in Seq(OutMsg), q # <<>>
    PROVE  CloseLast(q) \in Seq(OutMsg)
<1>1. Len(q) \in Nat \ {0} /\ DOMAIN q = 1..Len(q) /\ q \in [1..Len(q) -> OutMsg]
  OBVIOUS
<1>2. [msg |-> q[Len(q)].msg, close |-> TRUE] \in OutMsg
  BY <1>1 DEF OutMsg
<1>3. CloseLast(q) \in [1..Len(q) -> OutMsg]
  BY <1>1, <1>2 DEF CloseLast
<1>. QED
  BY <1>1, <1>3

(* Seeding a queue keeps its type and does not empty it. *)
LEMMA SeededType ==
    ASSUME NEW q \in Seq(OutMsg)
    PROVE  Seeded(q) \in Seq(OutMsg)
BY CloseLastType DEF Seeded

(* The pumps posted by Launch, in any order, are tasks. *)
LEMMA PumpTasksType ==
    ASSUME NEW now \in SUBSET Streams, NEW o \in [1..Cardinality(now) -> now]
    PROVE  [k \in DOMAIN o |-> T("pump", o[k])] \in Seq(Task)
<1>1. Cardinality(now) \in Nat
  BY ConstantsAssumption
<1>2. \A k \in 1..Cardinality(now) : T("pump", o[k]) \in Task
  BY OutMsgType DEF Ids
<1>. QED
  BY <1>1, <1>2

(* Launch keeps the types of what it changes. *)
LEMMA LaunchType ==
    ASSUME TypeOK, NEW S \in SUBSET Ids, NEW bad, NEW blk, NEW rest \in Seq(Task),
           Launch(S, bad, blk, rest)
    PROVE  /\ place' \in [Ids -> {"none", "pending", "live", "over"}]
           /\ h2' \in [Ids -> {"none", "open", "body", "ended", "closed"}]
           /\ events' \in [Ids -> Seq(Status \cup {Message})]
           /\ out_queue' \in [Streams -> Seq(OutMsg)]
           /\ out_inflight' \subseteq Streams
           /\ send_closed' \subseteq Streams
           /\ item' \in [Streams -> OutMsg]
           /\ wire' \in [Streams -> Seq(OutMsg)]
           /\ flushed' \in [Msgs -> Seq(Status)]
           /\ tasks' \in Seq(Task)
<1>. DEFINE good == S \ bad
            q    == Set([s \in Streams |-> IF s \in S THEN Seeded(out_queue[s])
                                          ELSE out_queue[s]], bad, <<>>)
            pump == {s \in good \cap Streams : q[s] # <<>>}
            now  == Consumed(pump, blk)
<1>1. q \in [Streams -> Seq(OutMsg)]
  <2>1. \A s \in Streams : out_queue[s] \in Seq(OutMsg)
    BY DEF TypeOK
  <2>2. \A s \in Streams : Seeded(out_queue[s]) \in Seq(OutMsg)
    BY <2>1, SeededType
  <2>3. [s \in Streams |-> IF s \in S THEN Seeded(out_queue[s]) ELSE out_queue[s]]
          \in [Streams -> Seq(OutMsg)]
    BY <2>1, <2>2
  <2>4. <<>> \in Seq(OutMsg)
    OBVIOUS
  <2>. QED
    BY ZenonT(30), <2>3, <2>4, SetType
<1>2. pump \in SUBSET Streams /\ \A s \in pump : q[s] # <<>>
  OBVIOUS
<1>3. now \in SUBSET Streams
  BY DEF Consumed
<1>4. PumpStreams(pump, q, blk)
  BY DEF Launch
<1>5. /\ out_queue' \in [Streams -> Seq(OutMsg)]
      /\ out_inflight' \subseteq Streams
      /\ send_closed' \subseteq Streams
      /\ item' \in [Streams -> OutMsg]
      /\ wire' \in [Streams -> Seq(OutMsg)]
  <2>. HIDE DEF q, pump
  <2>. QED
    BY ZenonT(30), <1>1, <1>2, <1>4, PumpStreamsType
<1>6. place' \in [Ids -> {"none", "pending", "live", "over"}]
  BY ZenonT(30), SetType DEF Launch, TypeOK
<1>7. h2' \in [Ids -> {"none", "open", "body", "ended", "closed"}]
  BY ZenonT(30), SetType DEF Launch, TypeOK
<1>8. events' \in [Ids -> Seq(Status \cup {Message})]
  <2>1. events' = Add(events, bad, "Unavailable")
    BY DEF Launch
  <2>. QED
    BY ZenonT(30), <2>1, AddType DEF TypeOK, Status
<1>9. flushed' \in [Msgs -> Seq(Status)]
  <2>1. "Unavailable" \in Status /\ "Ok" \in Status
    BY DEF Status
  <2>2. flushed' = Add(Add(flushed, Queued(bad), "Unavailable"),
                       {Head(q[s]).msg : s \in now}, "Ok")
    BY DEF Launch
  <2>3. Add(flushed, Queued(bad), "Unavailable") \in [Msgs -> Seq(Status)]
    BY ZenonT(30), <2>1, AddType DEF TypeOK
  <2>. HIDE DEF q, now
  <2>. QED
    BY <2>1, <2>2, <2>3, AddType
<1>10. tasks' \in Seq(Task)
  <2>1. PICK o \in [1..Cardinality(now) -> now] :
           tasks' = rest \o [k \in DOMAIN o |-> T("pump", o[k])]
    BY ZenonT(30) DEF Launch
  <2>. HIDE DEF now
  <2>2. [k \in DOMAIN o |-> T("pump", o[k])] \in Seq(Task)
    BY ZenonT(30), <1>3, PumpTasksType
  <2>. QED
    BY Zenon, <2>1, <2>2, ConcatProperties
<1>. QED
  BY <1>5, <1>6, <1>7, <1>8, <1>9, <1>10

-----------------------------------------------------------------------------
(* Type correctness *)

(* Running the next task leaves a sequence of tasks. *)
LEMMA NextTask ==
    ASSUME TypeOK, tasks # <<>>
    PROVE  Head(tasks) \in Task /\ Tail(tasks) \in Seq(Task)
BY HeadTailProperties DEF TypeOK

(* The API operations preserve the type invariant. *)
LEMMA ApiType == ASSUME TypeOK, Api PROVE TypeOK'
<1>1. ASSUME NEW i \in Ids, NEW d \in BOOLEAN, Issue(i, d) PROVE TypeOK'
  <2>1. tasks' \in Seq(Task)
    BY <1>1, OutMsgType, AppendProperties DEF Issue, Post, TypeOK
  <2>. QED
    BY <1>1, <2>1 DEF Issue, TypeOK, sendVars
<1>2. ASSUME NEW i \in Ids, Cancel(i) PROVE TypeOK'
  <2>1. tasks' \in Seq(Task)
    BY <1>2, OutMsgType, AppendProperties DEF Cancel, Post, TypeOK
  <2>. QED
    BY <1>2, <2>1 DEF Cancel, TypeOK, sendVars, userVars
<1>3. ASSUME NEW s \in Streams, StreamCloseSend(s) PROVE TypeOK'
  <2>1. tasks' \in Seq(Task)
    BY <1>3, OutMsgType, AppendProperties DEF StreamCloseSend, Post, TypeOK, Ids
  <2>. QED
    BY <1>3, <2>1 DEF StreamCloseSend, TypeOK, sendVars
<1>4. ASSUME NEW s \in Streams, NEW m \in Msgs, NEW close \in BOOLEAN,
             StreamSend(s, m, close)
      PROVE  TypeOK'
  <2>1. [op |-> "send", id |-> s, out |-> [msg |-> m, close |-> close]] \in Task
    BY DEF Task, OutMsg, Ids
  <2>2. tasks' \in Seq(Task)
    BY <1>4, <2>1, AppendProperties DEF StreamSend, Post, TypeOK
  <2>3. sent' \in [Streams -> Seq(Msgs)]
    BY <1>4, AppendProperties DEF StreamSend, TypeOK
  <2>. QED
    BY <1>4, <2>2, <2>3 DEF StreamSend, TypeOK, sendVars
<1>. QED
  BY <1>1, <1>2, <1>3, <1>4 DEF Api

(* Arming timers keeps them timers. *)
LEMMA ArmedType ==
    ASSUME TypeOK, NEW S
    PROVE  Set(timer, S, "armed") \in [Ids -> {"off", "armed", "fired"}]
BY DEF Set, TypeOK

(* Starting a call or a stream preserves the type invariant. *)
LEMMA RunStartType == ASSUME TypeOK, NEW i \in Ids, RunStart(i) PROVE TypeOK'
<1>1. Tail(tasks) \in Seq(Task)
  BY NextTask DEF RunStart, IsNext
<1>2. UNCHANGED <<aborted, issued, timed, sent, closing>>
  BY DEF RunStart, userVars
<1>3. CASE StartReady(i)
  <2>1. PICK bad : Launch({i}, bad, {}, Tail(tasks))
    BY <1>3 DEF StartReady
  <2>2. timer' \in [Ids -> {"off", "armed", "fired"}]
    <3>1. timer' = timer \/ timer' = Set(timer, {i} \cap timed, "armed")
      BY <1>3 DEF StartReady, StartTimer
    <3>. QED
      BY <3>1, ArmedType DEF TypeOK
  <2>3. conn' = conn
    BY <1>3 DEF StartReady
  <2>4. {i} \in SUBSET Ids
    OBVIOUS
  <2>. QED
    BY ZenonT(30), <1>1, <1>2, <2>1, <2>2, <2>3, <2>4, LaunchType DEF TypeOK
<1>4. CASE StartBroken(i)
  <2>1. "Unavailable" \in Status
    BY DEF Status
  <2>2. Finish({i}, "Unavailable")
    BY <1>4 DEF StartBroken
  <2>. QED
    BY <1>1, <1>2, <1>4, <2>1, <2>2, FinishType DEF StartBroken, TypeOK
<1>5. CASE StartPending(i)
  <2>1. timer' \in [Ids -> {"off", "armed", "fired"}]
    BY <1>5, ArmedType DEF StartPending, StartTimer, TypeOK
  <2>. QED
    BY ZenonT(30), <1>1, <1>2, <1>5, <2>1 DEF StartPending, TypeOK, sendVars
<1>6. CASE StartConnectFails(i)
  <2>1. "Unavailable" \in Status
    BY DEF Status
  <2>2. CASE i \in Calls
    <3>1. Finish({i}, "Unavailable")
      BY <1>6, <2>2 DEF StartConnectFails
    <3>. QED
      BY <1>1, <1>2, <1>6, <2>1, <3>1, FinishType DEF StartConnectFails, TypeOK
  <2>3. CASE i \notin Calls
    BY ZenonT(30), <1>1, <1>2, <1>6, <2>3 DEF StartConnectFails, TypeOK
  <2>. QED
    BY <2>2, <2>3
<1>. QED
  BY <1>3, <1>4, <1>5, <1>6 DEF RunStart

(* Running a Cancel preserves the type invariant. *)
LEMMA RunCancelType == ASSUME TypeOK, NEW i \in Ids, RunCancel(i) PROVE TypeOK'
<1>1. tasks' \in Seq(Task)
  BY NextTask DEF RunCancel, IsNext
<1>2. CASE i \in Calls /\ place[i] = "live"
  <2>1. Finish({i}, "Unavailable") /\ "Unavailable" \in Status
    BY <1>2 DEF RunCancel, Status
  <2>2. timer' = CancelTimers({i})
    BY <1>2 DEF RunCancel
  <2>3. h2' \in [Ids -> {"none", "open", "body", "ended", "closed"}]
    BY ZenonT(30), <1>2 DEF RunCancel, TypeOK
  <2>. QED
    BY <1>1, <2>1, <2>2, <2>3, FinishType, CancelTimersType DEF RunCancel, TypeOK, userVars
<1>3. CASE ~(i \in Calls /\ place[i] = "live")
  BY <1>1, <1>3 DEF RunCancel, TypeOK, userVars
<1>. QED
  BY <1>2, <1>3

(* PumpStream keeps the types of what it changes. *)
LEMMA PumpStreamType ==
    ASSUME TypeOK, NEW s \in Streams, NEW q \in [Streams -> Seq(OutMsg)],
           tasks # <<>>, PumpStream(s, q)
    PROVE  /\ out_queue' \in [Streams -> Seq(OutMsg)]
           /\ out_inflight' \subseteq Streams
           /\ send_closed' \subseteq Streams
           /\ item' \in [Streams -> OutMsg]
           /\ wire' \in [Streams -> Seq(OutMsg)]
           /\ flushed' \in [Msgs -> Seq(Status)]
           /\ tasks' \in Seq(Task)
<1>. DEFINE S == {s} \cap {r \in Streams \ out_inflight : q[r] # <<>>}
<1>1. PICK blk \in SUBSET {s} :
        /\ PumpStreams(S, q, blk)
        /\ flushed' = Add(flushed, {Head(q[r]).msg : r \in Consumed(S, blk)}, "Ok")
        /\ tasks' = IF Consumed(S, blk) = {} THEN Tail(tasks)
                                            ELSE Append(Tail(tasks), T("pump", s))
  BY ZenonT(30) DEF PumpStream
<1>2. S \in SUBSET Streams /\ \A r \in S : q[r] # <<>>
  OBVIOUS
<1>3. tasks' \in Seq(Task)
  <2>1. Tail(tasks) \in Seq(Task) /\ T("pump", s) \in Task
    BY NextTask, OutMsgType DEF Ids
  <2>. QED
    BY <1>1, <2>1, AppendProperties
<1>4. flushed' \in [Msgs -> Seq(Status)]
  <2>1. "Ok" \in Status /\ flushed \in [Msgs -> Seq(Status)]
    BY DEF Status, TypeOK
  <2>. QED
    BY <1>1, <2>1, AddType
<1>. HIDE DEF S
<1>. QED
  BY ZenonT(30), <1>1, <1>2, <1>3, <1>4, PumpStreamsType

(* A StreamSend preserves the type invariant. *)
LEMMA RunSendType == ASSUME TypeOK, NEW s \in Streams, RunSend(s) PROVE TypeOK'
<1>. DEFINE o == Head(tasks).out
<1>1. tasks # <<>> /\ Tail(tasks) \in Seq(Task) /\ o \in OutMsg
  BY NextTask DEF RunSend, IsNext, Task
<1>2. UNCHANGED <<conn, place, timer, h2, aborted, issued, timed, sent, closing, events>>
  BY DEF RunSend, userVars
<1>. HIDE DEF o
<1>3. [out_queue EXCEPT ![s] = Append(@, o)] \in [Streams -> Seq(OutMsg)]
  BY <1>1, AppendProperties DEF TypeOK
<1>4. CASE SendParked(s, o)
  BY <1>1, <1>2, <1>3, <1>4 DEF SendParked, TypeOK
<1>5. CASE PumpStream(s, [out_queue EXCEPT ![s] = Append(@, o)])
  BY ZenonT(30), <1>1, <1>2, <1>3, <1>5, PumpStreamType DEF TypeOK
<1>6. ASSUME NEW st \in Status, SendRefused(o, st) PROVE TypeOK'
  <2>1. flushed' \in [Msgs -> Seq(Status)]
    BY ZenonT(30), <1>6, AddType DEF SendRefused, TypeOK
  <2>. QED
    BY ZenonT(30), <1>1, <1>2, <1>6, <2>1 DEF SendRefused, TypeOK, sendVars
<1>7. \/ SendParked(s, o)
      \/ PumpStream(s, [out_queue EXCEPT ![s] = Append(@, o)])
      \/ \E st \in Status : SendRefused(o, st)
  BY DEF RunSend, o, Status
<1>. QED
  BY <1>4, <1>5, <1>6, <1>7

(* A StreamCloseSend preserves the type invariant. *)
LEMMA RunCloseSendType == ASSUME TypeOK, NEW s \in Streams, RunCloseSend(s) PROVE TypeOK'
<1>1. tasks' \in Seq(Task)
  BY NextTask DEF RunCloseSend, IsNext
<1>2. UNCHANGED <<conn, place, timer, out_inflight, h2, aborted, issued, timed, sent,
                  closing, events, flushed>>
  BY DEF RunCloseSend, userVars
<1>3. CASE CloseQueued(s)
  <2>1. out_queue[s] \in Seq(OutMsg) /\ out_queue[s] # <<>>
    BY <1>3 DEF CloseQueued, TypeOK
  <2>2. CloseLast(out_queue[s]) \in Seq(OutMsg)
    BY <2>1, CloseLastType
  <2>. QED
    BY <1>1, <1>2, <1>3, <2>2 DEF CloseQueued, TypeOK
<1>4. CASE CloseParked(s)
  <2>1. <<HalfClose>> \in Seq(OutMsg)
    BY OutMsgType
  <2>. QED
    BY <1>1, <1>2, <1>4, <2>1 DEF CloseParked, TypeOK
<1>5. CASE CloseNow(s)
  <2>1. item' \in [Streams -> OutMsg]
    BY ZenonT(30), <1>5, OutMsgType DEF CloseNow, TypeOK
  <2>2. wire' \in [Streams -> Seq(OutMsg)]
    <3>1. Append(wire[s], HalfClose) \in Seq(OutMsg)
      BY OutMsgType, AppendProperties DEF TypeOK
    <3>. QED
      BY ZenonT(30), <1>5, <3>1 DEF CloseNow, TypeOK
  <2>. QED
    BY <1>1, <1>2, <1>5, <2>1, <2>2 DEF CloseNow, TypeOK
<1>6. CASE UNCHANGED <<out_queue, send_closed, item, wire>>
  BY <1>1, <1>2, <1>6 DEF TypeOK
<1>. QED
  BY <1>3, <1>4, <1>5, <1>6 DEF RunCloseSend

(* A posted pump preserves the type invariant. *)
LEMMA RunPumpType == ASSUME TypeOK, NEW s \in Streams, RunPump(s) PROVE TypeOK'
<1>1. tasks # <<>> /\ Tail(tasks) \in Seq(Task)
  BY NextTask DEF RunPump, IsNext
<1>2. UNCHANGED <<conn, place, timer, h2, aborted, issued, timed, sent, closing, events>>
  BY DEF RunPump, userVars
<1>3. CASE PumpStream(s, out_queue)
  BY <1>1, <1>2, <1>3, PumpStreamType DEF TypeOK
<1>4. CASE tasks' = Tail(tasks) /\ UNCHANGED <<sendVars, flushed>>
  BY <1>1, <1>2, <1>4 DEF TypeOK, sendVars
<1>. QED
  BY <1>3, <1>4 DEF RunPump

(* Every task preserves the type invariant. *)
LEMMA RunTaskType == ASSUME TypeOK, RunTask PROVE TypeOK'
BY RunStartType, RunCancelType, RunSendType, RunCloseSendType, RunPumpType DEF RunTask

(* Timers and the connection preserve the type invariant. *)
LEMMA TimeoutType == ASSUME TypeOK, NEW i \in Ids, Timeout(i) PROVE TypeOK'
<1>1. timer' \in [Ids -> {"off", "armed", "fired"}]
  BY DEF Timeout, TypeOK
<1>2. UNCHANGED <<tasks, conn, out_inflight, send_closed, wire, aborted, issued, timed,
                  sent, closing>>
  BY DEF Timeout, userVars
<1>3. CASE place[i] = "live"
  <2>1. PICK st \in Status : Finish({i}, st)
    BY ZenonT(30), <1>3 DEF Timeout, Status
  <2>2. h2' \in [Ids -> {"none", "open", "body", "ended", "closed"}]
    BY ZenonT(30), <1>3 DEF Timeout, TypeOK
  <2>3. item' \in [Streams -> OutMsg]
    <3>1. item' = Set(item, {i}, NoItem)
      BY <1>3 DEF Timeout
    <3>. QED
      BY ZenonT(30), <3>1, OutMsgType, SetType DEF TypeOK
  <2>. QED
    BY <1>1, <1>2, <2>1, <2>2, <2>3, FinishType DEF TypeOK
<1>4. CASE place[i] # "live"
  BY <1>1, <1>2, <1>4 DEF Timeout, TypeOK
<1>. QED
  BY <1>3, <1>4

(* A connection made preserves the type invariant. *)
LEMMA ConnectOkType == ASSUME TypeOK, ConnectOk PROVE TypeOK'
<1>1. PICK bad \in SUBSET Held("pending"), blk \in SUBSET Streams :
        /\ Launch(Held("pending"), bad, blk, tasks)
        /\ timer' = [i \in Ids |->
              IF i \in (Held("pending") \ bad) \cap Streams \cap timed THEN "armed"
              ELSE CancelTimers(bad)[i]]
  BY DEF ConnectOk
<1>2. timer' \in [Ids -> {"off", "armed", "fired"}]
  BY <1>1, CancelTimersType
<1>3. Held("pending") \in SUBSET Ids /\ tasks \in Seq(Task)
  BY DEF Held, TypeOK
<1>4. conn' = "Ready" /\ UNCHANGED <<aborted, issued, timed, sent, closing>>
  BY DEF ConnectOk, userVars
<1>. QED
  BY ZenonT(30), <1>1, <1>2, <1>3, <1>4, LaunchType DEF TypeOK

(* A failed connect and a lost connection preserve the type invariant. *)
LEMMA DisconnectType ==
    ASSUME TypeOK, ConnectFail \/ OnConnectionLost PROVE TypeOK'
<1>1. "Unavailable" \in Status
  BY DEF Status
<1>2. CASE ConnectFail
  BY <1>1, <1>2, FinishType, CancelTimersType DEF ConnectFail, TypeOK, userVars
<1>3. CASE OnConnectionLost
  <2>1. h2' \in [Ids -> {"none", "open", "body", "ended", "closed"}]
    BY <1>3 DEF OnConnectionLost, TypeOK
  <2>2. item' \in [Streams -> OutMsg]
    BY <1>3, OutMsgType DEF OnConnectionLost
  <2>. QED
    BY <1>1, <1>3, <2>1, <2>2, FinishType, CancelTimersType
       DEF OnConnectionLost, TypeOK, userVars
<1>. QED
  BY <1>2, <1>3

(* End keeps the types of what it changes. *)
LEMMA EndType ==
    ASSUME TypeOK, NEW i, NEW st \in Status, End(i, st)
    PROVE  /\ place' \in [Ids -> {"none", "pending", "live", "over"}]
           /\ events' \in [Ids -> Seq(Status \cup {Message})]
           /\ flushed' \in [Msgs -> Seq(Status)]
           /\ out_queue' \in [Streams -> Seq(OutMsg)]
           /\ timer' \in [Ids -> {"off", "armed", "fired"}]
BY FinishType, CancelTimersType DEF End

(* Every frame of the peer preserves the type invariant. *)
LEMMA FrameType == ASSUME TypeOK, NEW i \in Ids, Frame(i) PROVE TypeOK'
<1>1. CASE RecvHeaders(i)
  BY <1>1 DEF RecvHeaders, recvVars, userVars, TypeOK
<1>2. CASE RecvBadHeaders(i)
  <2>1. h2' \in [Ids -> {"none", "open", "body", "ended", "closed"}]
    BY <1>2 DEF RecvBadHeaders, TypeOK
  <2>2. End(i, "Unavailable") /\ "Unavailable" \in Status
    BY <1>2 DEF RecvBadHeaders, Status
  <2>3. UNCHANGED <<tasks, conn, out_inflight, send_closed, wire, issued, timed, sent,
                    closing, item, aborted>>
    BY <1>2 DEF RecvBadHeaders, recvVars, userVars
  <2>. QED
    BY <2>1, <2>2, <2>3, EndType DEF TypeOK
<1>3. ASSUME NEW st \in PeerStatus, RecvTrailers(i, st) PROVE TypeOK'
  <2>1. h2' \in [Ids -> {"none", "open", "body", "ended", "closed"}]
    BY <1>3 DEF RecvTrailers, TypeOK
  <2>2. End(i, st) /\ st \in Status
    BY <1>3, ConstantsAssumption DEF RecvTrailers
  <2>3. UNCHANGED <<tasks, conn, out_inflight, send_closed, wire, issued, timed, sent,
                    closing, item, aborted>>
    BY <1>3 DEF RecvTrailers, recvVars, userVars
  <2>. QED
    BY <2>1, <2>2, <2>3, EndType DEF TypeOK
<1>4. ASSUME NEW st \in {"Internal", "ResourceExhausted"}, RecvBadData(i, st) PROVE TypeOK'
  <2>1. End(i, st) /\ st \in Status
    BY <1>4 DEF RecvBadData, Status
  <2>2. UNCHANGED <<tasks, conn, out_inflight, send_closed, wire, issued, timed, sent,
                    closing, h2, item, aborted>>
    BY <1>4 DEF RecvBadData, recvVars, userVars
  <2>. QED
    BY <2>1, <2>2, EndType DEF TypeOK
<1>5. CASE RecvEnd(i)
  BY <1>5 DEF RecvEnd, recvVars, userVars, TypeOK
<1>6. CASE OnStreamClose(i)
  <2>1. h2' \in [Ids -> {"none", "open", "body", "ended", "closed"}]
    BY <1>6 DEF OnStreamClose, TypeOK
  <2>2. End(i, "Unavailable") /\ "Unavailable" \in Status
    BY <1>6 DEF OnStreamClose, Status
  <2>3. UNCHANGED <<tasks, conn, out_inflight, send_closed, wire, issued, timed, sent, closing>>
    BY <1>6 DEF OnStreamClose, recvVars, userVars
  <2>4. item' \in [Streams -> OutMsg]
    BY ZenonT(30), <1>6, OutMsgType, SetType DEF OnStreamClose, TypeOK
  <2>5. aborted' \in BOOLEAN
    BY ZenonT(30), <1>6 DEF OnStreamClose, CloseEnds
  <2>. QED
    BY <2>1, <2>2, <2>3, <2>4, <2>5, EndType DEF TypeOK
<1>. QED
  BY <1>1, <1>2, <1>3, <1>4, <1>5, <1>6 DEF Frame

(* Response messages and window updates preserve the type invariant. *)
LEMMA StreamEventType ==
    ASSUME TypeOK, NEW s \in Streams, RecvMessage(s) \/ Unblock(s) PROVE TypeOK'
<1>1. CASE RecvMessage(s)
  <2>1. events' \in [Ids -> Seq(Status \cup {Message})]
    BY ZenonT(30), <1>1, AddType DEF RecvMessage, TypeOK
  <2>. QED
    BY ZenonT(30), <1>1, <2>1 DEF RecvMessage, recvVars, userVars, TypeOK
<1>2. CASE Unblock(s)
  <2>1. wire' \in [Streams -> Seq(OutMsg)]
    BY <1>2, AppendProperties DEF Unblock, TypeOK
  <2>2. item' \in [Streams -> OutMsg]
    BY <1>2, OutMsgType DEF Unblock, TypeOK
  <2>3. tasks' \in Seq(Task)
    <3>1. Append(tasks, T("pump", s)) \in Seq(Task)
      BY OutMsgType, AppendProperties DEF TypeOK, Ids
    <3>. QED
      BY ZenonT(30), <1>2, <3>1 DEF Unblock, Post, TypeOK
  <2>4. flushed' \in [Msgs -> Seq(Status)]
    <3>1. "Ok" \in Status
      BY DEF Status
    <3>2. flushed' = flushed \/ flushed' = Add(flushed, {item[s].msg}, "Ok")
      BY <1>2 DEF Unblock
    <3>3. Add(flushed, {item[s].msg}, "Ok") \in [Msgs -> Seq(Status)]
      BY ZenonT(30), <3>1, AddType DEF TypeOK
    <3>. QED
      BY ZenonT(30), <3>2, <3>3 DEF TypeOK
  <2>5. out_inflight' \subseteq Streams
    BY <1>2 DEF Unblock, TypeOK
  <2>. QED
    BY <1>2, <2>1, <2>2, <2>3, <2>4, <2>5 DEF Unblock, userVars, TypeOK
<1>. QED
  BY <1>1, <1>2

(* Every step preserves the type invariant. *)
LEMMA NextType == ASSUME TypeOK, [Next]_vars PROVE TypeOK'
<1>1. CASE Next
  BY <1>1, ApiType, RunTaskType, TimeoutType, ConnectOkType, DisconnectType, FrameType,
     StreamEventType DEF Next
<1>2. CASE UNCHANGED vars
  BY <1>2 DEF vars, sendVars, userVars, TypeOK
<1>. QED
  BY <1>1, <1>2

(* Initial states satisfy the type invariant. *)
LEMMA InitType == ASSUME Init PROVE TypeOK
<1>1. \A R : <<>> \in Seq(R)
  OBVIOUS
<1>. QED
  BY ZenonT(30), <1>1, OutMsgType DEF Init, TypeOK

(* The channel's state keeps its types whatever is called and received; in   *)
(* particular callers only ever hear statuses of the closed set.             *)
THEOREM TypeCorrect == Spec => []TypeOK
BY InitType, NextType, PTL DEF Spec

-----------------------------------------------------------------------------
(* Every call is accounted for, and hears one terminal status.             *)
(*                                                                         *)
(* TerminalLast is not inductive: a step appends a status to the events of *)
(* a call, and only the containers tell that this call has not ended yet.  *)
(* Accounted says what the containers know; with TypeOK it is inductive.   *)

(* Every step but Issue tells at most one thing to a set of open calls. *)
Tell(S, v) ==
    /\ S \subseteq issued
    /\ \A i \in S : ~Ended(i)
    /\ v \in Status \cup {Message}
    /\ events' = Add(events, S, v)
    /\ issued' = issued

(* Telling open calls keeps a terminal status last, and ends them if what    *)
(* they are told is a status.                                                *)
LEMMA TellEffect ==
    ASSUME TypeOK, NEW S, NEW v, Tell(S, v)
    PROVE  /\ \A i \in Ids : Ended(i)' <=> (Ended(i) \/ (i \in S /\ v \in Status))
           /\ TerminalLast => TerminalLast'
<1>1. \A i \in Ids : events[i] \in Seq(Status \cup {Message})
  BY DEF TypeOK
<1>2. \A i \in Ids : i \notin S => events'[i] = events[i]
  BY DEF Tell, Add, TypeOK
<1>3. ASSUME NEW i \in Ids, i \in S
      PROVE  /\ Len(events'[i]) = Len(events[i]) + 1
             /\ DOMAIN events[i] = 1..Len(events[i])
             /\ DOMAIN events'[i] = 1..(Len(events[i]) + 1)
             /\ \A k \in 1..Len(events[i]) : events'[i][k] = events[i][k]
             /\ events'[i][Len(events[i]) + 1] = v
             /\ Len(events[i]) \in Nat
  <2>1. events'[i] = Append(events[i], v) /\ v \in Status \cup {Message}
    BY <1>3 DEF Tell, Add, TypeOK
  <2>. QED
    BY <1>1, <2>1, AppendProperties
<1>4. ASSUME NEW i \in Ids, i \in S
      PROVE  Ended(i)' <=> v \in Status
  <2>1. \A k \in 1..Len(events[i]) : events'[i][k] \notin Status
    BY <1>3, <1>4 DEF Tell, Ended
  <2>. QED
    BY <1>3, <1>4, <2>1 DEF Ended
<1>5. \A i \in Ids : i \notin S => (Ended(i)' <=> Ended(i))
  BY <1>2 DEF Ended
<1>6. ASSUME TerminalLast PROVE TerminalLast'
  <2>1. ASSUME NEW i \in Ids, i \in S, NEW k \in DOMAIN events'[i],
               events'[i][k] \in Status
        PROVE  k = Len(events'[i])
    BY <1>3, <2>1 DEF Tell, Ended
  <2>2. ASSUME NEW i \in Ids, i \notin S, NEW k \in DOMAIN events'[i],
               events'[i][k] \in Status
        PROVE  k = Len(events'[i])
    BY <1>2, <1>6, <2>2 DEF TerminalLast
  <2>. QED
    BY <2>1, <2>2 DEF TerminalLast
<1>. QED
  BY <1>4, <1>5, <1>6 DEF Tell

(* Appending a task that starts nothing leaves the start tasks where they    *)
(* are.                                                                      *)
LEMMA AppendStarts ==
    ASSUME NEW q \in Seq(Task), NEW r \in Seq(Task), \A k \in DOMAIN r : r[k].op # "start",
           NEW i
    PROVE  Starts(q \o r, i) = Starts(q, i)
<1>1. /\ q \o r \in Seq(Task)
      /\ Len(q \o r) = Len(q) + Len(r)
      /\ \A k \in 1..(Len(q) + Len(r)) :
            (q \o r)[k] = IF k <= Len(q) THEN q[k] ELSE r[k - Len(q)]
  BY ConcatProperties
<1>2. /\ DOMAIN q = 1..Len(q) /\ DOMAIN r = 1..Len(r)
      /\ DOMAIN (q \o r) = 1..(Len(q) + Len(r))
      /\ Len(q) \in Nat /\ Len(r) \in Nat
  BY <1>1
<1>3. \A k \in 1..(Len(q) + Len(r)) : k > Len(q) => (q \o r)[k].op # "start"
  <2>. SUFFICES ASSUME NEW k \in 1..(Len(q) + Len(r)), k > Len(q)
                PROVE  (q \o r)[k].op # "start"
    OBVIOUS
  <2>1. k - Len(q) \in DOMAIN r /\ (q \o r)[k] = r[k - Len(q)]
    BY <1>1, <1>2
  <2>. QED
    BY <2>1
<1>. QED
  BY <1>1, <1>2, <1>3 DEF Starts

(* Running the task at the head moves the start tasks one place forward. *)
LEMMA TailStarts ==
    ASSUME NEW q \in Seq(Task), q # <<>>, NEW i
    PROVE  Starts(Tail(q), i) = {k - 1 : k \in Starts(q, i) \ {1}}
<1>1. /\ Len(Tail(q)) = Len(q) - 1 /\ Len(q) \in Nat \ {0}
      /\ Tail(q) \in Seq(Task)
      /\ \A k \in 1..(Len(q) - 1) : Tail(q)[k] = q[k + 1]
  BY HeadTailProperties
<1>2. DOMAIN q = 1..Len(q) /\ DOMAIN Tail(q) = 1..(Len(q) - 1)
  BY <1>1
<1>. QED
  BY <1>1, <1>2 DEF Starts

(* The step neither posts nor runs the start of a call. *)
SameStarts ==
    \A i \in Ids : /\ Posted(i)' <=> Posted(i)
                   /\ (\A j, k \in Starts(tasks, i) : j = k) =>
                          (\A j, k \in Starts(tasks', i) : j = k)

(* Posting other tasks starts nothing. *)
LEMMA PostSame ==
    ASSUME TypeOK, NEW r \in Seq(Task), \A k \in DOMAIN r : r[k].op # "start",
           tasks' = tasks \o r
    PROVE  SameStarts
BY ZenonT(30), AppendStarts DEF SameStarts, Posted, TypeOK

(* Posting one other task starts nothing. *)
LEMMA PostOneSame ==
    ASSUME TypeOK, NEW t \in Task, t.op # "start", tasks' = Append(tasks, t)
    PROVE  SameStarts
<1>1. tasks' = tasks \o <<t>>
  BY AppendIsConcat DEF TypeOK
<1>2. <<t>> \in Seq(Task) /\ \A k \in DOMAIN <<t>> : <<t>>[k].op # "start"
  OBVIOUS
<1>. QED
  BY ZenonT(30), <1>1, <1>2, PostSame

(* Running a task that is not a start, and posting others, starts nothing. *)
LEMMA RunSame ==
    ASSUME TypeOK, tasks # <<>>, Head(tasks).op # "start",
           NEW r \in Seq(Task), \A k \in DOMAIN r : r[k].op # "start",
           tasks' = Tail(tasks) \o r
    PROVE  SameStarts
<1>1. tasks \in Seq(Task) /\ Tail(tasks) \in Seq(Task) /\ Head(tasks) = tasks[1]
  BY HeadTailProperties DEF TypeOK
<1>2. ASSUME NEW i \in Ids
      PROVE  Starts(tasks', i) = {k - 1 : k \in Starts(tasks, i)}
  <2>1. 1 \notin Starts(tasks, i)
    BY <1>1 DEF Starts
  <2>2. Starts(tasks', i) = Starts(Tail(tasks), i)
    BY ZenonT(30), <1>1, AppendStarts
  <2>3. Starts(Tail(tasks), i) = {k - 1 : k \in Starts(tasks, i) \ {1}}
    BY <1>1, TailStarts
  <2>4. Starts(tasks, i) \ {1} = Starts(tasks, i)
    BY <2>1
  <2>. QED
    BY <2>2, <2>3, <2>4
<1>3. ASSUME NEW i \in Ids
      PROVE  /\ Posted(i)' <=> Posted(i)
             /\ (\A j, k \in Starts(tasks, i) : j = k) =>
                    (\A j, k \in Starts(tasks', i) : j = k)
  <2>. DEFINE A == Starts(tasks, i)
              B == Starts(tasks', i)
  <2>1. B = {k - 1 : k \in A}
    BY <1>2
  <2>. HIDE DEF A, B
  <2>2. B # {} <=> A # {}
    BY <2>1
  <2>3. (\A j, k \in A : j = k) => (\A j, k \in B : j = k)
    BY <2>1
  <2>. QED
    BY <2>2, <2>3 DEF A, B, Posted
<1>. QED
  BY <1>3 DEF SameStarts

(* Running a task that is not a start starts nothing. *)
LEMMA RunOneSame ==
    ASSUME TypeOK, tasks # <<>>, Head(tasks).op # "start", tasks' = Tail(tasks)
    PROVE  SameStarts
<1>1. tasks' = Tail(tasks) \o <<>>
  BY NextTask, ConcatEmptySeq
<1>2. <<>> \in Seq(Task) /\ \A k \in DOMAIN <<>> : <<>>[k].op # "start"
  OBVIOUS
<1>. QED
  BY ZenonT(30), <1>1, <1>2, RunSame

(* Calls move from pending to live and, when they are told a status, to over. *)
Moves(S, v) ==
    /\ \A i \in S : v \in Status => place'[i] = "over"
    /\ \A i \in Ids : place'[i] # place[i] =>
          /\ place[i] \in {"pending", "live"}
          /\ place'[i] \in {"live", "over"}
          /\ place'[i] = "over" => i \in S /\ v \in Status

(* A step that starts nothing and moves calls as it tells them keeps every   *)
(* call accounted for.                                                       *)
LEMMA MoveAccounted ==
    ASSUME TypeOK, Accounted, SameStarts, NEW S, NEW v, Tell(S, v), Moves(S, v)
    PROVE  Accounted'
<1>. SUFFICES ASSUME NEW i \in Ids
              PROVE  /\ i \in issued' <=> (Posted(i)' \/ place'[i] # "none")
                     /\ Posted(i)' => place'[i] = "none"
                     /\ \A j, k \in Starts(tasks', i) : j = k
                     /\ Ended(i)' <=> place'[i] = "over"
  BY DEF Accounted
<1>1. /\ i \in issued <=> (Posted(i) \/ place[i] # "none")
      /\ Posted(i) => place[i] = "none"
      /\ \A j, k \in Starts(tasks, i) : j = k
      /\ Ended(i) <=> place[i] = "over"
  BY DEF Accounted
<1>2. Ended(i)' <=> (Ended(i) \/ (i \in S /\ v \in Status))
  BY TellEffect
<1>3. issued' = issued
  BY DEF Tell
<1>4. /\ i \in S /\ v \in Status => place'[i] = "over"
      /\ place'[i] # place[i] =>
          /\ place[i] \in {"pending", "live"}
          /\ place'[i] \in {"live", "over"}
          /\ place'[i] = "over" => i \in S /\ v \in Status
  BY DEF Moves
<1>5. /\ Posted(i)' <=> Posted(i)
      /\ \A j, k \in Starts(tasks', i) : j = k
  BY <1>1 DEF SameStarts
<1>. QED
  BY <1>1, <1>2, <1>3, <1>4, <1>5

(* The step tells something to open calls, if only to none. *)
Tells == \E S \in SUBSET Ids : \E v \in Status \cup {Message} : Tell(S, v)

(* A step that changes neither place nor events tells nothing. *)
LEMMA Quiet ==
    ASSUME TypeOK, UNCHANGED <<events, place, issued>>
    PROVE  Tell({}, Message) /\ Moves({}, Message)
BY DEF Tell, Moves, Add, TypeOK

(* Finishing open calls tells them a status and moves them out. *)
LEMMA FinishMoves ==
    ASSUME TypeOK, Accounted, NEW S \in SUBSET Ids, NEW st \in Status, Finish(S, st),
           \A i \in S : place[i] \in {"pending", "live"}, issued' = issued
    PROVE  Tell(S, st) /\ Moves(S, st)
<1>1. S \subseteq issued /\ \A i \in S : ~Ended(i)
  BY DEF Accounted
<1>2. Tell(S, st)
  BY <1>1 DEF Tell, Finish
<1>3. Moves(S, st)
  BY DEF Moves, Finish, Set, TypeOK
<1>. QED
  BY <1>2, <1>3

(* A step that starts nothing and is quiet keeps every call accounted for. *)
LEMMA QuietAccounted ==
    ASSUME TypeOK, Accounted, SameStarts, UNCHANGED <<events, place, issued>>
    PROVE  Accounted' /\ Tells
<1>1. {} \in SUBSET Ids /\ Message \in Status \cup {Message}
  OBVIOUS
<1>. QED
  BY <1>1, Quiet, MoveAccounted DEF Tells

(* So does one that finishes open calls. *)
LEMMA FinishAccounted ==
    ASSUME TypeOK, Accounted, SameStarts, NEW S \in SUBSET Ids, NEW st \in Status,
           Finish(S, st), \A i \in S : place[i] \in {"pending", "live"}, issued' = issued
    PROVE  Accounted' /\ Tells
<1>1. Tell(S, st) /\ Moves(S, st)
  BY FinishMoves
<1>. QED
  BY <1>1, MoveAccounted DEF Tells

(* An unchanged task queue starts nothing. *)
LEMMA StutterSame == ASSUME UNCHANGED tasks PROVE SameStarts
BY DEF SameStarts, Posted

(* Running the start task of a call takes it out of the queue and leaves     *)
(* those of the others.                                                      *)
LEMMA StartRun ==
    ASSUME TypeOK, Accounted, NEW i \in Ids, IsNext("start", i),
           NEW r \in Seq(Task), \A k \in DOMAIN r : r[k].op # "start",
           tasks' = Tail(tasks) \o r
    PROVE  /\ Posted(i) /\ ~Posted(i)'
           /\ \A j \in Ids \ {i} : Posted(j)' <=> Posted(j)
           /\ \A j \in Ids : \A k, l \in Starts(tasks', j) : k = l
<1>1. /\ tasks \in Seq(Task) /\ Tail(tasks) \in Seq(Task) /\ tasks # <<>>
      /\ 1 \in DOMAIN tasks /\ tasks[1].op = "start" /\ tasks[1].id = i
  BY HeadTailProperties DEF TypeOK, IsNext
<1>2. ASSUME NEW j \in Ids
      PROVE  Starts(tasks', j) = {k - 1 : k \in Starts(tasks, j) \ {1}}
  <2>1. Starts(tasks', j) = Starts(Tail(tasks), j)
    BY ZenonT(30), <1>1, AppendStarts
  <2>. QED
    BY <1>1, <2>1, TailStarts
<1>3. 1 \in Starts(tasks, i) /\ \A j \in Ids \ {i} : 1 \notin Starts(tasks, j)
  BY <1>1 DEF Starts
<1>4. \A j \in Ids : \A k, l \in Starts(tasks, j) : k = l
  BY DEF Accounted
<1>5. Starts(tasks, i) \ {1} = {}
  BY <1>3, <1>4
<1>6. ASSUME NEW j \in Ids \ {i} PROVE Posted(j)' <=> Posted(j)
  <2>. DEFINE A == Starts(tasks, j)
              B == Starts(tasks', j)
  <2>1. B = {k - 1 : k \in A}
    <3>1. A \ {1} = A
      BY <1>3
    <3>. QED
      BY <1>2, <3>1
  <2>. HIDE DEF A, B
  <2>2. B # {} <=> A # {}
    BY <2>1
  <2>. QED
    BY <2>2 DEF A, B, Posted
<1>7. ASSUME NEW j \in Ids PROVE \A k, l \in Starts(tasks', j) : k = l
  <2>. DEFINE A == Starts(tasks, j) \ {1}
              B == Starts(tasks', j)
  <2>1. B = {k - 1 : k \in A} /\ \A k, l \in A : k = l
    BY <1>2, <1>4
  <2>. HIDE DEF A, B
  <2>2. \A k, l \in B : k = l
    BY <2>1
  <2>. QED
    BY <2>2 DEF B
<1>8. Starts(tasks', i) = {}
  BY <1>2, <1>5
<1>. QED
  BY <1>3, <1>6, <1>7, <1>8 DEF Posted

\* rest followed by tasks that start nothing.
Follows(rest) == \E r \in Seq(Task) : /\ \A k \in DOMAIN r : r[k].op # "start"
                                      /\ tasks' = rest \o r

\* Those of bad are over and told so, the others of S are live.
Launched(S, bad) ==
    /\ \A i \in Ids : place'[i] = IF i \in bad THEN "over"
                                  ELSE IF i \in S THEN "live" ELSE place[i]
    /\ events' = Add(events, bad, "Unavailable")

(* Launch posts only pumps, and tells only the calls that were refused. *)
LEMMA LaunchEffect ==
    ASSUME TypeOK, NEW S \in SUBSET Ids, NEW bad, NEW blk, NEW rest \in Seq(Task),
           Launch(S, bad, blk, rest)
    PROVE  Follows(rest) /\ Launched(S, bad)
<1>. DEFINE q    == Set([s \in Streams |-> IF s \in S THEN Seeded(out_queue[s])
                                          ELSE out_queue[s]], bad, <<>>)
            now  == Consumed({s \in (S \ bad) \cap Streams : q[s] # <<>>}, blk)
<1>0. now \in SUBSET Streams
  BY DEF Consumed
<1>1. PICK o \in [1..Cardinality(now) -> now] :
         tasks' = rest \o [k \in DOMAIN o |-> T("pump", o[k])]
  BY ZenonT(30) DEF Launch
<1>. HIDE DEF now
<1>2. /\ [k \in DOMAIN o |-> T("pump", o[k])] \in Seq(Task)
      /\ \A k \in DOMAIN o : T("pump", o[k]).op # "start"
  BY ZenonT(30), <1>0, PumpTasksType DEF T
<1>3. \A i \in Ids : place'[i] = IF i \in bad THEN "over"
                                 ELSE IF i \in S THEN "live" ELSE place[i]
  BY ZenonT(30) DEF Launch, Set, TypeOK
<1>4. events' = Add(events, bad, "Unavailable")
  BY ZenonT(30) DEF Launch
<1>. QED
  BY ZenonT(30), <1>1, <1>2, <1>3, <1>4 DEF Follows, Launched

(* Issuing a call accounts for it by its start task. *)
LEMMA IssueAccounted ==
    ASSUME TypeOK, Accounted, NEW i \in Ids, NEW d \in BOOLEAN, Issue(i, d)
    PROVE  Accounted'
<1>1. /\ tasks \in Seq(Task) /\ tasks' = Append(tasks, T("start", i))
      /\ i \notin issued /\ issued' = issued \cup {i}
      /\ UNCHANGED <<place, events>>
  BY DEF Issue, Post, TypeOK
<1>2. /\ DOMAIN tasks = 1..Len(tasks) /\ Len(tasks) \in Nat
      /\ DOMAIN tasks' = 1..(Len(tasks) + 1)
      /\ \A k \in 1..Len(tasks) : tasks'[k] = tasks[k]
      /\ tasks'[Len(tasks) + 1] = T("start", i)
  BY <1>1, OutMsgType, AppendProperties
<1>3. \A j \in Ids : Starts(tasks', j) =
          IF j = i THEN Starts(tasks, j) \cup {Len(tasks) + 1} ELSE Starts(tasks, j)
  BY <1>2 DEF Starts, T
<1>4. Starts(tasks, i) = {} /\ place[i] = "none"
  BY <1>1 DEF Accounted, Posted
<1>5. Posted(i)' /\ \A j, k \in Starts(tasks', i) : j = k
  BY <1>3, <1>4 DEF Posted
<1>6. \A j \in Ids \ {i} : Starts(tasks', j) = Starts(tasks, j)
  BY <1>3
<1>7. \A j \in Ids : Ended(j)' <=> Ended(j)
  BY <1>1 DEF Ended
<1>. QED
  BY <1>1, <1>4, <1>5, <1>6, <1>7 DEF Accounted, Posted

(* Running a start task moves the call from the queue to a container, or     *)
(* tells it that it failed.                                                  *)
LEMMA RunStartAccounted ==
    ASSUME TypeOK, Accounted, NEW i \in Ids, RunStart(i)
    PROVE  Accounted' /\ Tells
<1>1. Tail(tasks) \in Seq(Task) /\ issued' = issued /\ IsNext("start", i)
  BY NextTask DEF RunStart, IsNext, userVars
<1>2. Follows(Tail(tasks))
  <2>1. CASE StartReady(i)
    <3>1. PICK bad \in SUBSET {i} : Launch({i}, bad, {}, Tail(tasks))
      BY <2>1 DEF StartReady
    <3>2. {i} \in SUBSET Ids
      OBVIOUS
    <3>. QED
      BY ZenonT(30), <1>1, <3>1, <3>2, LaunchEffect
  <2>2. CASE tasks' = Tail(tasks)
    <3>1. tasks' = Tail(tasks) \o <<>>
      BY <1>1, <2>2, ConcatEmptySeq
    <3>2. <<>> \in Seq(Task) /\ \A k \in DOMAIN <<>> : <<>>[k].op # "start"
      OBVIOUS
    <3>. QED
      BY ZenonT(30), <3>1, <3>2 DEF Follows
  <2>. QED
    BY <2>1, <2>2 DEF RunStart, StartBroken, StartPending, StartConnectFails
<1>3. /\ Posted(i) /\ ~Posted(i)'
      /\ \A j \in Ids \ {i} : Posted(j)' <=> Posted(j)
      /\ \A j \in Ids : \A k, l \in Starts(tasks', j) : k = l
  BY ZenonT(30), <1>1, <1>2, StartRun DEF Follows
<1>4. i \in issued /\ ~Ended(i)
  BY <1>3 DEF Accounted
<1>5. /\ \A j \in Ids \ {i} : place'[j] = place[j]
      /\ \/ place'[i] \in {"pending", "live"} /\ Tell({}, "Unavailable")
         \/ place'[i] = "over" /\ Tell({i}, "Unavailable")
  <2>0. /\ "Unavailable" \in Status
        /\ events = Add(events, {}, "Unavailable")
    BY DEF Status, Add, TypeOK
  <2>1. CASE StartReady(i)
    <3>1. PICK bad \in {{}, {i}} : Launch({i}, bad, {}, Tail(tasks))
      BY <2>1 DEF StartReady
    <3>2. {i} \in SUBSET Ids /\ bad \in SUBSET {i}
      BY <3>1
    <3>3. Launched({i}, bad)
      BY ZenonT(30), <1>1, <3>1, <3>2, LaunchEffect
    <3>. QED
      BY ZenonT(30), <1>1, <1>4, <2>0, <3>1, <3>3 DEF Tell, Launched
  <2>2. CASE StartBroken(i)
    BY <1>1, <1>4, <2>0, <2>2 DEF StartBroken, Finish, Tell, Set, TypeOK
  <2>3. CASE StartPending(i)
    BY <1>1, <2>0, <2>3 DEF StartPending, Tell, TypeOK
  <2>4. CASE StartConnectFails(i)
    BY <1>1, <1>4, <2>0, <2>4 DEF StartConnectFails, Finish, Tell, Set, TypeOK
  <2>. QED
    BY <2>1, <2>2, <2>3, <2>4 DEF RunStart
<1>6. Tells
  <2>1. "Unavailable" \in Status /\ {i} \in SUBSET Ids /\ {} \in SUBSET Ids
    BY DEF Status
  <2>. QED
    BY <1>5, <2>1 DEF Tells
<1>7. \A j \in Ids : Ended(j)' <=> (Ended(j) \/ (j = i /\ place'[i] = "over"))
  <2>1. "Unavailable" \in Status
    BY DEF Status
  <2>2. CASE place'[i] = "over" /\ Tell({i}, "Unavailable")
    <3>1. \A j \in Ids : Ended(j)' <=> (Ended(j) \/ j \in {i})
      BY Zenon, <1>1, <2>1, <2>2, TellEffect
    <3>. QED
      BY Zenon, <2>2, <3>1
  <2>3. CASE place'[i] \in {"pending", "live"} /\ Tell({}, "Unavailable")
    <3>1. \A j \in Ids : Ended(j)' <=> (Ended(j) \/ j \in {})
      BY <1>1, <2>1, <2>3, TellEffect
    <3>. QED
      BY Zenon, <2>3, <3>1
  <2>. QED
    BY Zenon, <1>5, <2>2, <2>3
<1>8. Accounted'
  BY ZenonT(30), <1>1, <1>3, <1>4, <1>5, <1>7 DEF Accounted
<1>. QED
  BY <1>6, <1>8

(* The other API operations and tasks keep every call accounted for. *)
LEMMA ApiAccounted ==
    ASSUME TypeOK, Accounted, NEW i \in Ids, NEW m \in Msgs \cup {NoMsg}, NEW c \in BOOLEAN,
           Cancel(i) \/ (i \in Streams /\ (StreamCloseSend(i) \/ StreamSend(i, m, c)))
    PROVE  Accounted' /\ Tells
<1>1. UNCHANGED <<events, place, issued>>
  BY DEF Cancel, StreamCloseSend, StreamSend, userVars
<1>2. \E t \in Task : t.op # "start" /\ tasks' = Append(tasks, t)
  <2>1. \A op \in {"cancel", "closeSend"} : T(op, i) \in Task /\ T(op, i).op # "start"
    BY ZenonT(30), OutMsgType DEF T
  <2>2. [op |-> "send", id |-> i, out |-> [msg |-> m, close |-> c]] \in Task
    BY DEF Task, OutMsg
  <2>. QED
    BY <2>1, <2>2 DEF Cancel, StreamCloseSend, StreamSend, Post
<1>3. SameStarts
  BY <1>2, PostOneSame
<1>. QED
  BY <1>1, <1>3, QuietAccounted

(* So do the tasks of streams, which only move messages. *)
LEMMA StreamTaskAccounted ==
    ASSUME TypeOK, Accounted, NEW s \in Streams,
           RunSend(s) \/ RunCloseSend(s) \/ RunPump(s)
    PROVE  Accounted' /\ Tells
<1>1. UNCHANGED <<events, place, issued>>
  BY ZenonT(30) DEF RunSend, RunCloseSend, RunPump, userVars
<1>2. /\ tasks # <<>> /\ Head(tasks).op # "start" /\ Tail(tasks) \in Seq(Task)
  BY NextTask DEF RunSend, RunCloseSend, RunPump, IsNext
<1>3. \/ tasks' = Tail(tasks)
      \/ tasks' = Append(Tail(tasks), T("pump", s))
  BY ZenonT(30) DEF RunSend, SendParked, SendRefused, RunCloseSend, RunPump, PumpStream
<1>4. CASE tasks' = Tail(tasks)
  BY <1>1, <1>2, <1>4, RunOneSame, QuietAccounted
<1>5. CASE tasks' = Append(Tail(tasks), T("pump", s))
  <2>1. T("pump", s) \in Task /\ T("pump", s).op # "start"
    BY ZenonT(30), OutMsgType DEF T, Ids
  <2>2. tasks' = Tail(tasks) \o <<T("pump", s)>>
    BY <1>2, <1>5, <2>1, AppendIsConcat
  <2>3. /\ <<T("pump", s)>> \in Seq(Task)
        /\ \A k \in DOMAIN <<T("pump", s)>> : <<T("pump", s)>>[k].op # "start"
    BY <2>1
  <2>4. SameStarts
    BY ZenonT(30), <1>2, <2>2, <2>3, RunSame
  <2>. QED
    BY <1>1, <2>4, QuietAccounted
<1>. QED
  BY <1>3, <1>4, <1>5

(* So does Cancel, which finishes a live call or nothing. *)
LEMMA RunCancelAccounted ==
    ASSUME TypeOK, Accounted, NEW i \in Ids, RunCancel(i)
    PROVE  Accounted' /\ Tells
<1>1. /\ tasks # <<>> /\ Head(tasks).op # "start" /\ tasks' = Tail(tasks)
      /\ issued' = issued
  BY ZenonT(30) DEF RunCancel, IsNext, userVars
<1>2. SameStarts
  BY <1>1, RunOneSame
<1>3. CASE i \in Calls /\ place[i] = "live"
  <2>1. /\ Finish({i}, "Unavailable") /\ "Unavailable" \in Status /\ {i} \in SUBSET Ids
        /\ \A j \in {i} : place[j] \in {"pending", "live"}
    BY <1>3 DEF RunCancel, Status
  <2>. QED
    BY <1>1, <1>2, <2>1, FinishAccounted
<1>4. CASE ~(i \in Calls /\ place[i] = "live")
  <2>1. UNCHANGED <<events, place>>
    BY <1>4 DEF RunCancel
  <2>. QED
    BY <1>1, <1>2, <2>1, QuietAccounted
<1>. QED
  BY <1>3, <1>4

(* A deadline ends a live call or finds nothing. *)
LEMMA TimeoutAccounted ==
    ASSUME TypeOK, Accounted, NEW i \in Ids, Timeout(i)
    PROVE  Accounted' /\ Tells
<1>1. SameStarts /\ issued' = issued
  BY StutterSame DEF Timeout, userVars
<1>2. CASE place[i] = "live"
  <2>1. PICK st \in Status : Finish({i}, st)
    BY ZenonT(30), <1>2 DEF Timeout, Status
  <2>2. {i} \in SUBSET Ids /\ \A j \in {i} : place[j] \in {"pending", "live"}
    BY <1>2
  <2>. QED
    BY <1>1, <2>1, <2>2, FinishAccounted
<1>3. CASE place[i] # "live"
  <2>1. UNCHANGED <<events, place>>
    BY <1>3 DEF Timeout
  <2>. QED
    BY <1>1, <2>1, QuietAccounted
<1>. QED
  BY <1>2, <1>3

(* The outcome of a connect, and the loss of a connection, move all the      *)
(* calls of a container at once.                                             *)
LEMMA ConnectionAccounted ==
    ASSUME TypeOK, Accounted, ConnectOk \/ ConnectFail \/ OnConnectionLost
    PROVE  Accounted' /\ Tells
<1>1. issued' = issued
  BY DEF ConnectOk, ConnectFail, OnConnectionLost, userVars
<1>2. "Unavailable" \in Status
  BY DEF Status
<1>3. CASE ConnectOk
  <2>1. PICK bad \in SUBSET Held("pending"), blk \in SUBSET Streams :
           Launch(Held("pending"), bad, blk, tasks)
    BY <1>3 DEF ConnectOk
  <2>2. Held("pending") \in SUBSET Ids /\ tasks \in Seq(Task)
    BY DEF Held, TypeOK
  <2>3. Follows(tasks) /\ Launched(Held("pending"), bad)
    BY <2>1, <2>2, LaunchEffect
  <2>4. SameStarts
    BY <2>3, PostSame DEF Follows
  <2>5. Tell(bad, "Unavailable")
    BY <1>1, <1>2, <2>3 DEF Launched, Tell, Held, Accounted
  <2>6. Moves(bad, "Unavailable")
    BY <1>2, <2>3 DEF Launched, Moves, Held, TypeOK
  <2>7. bad \in SUBSET Ids /\ "Unavailable" \in Status \cup {Message}
    BY <1>2 DEF Held
  <2>. QED
    BY <2>4, <2>5, <2>6, <2>7, MoveAccounted DEF Tells
<1>4. CASE ConnectFail
  <2>. DEFINE S == Held("pending") \cap Calls
  <2>1. /\ Finish(S, "Unavailable") /\ S \in SUBSET Ids
        /\ \A j \in S : place[j] \in {"pending", "live"}
    BY <1>4 DEF ConnectFail, Held
  <2>2. SameStarts
    BY <1>4, StutterSame DEF ConnectFail
  <2>. HIDE DEF S
  <2>. QED
    BY <1>1, <1>2, <2>1, <2>2, FinishAccounted
<1>5. CASE OnConnectionLost
  <2>. DEFINE S == Held("live") \cup Held("pending")
  <2>1. /\ Finish(S, "Unavailable") /\ S \in SUBSET Ids
        /\ \A j \in S : place[j] \in {"pending", "live"}
    BY <1>5 DEF OnConnectionLost, Held
  <2>2. SameStarts
    BY <1>5, StutterSame DEF OnConnectionLost
  <2>. HIDE DEF S
  <2>. QED
    BY <1>1, <1>2, <2>1, <2>2, FinishAccounted
<1>. QED
  BY <1>3, <1>4, <1>5

(* A frame ends the live call it belongs to, or is ignored. *)
LEMMA FrameAccounted ==
    ASSUME TypeOK, Accounted, NEW i \in Ids, Frame(i)
    PROVE  Accounted' /\ Tells
<1>1. SameStarts /\ issued' = issued
  BY ZenonT(30), StutterSame DEF Frame, RecvHeaders, RecvBadHeaders, RecvEnd, OnStreamClose,
     RecvTrailers, RecvBadData, recvVars, userVars
<1>2. ASSUME NEW st \in Status, End(i, st) PROVE Accounted' /\ Tells
  <2>. DEFINE S == {i} \cap Held("live")
  <2>1. /\ Finish(S, st) /\ S \in SUBSET Ids
        /\ \A j \in S : place[j] \in {"pending", "live"}
    BY <1>2 DEF End, Held
  <2>. HIDE DEF S
  <2>. QED
    BY <1>1, <2>1, FinishAccounted
<1>3. CASE UNCHANGED <<place, events>>
  BY <1>1, <1>3, QuietAccounted
<1>4. UNCHANGED <<place, events>> \/ \E st \in Status : End(i, st)
  BY ZenonT(30), ConstantsAssumption DEF Frame, RecvHeaders, RecvBadHeaders, RecvEnd, OnStreamClose,
     RecvTrailers, RecvBadData, Status
<1>. QED
  BY <1>2, <1>3, <1>4

(* A response message is told to a live stream only; a window update tells   *)
(* nothing.                                                                  *)
LEMMA StreamEventAccounted ==
    ASSUME TypeOK, Accounted, NEW s \in Streams, RecvMessage(s) \/ Unblock(s)
    PROVE  Accounted' /\ Tells
<1>1. CASE RecvMessage(s)
  <2>. DEFINE S == {s} \cap Held("live")
  <2>1. SameStarts /\ UNCHANGED <<place, issued>> /\ events' = Add(events, S, Message)
    BY <1>1, StutterSame DEF RecvMessage, recvVars, userVars
  <2>2. S \in SUBSET Ids /\ \A i \in S : place[i] = "live"
    BY DEF Held
  <2>. HIDE DEF S
  <2>3. Tell(S, Message)
    BY <2>1, <2>2 DEF Tell, Accounted
  <2>4. Moves(S, Message)
    BY <2>1 DEF Moves, Status, Message
  <2>. QED
    BY <2>1, <2>2, <2>3, <2>4, MoveAccounted DEF Tells
<1>2. CASE Unblock(s)
  <2>1. UNCHANGED <<events, place, issued>>
    BY <1>2 DEF Unblock, userVars
  <2>2. T("pump", s) \in Task /\ T("pump", s).op # "start"
    BY ZenonT(30), OutMsgType DEF T, Ids
  <2>3. tasks' = tasks \/ tasks' = Append(tasks, T("pump", s))
    BY <1>2 DEF Unblock, Post
  <2>4. SameStarts
    BY <2>2, <2>3, StutterSame, PostOneSame
  <2>. QED
    BY <2>1, <2>4, QuietAccounted
<1>. QED
  BY <1>1, <1>2

(* Every step keeps every call accounted for; it issues a call or tells      *)
(* something to open calls.                                                  *)
LEMMA NextAccounted ==
    ASSUME TypeOK, Accounted, Next
    PROVE  /\ Accounted'
           /\ Tells \/ \E i \in Ids, d \in BOOLEAN : Issue(i, d)
<1>1. ASSUME NEW i \in Ids, NEW d \in BOOLEAN, Issue(i, d)
      PROVE  Accounted'
  BY <1>1, IssueAccounted
<1>2. CASE Api
  BY ZenonT(30), <1>1, <1>2, ApiAccounted DEF Api, Ids
<1>3. CASE RunTask
  BY <1>3, RunStartAccounted, RunCancelAccounted, StreamTaskAccounted DEF RunTask
<1>4. CASE ConnectOk \/ ConnectFail \/ OnConnectionLost
  BY <1>4, ConnectionAccounted
<1>5. ASSUME NEW i \in Ids, Timeout(i) \/ Frame(i) PROVE Accounted' /\ Tells
  BY <1>5, TimeoutAccounted, FrameAccounted
<1>6. ASSUME NEW s \in Streams, RecvMessage(s) \/ Unblock(s) PROVE Accounted' /\ Tells
  BY <1>6, StreamEventAccounted
<1>. QED
  BY <1>2, <1>3, <1>4, <1>5, <1>6 DEF Next

(* The inductive invariant. *)
CallInv == TypeOK /\ Accounted /\ TerminalLast

(* Initially nothing is issued and nobody has been told anything. *)
LEMMA InitCallInv == ASSUME Init PROVE CallInv
<1>1. TypeOK
  BY InitType
<1>2. \A i \in Ids : Starts(tasks, i) = {} /\ ~Ended(i) /\ events[i] = <<>>
  BY DEF Init, Starts, Ended
<1>. QED
  BY <1>1, <1>2 DEF Init, CallInv, Accounted, TerminalLast, Posted

(* Every step keeps each call accounted for and its terminal status last. *)
LEMMA NextCallInv == ASSUME CallInv, [Next]_vars PROVE CallInv'
<1>1. TypeOK'
  BY NextType DEF CallInv
<1>2. CASE Next
  <2>1. /\ Accounted'
        /\ Tells \/ \E i \in Ids, d \in BOOLEAN : Issue(i, d)
    BY <1>2, NextAccounted DEF CallInv
  <2>2. CASE Tells
    <3>1. TerminalLast'
      BY <2>2, TellEffect DEF Tells, CallInv
    <3>. QED
      BY <1>1, <2>1, <3>1 DEF CallInv
  <2>3. CASE \E i \in Ids, d \in BOOLEAN : Issue(i, d)
    <3>1. TerminalLast'
      BY <2>3 DEF Issue, TerminalLast, CallInv
    <3>. QED
      BY <1>1, <2>1, <3>1 DEF CallInv
  <2>. QED
    BY <2>1, <2>2, <2>3
<1>3. CASE UNCHANGED vars
  <2>1. UNCHANGED <<tasks, place, events, issued>>
    BY <1>3 DEF vars, userVars
  <2>. QED
    BY ZenonT(30), <1>1, <2>1 DEF CallInv, Accounted, TerminalLast, Posted, Ended
<1>. QED
  BY <1>2, <1>3

(* Whatever races on the loop thread, no issued call is lost: it is in       *)
(* exactly one container until its owner is told how it ended.               *)
THEOREM AccountedCorrect == Spec => []Accounted
<1>1. CallInv => Accounted
  BY DEF CallInv
<1>. QED
  BY <1>1, InitCallInv, NextCallInv, PTL DEF Spec

(* done and on_complete fire at most once, and nothing is delivered after. *)
THEOREM TerminalLastCorrect == Spec => []TerminalLast
<1>1. CallInv => TerminalLast
  BY DEF CallInv
<1>. QED
  BY <1>1, InitCallInv, NextCallInv, PTL DEF Spec

-----------------------------------------------------------------------------
(* The channel implements CallPromise. *)

(* A step of the channel is a step of the promise, or leaves it unchanged. *)
LEMMA NextPromise ==
    ASSUME CallInv, [Next]_vars
    PROVE  [Promise!Next]_<<issued, events>>
<1>1. CASE UNCHANGED vars
  BY <1>1 DEF vars, userVars
<1>2. ASSUME NEW i \in Ids, NEW d \in BOOLEAN, Issue(i, d) PROVE Promise!Next
  BY <1>2 DEF Issue, Promise!Next, Promise!Issue
<1>3. ASSUME NEW S \in SUBSET Ids, NEW v \in Status \cup {Message}, Tell(S, v)
      PROVE  Promise!Next
  <2>. DEFINE heard == [i \in S |-> v]
  <2>1. heard \in [S -> Status \cup {Message}]
    OBVIOUS
  <2>2. DOMAIN events = Ids
    BY DEF CallInv, TypeOK
  <2>3. events' = [i \in Ids |-> IF i \in S THEN Append(events[i], heard[i])
                                            ELSE events[i]]
    BY <1>3, <2>2 DEF Tell, Add
  <2>4. \A i \in S : ~Promise!Ended(i)
    BY <1>3 DEF Tell, Ended, Promise!Ended
  <2>5. Promise!Notify(S)
    BY ZenonT(30), <1>3, <2>1, <2>3, <2>4 DEF Tell, Promise!Notify
  <2>. QED
    BY <2>5 DEF Promise!Next
<1>4. CASE Next
  BY <1>2, <1>3, <1>4, NextAccounted DEF CallInv, Tells
<1>. QED
  BY <1>1, <1>4

(* For every number of calls and streams, the channel keeps the promise of   *)
(* channel.h: a call is answered by messages and then one terminal status.   *)
THEOREM PromiseKept == Spec => PromiseSpec
<1>1. Init => Promise!Init
  BY DEF Init, Promise!Init
<1>. QED
  BY <1>1, InitCallInv, NextCallInv, NextPromise, PTL
     DEF Spec, PromiseSpec, Promise!Spec, Promise!vars

-----------------------------------------------------------------------------
(* No unary call waits in vain. *)
WaitInv == TypeOK /\ NoCallWaitsInVain

(* Finish, call by call. *)
LEMMA FinishPoint ==
    ASSUME TypeOK, NEW S, NEW st, Finish(S, st)
    PROVE  \A i \in Ids : place'[i] = IF i \in S THEN "over" ELSE place[i]
BY DEF Finish, Set, TypeOK

(* Launch, call by call. *)
LEMMA LaunchPoint ==
    ASSUME TypeOK, NEW S, NEW bad, NEW blk, NEW rest, Launch(S, bad, blk, rest)
    PROVE  \A i \in Ids : /\ place'[i] = IF i \in bad THEN "over"
                                         ELSE IF i \in S THEN "live" ELSE place[i]
                          /\ h2'[i] = IF i \in S \ bad THEN "open" ELSE h2[i]
BY ZenonT(30) DEF Launch, Set, TypeOK

(* Every step keeps waiting calls with something to wait for. *)
LEMMA NextWaitInv == ASSUME WaitInv, [Next]_vars PROVE WaitInv'
<1>. DEFINE Fine(i) ==
              /\ i \in Calls /\ place[i] = "pending" => conn = "Connecting"
              /\ place[i] = "live" => conn = "Ready" /\ h2[i] \in {"open", "body", "ended"}
<1>1. /\ TypeOK /\ TypeOK'
      /\ \A i \in Ids : Fine(i)
  BY NextType DEF WaitInv, NoCallWaitsInVain
<1>2. ASSUME \A i \in Ids : Fine(i)' PROVE WaitInv'
  BY <1>1, <1>2 DEF WaitInv, NoCallWaitsInVain, Ids
<1>3. ASSUME NEW i \in Ids, RunStart(i) PROVE WaitInv'
  <2>1. CASE StartReady(i)
    <3>1. PICK bad : Launch({i}, bad, {}, Tail(tasks)) /\ conn = "Ready" /\ conn' = conn
      BY <2>1 DEF StartReady
    <3>2. \A j \in Ids : Fine(j)'
      BY <1>1, <3>1, LaunchPoint
    <3>. QED
      BY <1>2, <3>2
  <2>2. CASE StartBroken(i)
    <3>1. \A j \in Ids : Fine(j)'
      BY <1>1, <2>2, FinishPoint DEF StartBroken
    <3>. QED
      BY <1>2, <3>1
  <2>3. CASE StartPending(i)
    <3>1. \A j \in Ids : Fine(j)'
      BY <1>1, <2>3 DEF StartPending, TypeOK
    <3>. QED
      BY <1>2, <3>1
  <2>4. CASE StartConnectFails(i)
    <3>1. \A j \in Ids : place[j] # "live" /\ (place[j] = "pending" => j \notin Calls)
      BY <1>1, <2>4 DEF StartConnectFails
    <3>2. CASE i \in Calls
      BY <1>1, <1>2, <2>4, <3>1, <3>2, FinishPoint DEF StartConnectFails
    <3>3. CASE i \notin Calls
      <4>1. \A j \in Ids : place'[j] = IF j = i THEN "pending" ELSE place[j]
        BY <2>4, <3>3, <1>1 DEF StartConnectFails, TypeOK
      <4>2. \A j \in Ids : Fine(j)'
        BY <3>1, <3>3, <4>1
      <4>. QED
        BY <1>2, <4>2
    <3>. QED
      BY <3>2, <3>3
  <2>. QED
    BY <1>3, <2>1, <2>2, <2>3, <2>4 DEF RunStart
<1>4. ASSUME NEW i \in Ids, RunCancel(i) \/ Timeout(i) PROVE WaitInv'
  <2>1. /\ conn' = conn
        /\ \A j \in Ids \ {i} : place'[j] = place[j] /\ h2'[j] = h2[j]
        /\ \/ place'[i] = "over"
           \/ place'[i] = place[i] /\ h2'[i] = h2[i]
    <3>1. CASE \E st : Finish({i}, st) /\ h2' = [h2 EXCEPT ![i] = "closed"]
      <4>1. \A j \in Ids : place'[j] = IF j \in {i} THEN "over" ELSE place[j]
        BY <1>1, <3>1, FinishPoint
      <4>2. \A j \in Ids \ {i} : h2'[j] = h2[j]
        BY <1>1, <3>1 DEF TypeOK
      <4>3. conn' = conn
        BY ZenonT(30), <1>4 DEF RunCancel, Timeout
      <4>. QED
        BY <4>1, <4>2, <4>3
    <3>2. CASE UNCHANGED <<place, h2>>
      BY ZenonT(30), <1>4, <3>2 DEF RunCancel, Timeout
    <3>. QED
      BY ZenonT(30), <1>4, <3>1, <3>2 DEF RunCancel, Timeout
  <2>2. \A j \in Ids : Fine(j)'
    BY <1>1, <2>1
  <2>. QED
    BY <1>2, <2>2
<1>5. CASE ConnectOk
  <2>1. PICK bad, blk : Launch(Held("pending"), bad, blk, tasks) /\ conn' = "Ready"
    BY <1>5 DEF ConnectOk
  <2>2. \A i \in Ids : place[i] # "live"
    BY <1>1, <1>5 DEF ConnectOk
  <2>3. \A j \in Ids : Fine(j)'
    <3>1. \A j \in Ids :
             /\ place'[j] = IF j \in bad THEN "over"
                            ELSE IF j \in Held("pending") THEN "live" ELSE place[j]
             /\ h2'[j] = IF j \in Held("pending") \ bad THEN "open" ELSE h2[j]
      BY <1>1, <2>1, LaunchPoint
    <3>2. TAKE j \in Ids
    <3>3. place[j] = "pending" <=> j \in Held("pending")
      BY Zenon DEF Held
    <3>4. CASE j \in bad
      <4>1. place'[j] = "over"
        BY Zenon, <3>1, <3>4
      <4>. QED
        BY Zenon, <4>1
    <3>5. CASE j \notin bad /\ j \in Held("pending")
      <4>1. place'[j] = "live" /\ h2'[j] = "open" /\ conn' = "Ready"
        BY Zenon, <2>1, <3>1, <3>5
      <4>. QED
        BY Zenon, <4>1
    <3>6. CASE j \notin bad /\ j \notin Held("pending")
      <4>1. place'[j] \notin {"pending", "live"}
        BY Zenon, <2>2, <3>1, <3>3, <3>6
      <4>. QED
        BY Zenon, <4>1
    <3>. QED
      BY Zenon, <3>4, <3>5, <3>6
  <2>. QED
    BY <1>2, <2>3
<1>6. CASE ConnectFail
  <2>1. \A i \in Ids : place[i] # "live"
    BY <1>1, <1>6 DEF ConnectFail
  <2>2. \A j \in Ids : Fine(j)'
    BY <1>1, <1>6, <2>1, FinishPoint DEF ConnectFail, Held
  <2>. QED
    BY <1>2, <2>2
<1>7. CASE OnConnectionLost
  <2>1. \A j \in Ids : Fine(j)'
    <3>1. \A j \in Ids : place'[j] = IF j \in Held("live") \cup Held("pending")
                                      THEN "over" ELSE place[j]
      BY Zenon, <1>1, <1>7, FinishPoint DEF OnConnectionLost
    <3>2. \A j \in Ids : place'[j] \notin {"live", "pending"}
      BY <3>1 DEF Held
    <3>. QED
      BY Zenon, <3>2
  <2>. QED
    BY <1>2, <2>1
<1>8. ASSUME UNCHANGED <<conn, place, h2>> PROVE WaitInv'
  BY <1>1, <1>2, <1>8
<1>9. ASSUME NEW i \in Ids, Frame(i) PROVE WaitInv'
  <2>1. conn' = conn
    BY ZenonT(30), <1>9 DEF Frame, RecvHeaders, RecvBadHeaders, RecvEnd, OnStreamClose, RecvTrailers,
       RecvBadData, recvVars
  <2>2. /\ \A j \in Ids \ {i} : h2'[j] = h2[j]
        /\ h2'[i] # h2[i] => h2'[i] \in {"body", "ended"} \/ OnStreamClose(i)
    BY ZenonT(30), <1>1, <1>9 DEF Frame, RecvHeaders, RecvBadHeaders, RecvEnd, OnStreamClose,
       RecvTrailers, RecvBadData, TypeOK
  <2>3. CASE \E st : End(i, st)
    <3>1. \A j \in Ids : place'[j] = IF j = i /\ place[i] = "live" THEN "over" ELSE place[j]
      <4>1. PICK st : Finish({i} \cap Held("live"), st)
        BY <2>3 DEF End
      <4>2. \A j \in Ids : place'[j] = IF j \in {i} \cap Held("live") THEN "over" ELSE place[j]
        BY <1>1, <4>1, FinishPoint
      <4>. QED
        BY <4>2 DEF Held
    <3>2. \A j \in Ids : Fine(j)'
      BY ZenonT(30), <1>1, <2>1, <2>2, <3>1
    <3>. QED
      BY <1>2, <3>2
  <2>4. CASE place' = place /\ ~OnStreamClose(i)
    <3>1. \A j \in Ids : Fine(j)'
      BY <1>1, <2>1, <2>2, <2>4
    <3>. QED
      BY <1>2, <3>1
  <2>. QED
    BY ZenonT(30), <1>9, <2>3, <2>4 DEF Frame, RecvHeaders, RecvBadHeaders, RecvEnd, OnStreamClose,
       RecvTrailers, RecvBadData
<1>10. CASE Next
  <2>1. CASE Api
    BY ZenonT(30), <1>8, <2>1 DEF Api, Issue, Cancel, StreamSend, StreamCloseSend
  <2>2. CASE RunTask
    BY ZenonT(30), <1>8, <1>3, <1>4, <2>2 DEF RunTask, RunSend, RunCloseSend, RunPump
  <2>3. ASSUME NEW s \in Streams, RecvMessage(s) \/ Unblock(s) PROVE WaitInv'
    BY ZenonT(30), <1>8, <2>3 DEF RecvMessage, Unblock, recvVars
  <2>. QED
    BY <1>4, <1>5, <1>6, <1>7, <1>9, <1>10, <2>1, <2>2, <2>3 DEF Next
<1>11. CASE UNCHANGED vars
  BY <1>8, <1>11 DEF vars
<1>. QED
  BY <1>10, <1>11

(* A unary call is pending only while a connect is outstanding, and live     *)
(* only while its HTTP/2 stream can still end it.                            *)
THEOREM NoCallWaitsInVainCorrect == Spec => []NoCallWaitsInVain
<1>1. Init => WaitInv
  BY ZenonT(30), InitType DEF Init, WaitInv, NoCallWaitsInVain, Ids
<1>2. WaitInv => NoCallWaitsInVain
  BY DEF WaitInv
<1>. QED
  BY <1>1, <1>2, NextWaitInv, PTL DEF Spec

-----------------------------------------------------------------------------
(* Deadlines *)

(* A timer is fired by Timeout alone. *)
LEMMA OnlyTimeoutFires ==
    ASSUME TypeOK, Next, NEW i \in Ids, timer[i] = "armed", timer'[i] = "fired"
    PROVE  Timeout(i)
<1>1. \A S : CancelTimers(S)[i] \in {"armed", "off"}
  BY DEF CancelTimers, Set, TypeOK
<1>2. ASSUME NEW S, timer' = CancelTimers(S) PROVE FALSE
  BY <1>1, <1>2
<1>3. timer' # timer
  OBVIOUS
<1>4. ASSUME NEW j, StartTimer(j) PROVE FALSE
  BY <1>4 DEF StartTimer, Set, TypeOK
<1>5. ~Api
  BY ZenonT(30), <1>3 DEF Api, Issue, Cancel, StreamSend, StreamCloseSend
<1>6. ~RunTask
  <2>1. ASSUME NEW j \in Ids, RunStart(j) PROVE FALSE
    BY <1>3, <1>4, <2>1 DEF RunStart, StartReady, StartBroken, StartPending, StartConnectFails
  <2>2. ASSUME NEW j \in Ids, RunCancel(j) PROVE FALSE
    BY Zenon, <1>2, <1>3, <2>2 DEF RunCancel
  <2>3. ASSUME NEW s \in Streams, RunSend(s) \/ RunCloseSend(s) \/ RunPump(s) PROVE FALSE
    BY ZenonT(30), <1>3, <2>3 DEF RunSend, RunCloseSend, RunPump
  <2>. QED
    BY Zenon, <2>1, <2>2, <2>3 DEF RunTask
<1>7. ~ConnectOk
  <2>. SUFFICES ASSUME ConnectOk PROVE FALSE
    OBVIOUS
  <2>1. PICK bad : timer'[i] = IF i \in (Held("pending") \ bad) \cap Streams \cap timed THEN "armed"
                              ELSE CancelTimers(bad)[i]
    BY DEF ConnectOk
  <2>. QED
    BY <1>1, <2>1
<1>8. ~ConnectFail /\ ~OnConnectionLost
  BY <1>2 DEF ConnectFail, OnConnectionLost
<1>9. ASSUME NEW j \in Ids, Frame(j) PROVE FALSE
  <2>1. ASSUME NEW st, End(j, st) PROVE FALSE
    BY <1>2, <2>1 DEF End
  <2>. QED
    BY Zenon, <1>3, <1>9, <2>1 DEF Frame, RecvHeaders, RecvBadHeaders, RecvEnd, OnStreamClose, RecvTrailers,
       RecvBadData
<1>10. ASSUME NEW s \in Streams, RecvMessage(s) \/ Unblock(s) PROVE FALSE
  BY <1>3, <1>10 DEF RecvMessage, Unblock
<1>11. ASSUME NEW j \in Ids, Timeout(j) PROVE j = i
  BY <1>11 DEF Timeout, TypeOK
<1>. QED
  BY Zenon, <1>5, <1>6, <1>7, <1>8, <1>9, <1>10, <1>11 DEF Next

(* A deadline that fires on a call in flight is reported as                  *)
(* DEADLINE_EXCEEDED, although resetting the stream makes nghttp2 report it  *)
(* closed first: the mark the timer handlers set is what OnStreamClose asks. *)
THEOREM DeadlineReportedCorrect == Spec => DeadlineReported
<1>1. ASSUME TypeOK, [Next]_vars, NEW i \in Ids, timer[i] = "armed", timer'[i] = "fired",
             place[i] = "live"
      PROVE  events'[i] = Append(events[i], "DeadlineExceeded")
  <2>1. Timeout(i)
    <3>1. timer' # timer
      BY <1>1
    <3>2. Next
      BY <1>1, <3>1 DEF vars
    <3>. QED
      BY <1>1, <3>2, OnlyTimeoutFires
  <2>2. Finish({i}, "DeadlineExceeded")
    BY <1>1, <2>1 DEF Timeout, CloseEnds
  <2>. QED
    BY <1>1, <2>2 DEF Finish, Add, TypeOK
<1>2. TypeOK /\ [Next]_vars =>
         [\A i \in Ids : timer[i] = "armed" /\ timer'[i] = "fired" /\ place[i] = "live"
             => events'[i] = Append(events[i], "DeadlineExceeded")]_vars
  BY <1>1
<1>. QED
  BY <1>2, TypeCorrect, PTL DEF Spec, DeadlineReported
=============================================================================
