------------------------- MODULE ChannelSendProofs -------------------------
(***************************************************************************)
(* The send side of the channel, for any number of streams and messages:   *)
(* every step keeps the messages of a stream in line, from StreamSend      *)
(* through the loop's queue and the stream's own queue to the wire.        *)
(***************************************************************************)
EXTENDS ChannelProofs

-----------------------------------------------------------------------------
(* The messages of a stream stay in line.                                  *)
(*                                                                         *)
(* WireInOrder and FlushedOnce speak of the wire and of on_flushed; what   *)
(* makes them true is the order and the uniqueness of the messages on      *)
(* their way there.  t are the messages given to StreamSend, oldest first; *)
(* w is the wire, b the item inside nghttp2, q the queue, p the tasks.     *)

MsgOf(o)  == {o.msg} \cap Msgs
MsgsOf(q) == {q[k].msg : k \in DOMAIN q} \cap Msgs

\* m was given to StreamSend before n.
Earlier(t, m, n) == \E j, k \in DOMAIN t : j < k /\ t[j] = m /\ t[k] = n
Before(t, A, B)  == \A m \in A, n \in B : Earlier(t, m, n)
Ordered(t, q) ==
    \A j, k \in DOMAIN q :
        j < k => Before(t, MsgOf(q[j]), MsgOf(q[k]))

InLine(t, w, b, q, p) ==
    /\ Ordered(t, w) /\ Ordered(t, q) /\ Ordered(t, p)
    /\ Before(t, MsgsOf(w), MsgOf(b) \cup MsgsOf(q) \cup MsgsOf(p))
    /\ Before(t, MsgOf(b), MsgsOf(q) \cup MsgsOf(p))
    /\ Before(t, MsgsOf(q), MsgsOf(p))
    /\ MsgsOf(w) \cup MsgOf(b) \cup MsgsOf(q) \cup MsgsOf(p) \subseteq Elems(t)

(* The first message of a queue comes before the others. *)
LEMMA HeadFirst ==
    ASSUME NEW q \in Seq(OutMsg), q # <<>>, NEW t, Ordered(t, q)
    PROVE  /\ MsgsOf(q) = MsgOf(Head(q)) \cup MsgsOf(Tail(q))
           /\ Ordered(t, Tail(q))
           /\ Before(t, MsgOf(Head(q)), MsgsOf(Tail(q)))
<1>1. /\ Len(Tail(q)) = Len(q) - 1 /\ Len(q) \in Nat \ {0}
      /\ Tail(q) \in Seq(OutMsg) /\ Head(q) = q[1]
      /\ \A k \in 1..(Len(q) - 1) : Tail(q)[k] = q[k + 1]
  BY HeadTailProperties
<1>2. DOMAIN q = 1..Len(q) /\ DOMAIN Tail(q) = 1..(Len(q) - 1)
  BY <1>1
<1>3. \A k \in 1..(Len(q) - 1) : k + 1 \in 1..Len(q) /\ 1 < k + 1
  BY <1>1
<1>4. \A k \in 1..Len(q) : k = 1 \/ (k - 1 \in 1..(Len(q) - 1) /\ Tail(q)[k - 1] = q[k])
  BY <1>1
<1>5. MsgsOf(q) = MsgOf(Head(q)) \cup MsgsOf(Tail(q))
  <2>1. MsgsOf(Tail(q)) \subseteq MsgsOf(q)
    BY <1>1, <1>2, <1>3 DEF MsgsOf
  <2>2. MsgOf(Head(q)) \subseteq MsgsOf(q)
    BY <1>1, <1>2 DEF MsgsOf, MsgOf
  <2>3. ASSUME NEW m \in MsgsOf(q) PROVE m \in MsgOf(Head(q)) \cup MsgsOf(Tail(q))
    <3>1. PICK k \in 1..Len(q) : m = q[k].msg /\ m \in Msgs
      BY <1>2 DEF MsgsOf
    <3>. QED
      BY Zenon, <1>1, <1>2, <1>4, <3>1 DEF MsgsOf, MsgOf
  <2>. QED
    BY <2>1, <2>2, <2>3
<1>6. Ordered(t, Tail(q))
  <2>1. \A j, k \in 1..(Len(q) - 1) : j < k => j + 1 < k + 1
    BY <1>1
  <2>. HIDE DEF Before, MsgOf
  <2>. QED
    BY <1>1, <1>2, <1>3, <2>1 DEF Ordered
<1>7. Before(t, MsgOf(Head(q)), MsgsOf(Tail(q)))
  <2>1. ASSUME NEW n \in MsgsOf(Tail(q)) PROVE Before(t, MsgOf(Head(q)), {n})
    <3>1. PICK k \in 1..(Len(q) - 1) : n = q[k + 1].msg /\ n \in Msgs
      BY <1>1, <1>2 DEF MsgsOf
    <3>2. Before(t, MsgOf(q[1]), MsgOf(q[k + 1]))
      BY <1>1, <1>2, <1>3 DEF Ordered
    <3>. QED
      BY Zenon, <1>1, <3>1, <3>2 DEF MsgOf
  <2>. QED
    BY <2>1 DEF Before
<1>. QED
  BY <1>5, <1>6, <1>7

(* A later message may be appended to a queue. *)
LEMMA AddLast ==
    ASSUME NEW q \in Seq(OutMsg), NEW o \in OutMsg, NEW t, Ordered(t, q),
           Before(t, MsgsOf(q), MsgOf(o))
    PROVE  /\ MsgsOf(Append(q, o)) = MsgsOf(q) \cup MsgOf(o)
           /\ Ordered(t, Append(q, o))
<1>. DEFINE r == Append(q, o)
<1>1. /\ Len(q) \in Nat /\ DOMAIN q = 1..Len(q) /\ DOMAIN r = 1..(Len(q) + 1)
      /\ \A k \in 1..Len(q) : r[k] = q[k]
      /\ r[Len(q) + 1] = o
  BY AppendProperties
<1>. HIDE DEF r
<1>2. \A k \in 1..(Len(q) + 1) : k = Len(q) + 1 \/ k \in 1..Len(q)
  BY <1>1
<1>3. \A k \in 1..Len(q) : k \in 1..(Len(q) + 1)
  BY <1>1
<1>4. MsgsOf(r) = MsgsOf(q) \cup MsgOf(o)
  <2>1. ASSUME NEW m \in MsgsOf(r) PROVE m \in MsgsOf(q) \cup MsgOf(o)
    BY <1>1, <1>2 DEF MsgsOf, MsgOf
  <2>2. MsgsOf(q) \subseteq MsgsOf(r)
    BY <1>1, <1>3 DEF MsgsOf
  <2>3. MsgOf(o) \subseteq MsgsOf(r)
    BY <1>1 DEF MsgsOf, MsgOf
  <2>. QED
    BY <2>1, <2>2, <2>3
<1>5. Ordered(t, r)
  <2>. SUFFICES ASSUME NEW j \in 1..(Len(q) + 1), NEW k \in 1..(Len(q) + 1), j < k
                PROVE  Before(t, MsgOf(r[j]), MsgOf(r[k]))
    BY <1>1 DEF Ordered
  <2>1. j \in 1..Len(q)
    BY <1>1
  <2>2. CASE k \in 1..Len(q)
    BY <1>1, <2>1, <2>2 DEF Ordered
  <2>3. CASE k = Len(q) + 1
    <3>1. MsgOf(r[j]) \subseteq MsgsOf(q)
      BY <1>1, <2>1 DEF MsgsOf, MsgOf
    <3>. QED
      BY <1>1, <2>3, <3>1 DEF Before
  <2>. QED
    BY <1>2, <2>2, <2>3
<1>. QED
  BY <1>4, <1>5 DEF r

(* Entries without a message may be appended as well. *)
LEMMA AddNone ==
    ASSUME NEW q \in Seq(OutMsg), NEW r \in Seq(OutMsg), \A k \in DOMAIN r : r[k].msg = NoMsg,
           NEW t, Ordered(t, q)
    PROVE  /\ MsgsOf(q \o r) = MsgsOf(q)
           /\ Ordered(t, q \o r)
<1>. DEFINE l == q \o r
<1>1. /\ Len(q) \in Nat /\ Len(r) \in Nat /\ DOMAIN q = 1..Len(q) /\ DOMAIN r = 1..Len(r)
      /\ DOMAIN l = 1..(Len(q) + Len(r))
      /\ \A k \in 1..(Len(q) + Len(r)) : l[k] = IF k <= Len(q) THEN q[k] ELSE r[k - Len(q)]
  BY ConcatProperties
<1>. HIDE DEF l
<1>2. ASSUME NEW k \in DOMAIN l, k > Len(q) PROVE MsgOf(l[k]) = {}
  <2>1. k - Len(q) \in DOMAIN r /\ l[k] = r[k - Len(q)]
    BY <1>1, <1>2
  <2>. QED
    BY <2>1, ConstantsAssumption DEF MsgOf
<1>3. \A k \in DOMAIN l : k <= Len(q) => k \in DOMAIN q /\ l[k] = q[k]
  BY <1>1
<1>4. \A k \in DOMAIN q : k \in DOMAIN l /\ l[k] = q[k]
  BY <1>1
<1>5. \A k \in DOMAIN l : k <= Len(q) \/ k > Len(q)
  BY <1>1
<1>6. MsgsOf(l) = MsgsOf(q)
  <2>1. ASSUME NEW m \in MsgsOf(l) PROVE m \in MsgsOf(q)
    <3>1. PICK k \in DOMAIN l : m \in MsgOf(l[k])
      BY DEF MsgsOf, MsgOf
    <3>2. k \in DOMAIN q /\ l[k] = q[k]
      BY <1>2, <1>3, <1>5, <3>1
    <3>. QED
      BY <3>1, <3>2 DEF MsgsOf, MsgOf
  <2>2. MsgsOf(q) \subseteq MsgsOf(l)
    BY <1>4 DEF MsgsOf
  <2>. QED
    BY Zenon, <2>1, <2>2
<1>7. ASSUME NEW j \in DOMAIN l, NEW k \in DOMAIN l, j < k
      PROVE  Before(t, MsgOf(l[j]), MsgOf(l[k]))
  <2>1. CASE k > Len(q)
    BY <1>2, <2>1 DEF Before
  <2>2. CASE j > Len(q)
    BY <1>2, <2>2 DEF Before
  <2>3. CASE j <= Len(q) /\ k <= Len(q)
    <3>1. j \in DOMAIN q /\ k \in DOMAIN q /\ l[j] = q[j] /\ l[k] = q[k]
      BY <1>3, <2>3
    <3>. QED
      BY <1>7, <3>1 DEF Ordered
  <2>. QED
    BY <1>5, <2>1, <2>2, <2>3
<1>. QED
  BY <1>6, <1>7 DEF Ordered, l

(* Only the messages of a queue matter, not the close flags. *)
LEMMA SameMsgs ==
    ASSUME NEW q, NEW r, NEW t, DOMAIN q = DOMAIN r, \A k \in DOMAIN q : q[k].msg = r[k].msg,
           Ordered(t, q)
    PROVE  MsgsOf(r) = MsgsOf(q) /\ Ordered(t, r)
BY DEF MsgsOf, MsgOf, Ordered

(* Nothing is in line in an empty queue. *)
LEMMA NoMsgs == MsgsOf(<<>>) = {} /\ \A t : Ordered(t, <<>>)
BY DEF MsgsOf, Ordered

(* An entry without a message. *)
LEMMA NoMsgOf == MsgOf(NoItem) = {} /\ MsgOf(HalfClose) = {}
BY ConstantsAssumption DEF MsgOf, NoItem, HalfClose
(* A line stays in order when messages leave it. *)
LEMMA LineShrinks ==
    ASSUME NEW t, NEW w, NEW b, NEW q, NEW p, InLine(t, w, b, q, p),
           NEW w2, NEW b2, NEW q2, NEW p2,
           Ordered(t, w2), Ordered(t, q2), Ordered(t, p2),
           MsgsOf(w2) \subseteq MsgsOf(w), MsgOf(b2) \subseteq MsgOf(b),
           MsgsOf(q2) \subseteq MsgsOf(q), MsgsOf(p2) \subseteq MsgsOf(p)
    PROVE  InLine(t, w2, b2, q2, p2)
BY DEF InLine, Before

\* The task at the head of the line moves its message to the queue.
QueuedLine(t, w, b, q, p) ==
    /\ InLine(t, w, b, Append(q, Head(p)), Tail(p))
    /\ MsgsOf(Append(q, Head(p))) = MsgsOf(q) \cup MsgOf(Head(p))
    /\ MsgsOf(p) = MsgOf(Head(p)) \cup MsgsOf(Tail(p))

(* That keeps the line. *)
LEMMA LineQueued ==
    ASSUME NEW t, NEW w, NEW b, NEW q \in Seq(OutMsg), NEW p \in Seq(OutMsg), p # <<>>,
           InLine(t, w, b, q, p)
    PROVE  QueuedLine(t, w, b, q, p)
<1>1. Head(p) \in OutMsg
  BY HeadTailProperties
<1>2. /\ MsgsOf(p) = MsgOf(Head(p)) \cup MsgsOf(Tail(p))
      /\ Ordered(t, Tail(p))
      /\ Before(t, MsgOf(Head(p)), MsgsOf(Tail(p)))
  BY HeadFirst DEF InLine
<1>3. Ordered(t, q) /\ Before(t, MsgsOf(q), MsgOf(Head(p)))
  BY <1>2 DEF InLine, Before
<1>4. /\ MsgsOf(Append(q, Head(p))) = MsgsOf(q) \cup MsgOf(Head(p))
      /\ Ordered(t, Append(q, Head(p)))
  BY <1>1, <1>3, AddLast
<1>. QED
  BY <1>2, <1>4 DEF InLine, Before, QueuedLine

\* PumpStream takes the head of the queue: to the wire, into the session
\* while it has no item, or to nowhere.
PumpedLine(t, w, b, q, p) ==
    /\ b = NoItem => /\ InLine(t, Append(w, Head(q)), b, Tail(q), p)
                     /\ InLine(t, w, Head(q), Tail(q), p)
                     /\ MsgsOf(Append(w, Head(q))) = MsgsOf(w) \cup MsgOf(Head(q))
    /\ InLine(t, w, b, Tail(q), p)
    /\ MsgsOf(q) = MsgOf(Head(q)) \cup MsgsOf(Tail(q))
    /\ Before(t, MsgOf(Head(q)), MsgsOf(Tail(q)))

(* Each of them keeps the line. *)
LEMMA LinePumped ==
    ASSUME NEW t, NEW w \in Seq(OutMsg), NEW b, NEW q \in Seq(OutMsg), NEW p, q # <<>>,
           InLine(t, w, b, q, p)
    PROVE  PumpedLine(t, w, b, q, p)
<1>1. Head(q) \in OutMsg
  BY HeadTailProperties
<1>2. /\ MsgsOf(q) = MsgOf(Head(q)) \cup MsgsOf(Tail(q))
      /\ Ordered(t, Tail(q))
      /\ Before(t, MsgOf(Head(q)), MsgsOf(Tail(q)))
  BY HeadFirst DEF InLine
<1>3. Ordered(t, w) /\ Before(t, MsgsOf(w), MsgOf(Head(q)))
  BY <1>2 DEF InLine, Before
<1>4. /\ MsgsOf(Append(w, Head(q))) = MsgsOf(w) \cup MsgOf(Head(q))
      /\ Ordered(t, Append(w, Head(q)))
  BY <1>1, <1>3, AddLast
<1>5. ASSUME b = NoItem
      PROVE  /\ InLine(t, Append(w, Head(q)), b, Tail(q), p)
             /\ InLine(t, w, Head(q), Tail(q), p)
  <2>1. MsgOf(b) = {}
    BY <1>5, NoMsgOf
  <2>. QED
    BY <1>2, <1>4, <2>1 DEF InLine, Before
<1>6. InLine(t, w, b, Tail(q), p)
  BY <1>2 DEF InLine, Before
<1>. QED
  BY <1>2, <1>4, <1>5, <1>6 DEF PumpedLine

(* The item held back by flow control reaches the wire. *)
LEMMA LineUnblocked ==
    ASSUME NEW t, NEW w \in Seq(OutMsg), NEW b \in OutMsg, NEW q, NEW p,
           InLine(t, w, b, q, p)
    PROVE  /\ InLine(t, Append(w, b), NoItem, q, p)
           /\ MsgsOf(Append(w, b)) = MsgsOf(w) \cup MsgOf(b)
<1>1. Ordered(t, w) /\ Before(t, MsgsOf(w), MsgOf(b))
  BY DEF InLine, Before
<1>2. /\ MsgsOf(Append(w, b)) = MsgsOf(w) \cup MsgOf(b)
      /\ Ordered(t, Append(w, b))
  BY <1>1, AddLast
<1>. QED
  BY <1>2, NoMsgOf DEF InLine, Before

(* The line of a stream that was given one more message. *)
SentLine(t, w, b, q, p, o) ==
    /\ InLine(Append(t, o.msg), w, b, q, Append(p, o))
    /\ MsgsOf(Append(p, o)) = MsgsOf(p) \cup {o.msg}

(* StreamSend appends its message to what the stream was told to send and   *)
(* posts it, so that it is the last of its line.                            *)
LEMMA LineSent ==
    ASSUME NEW t \in Seq(Msgs), NEW w, NEW b, NEW q, NEW p \in Seq(OutMsg),
           NEW o \in OutMsg, o.msg \in Msgs, InLine(t, w, b, q, p)
    PROVE  SentLine(t, w, b, q, p, o)
<1>. DEFINE u == Append(t, o.msg)
<1>1. /\ Len(t) \in Nat /\ DOMAIN t = 1..Len(t) /\ DOMAIN u = 1..(Len(t) + 1)
      /\ \A k \in 1..Len(t) : u[k] = t[k]
      /\ u[Len(t) + 1] = o.msg
  BY AppendProperties
<1>. HIDE DEF u
<1>2. \A k \in 1..Len(t) : k \in 1..(Len(t) + 1) /\ k < Len(t) + 1
  BY <1>1
<1>3. \A m, n : Earlier(t, m, n) => Earlier(u, m, n)
  BY <1>1, <1>2 DEF Earlier
<1>4. \A m \in Elems(t) : Earlier(u, m, o.msg)
  <2>1. Len(t) + 1 \in 1..(Len(t) + 1)
    BY <1>1
  <2>. QED
    BY <1>1, <1>2, <2>1 DEF Earlier, Elems
<1>5. Elems(t) \subseteq Elems(u) /\ o.msg \in Elems(u)
  <2>1. Len(t) + 1 \in 1..(Len(t) + 1)
    BY <1>1
  <2>. QED
    BY <1>1, <1>2, <2>1 DEF Elems
<1>6. MsgOf(o) = {o.msg}
  BY DEF MsgOf
<1>7. Ordered(u, w) /\ Ordered(u, q) /\ Ordered(u, p)
  BY <1>3 DEF InLine, Ordered, Before
<1>8. Before(u, MsgsOf(p), MsgOf(o))
  BY <1>4, <1>6 DEF InLine, Before
<1>9. MsgsOf(Append(p, o)) = MsgsOf(p) \cup {o.msg} /\ Ordered(u, Append(p, o))
  BY Zenon, <1>6, <1>7, <1>8, AddLast
<1>10. InLine(u, w, b, q, Append(p, o))
  BY <1>3, <1>4, <1>5, <1>7, <1>9 DEF InLine, Before
<1>. QED
  BY <1>9, <1>10 DEF u, SentLine

(* Messages sent once cannot come before themselves. *)
LEMMA NotBeforeItself ==
    ASSUME NEW t \in Seq(Msgs), \A j, k \in DOMAIN t : t[j] = t[k] => j = k
    PROVE  \A m : ~Earlier(t, m, m)
BY DEF Earlier
-----------------------------------------------------------------------------
(* The inductive invariant of the send side *)

\* The messages of stream s whose on_flushed is still owed.
Waiting(s) == MsgOf(item[s]) \cup MsgsOf(out_queue[s]) \cup MsgsOf(Posts(tasks, s))

SentOnce ==
    \A r, s \in Streams : \A j \in DOMAIN sent[r], k \in DOMAIN sent[s] :
        sent[r][j] = sent[s][k] => r = s /\ j = k

Lines == \A s \in Streams : InLine(sent[s], wire[s], item[s], out_queue[s], Posts(tasks, s))

Answered ==
    /\ \A m \in Msgs : Len(flushed[m]) <= 1
    /\ \A m \in Msgs : (\A s \in Streams : m \notin Elems(sent[s])) => flushed[m] = <<>>
    /\ \A s \in Streams : /\ \A m \in Waiting(s) : flushed[m] = <<>>
                          /\ \A m \in MsgsOf(wire[s]) : flushed[m] = <<"Ok">>

\* What the session holds of stream s: only PumpStream gives it messages.
InSession(s) ==
    /\ place[s] \in {"none", "pending"} =>
          s \notin out_inflight /\ item[s] = NoItem /\ wire[s] = <<>>
    /\ item[s].msg # NoMsg => s \in out_inflight
    /\ item[s] # NoItem => ~EndSent(s)
    /\ \A k \in DOMAIN wire[s] : wire[s][k].close => k = Len(wire[s])

(* Messages in one order are not in the other, nor is one in both parts. *)
LEMMA Apart ==
    ASSUME TypeOK, SentOnce, NEW s \in Streams, NEW A, NEW B, Before(sent[s], A, B)
    PROVE  A \cap B = {}
<1>1. sent[s] \in Seq(Msgs) /\ \A j, k \in DOMAIN sent[s] : sent[s][j] = sent[s][k] => j = k
  BY DEF TypeOK, SentOnce
<1>2. \A m : ~Earlier(sent[s], m, m)
  BY <1>1, NotBeforeItself
<1>. QED
  BY <1>2 DEF Before

(* A message belongs to one stream. *)
LEMMA OneStream ==
    ASSUME SentOnce, NEW r \in Streams, NEW s \in Streams, NEW m,
           m \in Elems(sent[r]), m \in Elems(sent[s])
    PROVE  r = s
BY DEF SentOnce, Elems

(* The messages of a stream under way were given to it. *)
LEMMA WaitingSent ==
    ASSUME Lines, NEW s \in Streams
    PROVE  Waiting(s) \subseteq Elems(sent[s])
BY Zenon DEF Lines, InLine, Waiting

(* A step that answers messages under way, each once, and takes them out of  *)
(* the line, those that reach the wire with OK, keeps Answered.              *)
LEMMA AnsweredStep ==
    ASSUME TypeOK, Answered, Lines, sent' = sent, NEW X, NEW Y, NEW st \in Status,
           \A m \in Msgs : flushed'[m] = IF m \in X THEN Append(flushed[m], st)
                                         ELSE IF m \in Y THEN Append(flushed[m], "Ok")
                                         ELSE flushed[m],
           \A m \in Msgs : m \in X \cup Y => \E s \in Streams : m \in Waiting(s),
           \A m \in Msgs : ~(m \in X /\ m \in Y),
           \A s \in Streams : \A m \in Waiting(s)' : m \in Waiting(s) /\ m \notin X \cup Y,
           \A s \in Streams : \A m \in MsgsOf(wire'[s]) : m \in MsgsOf(wire[s]) \/ m \in Y
    PROVE  Answered'
<1>1. /\ Append(<<>>, st) = <<st>> /\ Append(<<>>, "Ok") = <<"Ok">>
      /\ Len(<<st>>) = 1 /\ Len(<<"Ok">>) = 1 /\ <<"Ok">> # <<>>
  OBVIOUS
<1>2. /\ \A m \in Msgs : Len(flushed[m]) <= 1
      /\ \A m \in Msgs : (\A s \in Streams : m \notin Elems(sent[s])) => flushed[m] = <<>>
      /\ \A s \in Streams : \A m \in Waiting(s) : m \in Msgs /\ flushed[m] = <<>>
      /\ \A s \in Streams : \A m \in MsgsOf(wire[s]) : m \in Msgs /\ flushed[m] = <<"Ok">>
  BY DEF Answered, Waiting, MsgOf, MsgsOf
<1>3. \A m \in Msgs : m \in X \cup Y => flushed[m] = <<>>
  BY <1>2
<1>4. ASSUME NEW m \in Msgs PROVE Len(flushed'[m]) <= 1
  <2>1. flushed'[m] = flushed[m] \/ flushed'[m] = <<st>> \/ flushed'[m] = <<"Ok">>
    BY Zenon, <1>1, <1>3
  <2>2. Len(flushed[m]) <= 1 /\ Len(<<st>>) <= 1 /\ Len(<<"Ok">>) <= 1
    BY <1>2
  <2>. QED
    BY Zenon, <2>1, <2>2
<1>5. ASSUME NEW m \in Msgs, \A s \in Streams : m \notin Elems(sent'[s])
      PROVE  flushed'[m] = <<>>
  <2>1. m \notin X \cup Y
    BY <1>5, WaitingSent
  <2>. QED
    BY <1>2, <1>5, <2>1
<1>6. ASSUME NEW s \in Streams, NEW m \in Waiting(s)' PROVE flushed'[m] = <<>>
  BY <1>2, <1>6
<1>7. ASSUME NEW s \in Streams, NEW m \in MsgsOf(wire'[s]) PROVE flushed'[m] = <<"Ok">>
  <2>0. m \in Msgs
    BY <1>7 DEF MsgsOf
  <2>1. CASE m \in Y
    BY Zenon, <1>1, <1>3, <2>0, <2>1
  <2>2. CASE m \notin Y
    <3>1. m \in MsgsOf(wire[s]) /\ m \notin X
      BY <1>1, <1>2, <1>3, <1>7, <2>0, <2>2
    <3>. QED
      BY <1>2, <2>0, <2>2, <3>1
  <2>. QED
    BY <2>1, <2>2
<1>. QED
  BY <1>4, <1>5, <1>6, <1>7 DEF Answered

-----------------------------------------------------------------------------
(* The messages in the task queue *)

(* One entry per task. *)
LEMMA PostsType ==
    ASSUME NEW q \in Seq(Task), NEW s
    PROVE  /\ Posts(q, s) \in Seq(OutMsg)
           /\ Len(Posts(q, s)) = Len(q)
           /\ DOMAIN Posts(q, s) = 1..Len(q)
           /\ Posts(q, s) = <<>> <=> q = <<>>
<1>0. Len(q) \in Nat /\ DOMAIN q = 1..Len(q) /\ \A k \in 1..Len(q) : q[k] \in Task
  OBVIOUS
<1>1. Len(q) \in Nat /\ DOMAIN q = 1..Len(q) /\ \A k \in 1..Len(q) : q[k].out \in OutMsg
  BY <1>0 DEF Task
<1>2. Posts(q, s) \in [1..Len(q) -> OutMsg]
  BY <1>1, OutMsgType DEF Posts
<1>3. /\ Posts(q, s) \in Seq(OutMsg)
      /\ Len(Posts(q, s)) = Len(q)
      /\ DOMAIN Posts(q, s) = 1..Len(q)
  BY <1>1, <1>2
<1>. QED
  BY <1>3

(* A posted task adds an entry. *)
LEMMA PostsAppend ==
    ASSUME NEW q \in Seq(Task), NEW x \in Task, NEW s
    PROVE  Posts(Append(q, x), s) =
              Append(Posts(q, s), IF x.op = "send" /\ x.id = s THEN x.out ELSE NoItem)
<1>. DEFINE a == Append(q, x)
            o == IF x.op = "send" /\ x.id = s THEN x.out ELSE NoItem
            l == Posts(a, s)
            r == Append(Posts(q, s), o)
<1>1. o \in OutMsg
  BY OutMsgType DEF Task
<1>2. /\ a \in Seq(Task) /\ Len(a) = Len(q) + 1 /\ Len(q) \in Nat /\ DOMAIN q = 1..Len(q)
      /\ DOMAIN a = 1..(Len(q) + 1)
      /\ \A k \in 1..Len(q) : a[k] = q[k]
      /\ a[Len(q) + 1] = x
  BY AppendProperties
<1>3. /\ Posts(q, s) \in Seq(OutMsg) /\ Len(Posts(q, s)) = Len(q)
      /\ l \in Seq(OutMsg) /\ Len(l) = Len(q) + 1
  BY Zenon, <1>2, PostsType
<1>. HIDE DEF a, o
<1>4. \A k \in 1..Len(q) : l[k] = Posts(q, s)[k]
  BY <1>2 DEF Posts
<1>5. l[Len(q) + 1] = o
  BY <1>2 DEF Posts, o
<1>6. /\ r \in Seq(OutMsg) /\ Len(r) = Len(q) + 1
      /\ \A k \in 1..Len(q) : r[k] = Posts(q, s)[k]
      /\ r[Len(q) + 1] = o
  BY <1>1, <1>3, AppendProperties
<1>. HIDE DEF l, r
<1>7. \A k \in 1..(Len(q) + 1) : l[k] = r[k]
  BY <1>2, <1>4, <1>5, <1>6
<1>8. l = r
  BY <1>3, <1>6, <1>7, SeqEqual
<1>. QED
  BY <1>8 DEF l, r, a, o

(* Running a task takes the first entry away. *)
LEMMA PostsTail ==
    ASSUME NEW q \in Seq(Task), q # <<>>, NEW s
    PROVE  /\ Posts(Tail(q), s) = Tail(Posts(q, s))
           /\ Head(Posts(q, s)) = IF Head(q).op = "send" /\ Head(q).id = s
                                  THEN Head(q).out ELSE NoItem
<1>. DEFINE a == Tail(q)
            l == Posts(a, s)
            r == Tail(Posts(q, s))
<1>1. /\ a \in Seq(Task) /\ Len(a) = Len(q) - 1 /\ Len(q) \in Nat \ {0} /\ DOMAIN q = 1..Len(q)
      /\ DOMAIN a = 1..(Len(q) - 1)
      /\ \A k \in 1..(Len(q) - 1) : a[k] = q[k + 1]
      /\ Head(q) = q[1]
  BY HeadTailProperties
<1>2. /\ Posts(q, s) \in Seq(OutMsg) /\ Len(Posts(q, s)) = Len(q) /\ Posts(q, s) # <<>>
      /\ l \in Seq(OutMsg) /\ Len(l) = Len(q) - 1
  BY Zenon, <1>1, PostsType
<1>3. /\ r \in Seq(OutMsg) /\ Len(r) = Len(q) - 1
      /\ \A k \in 1..(Len(q) - 1) : r[k] = Posts(q, s)[k + 1]
      /\ Head(Posts(q, s)) = Posts(q, s)[1]
  BY <1>2, HeadTailProperties
<1>. HIDE DEF a, r
<1>4. \A k \in 1..(Len(q) - 1) : l[k] = Posts(q, s)[k + 1]
  <2>1. \A k \in 1..(Len(q) - 1) : k + 1 \in DOMAIN q
    BY <1>1
  <2>. QED
    BY <1>1, <2>1 DEF Posts
<1>5. 1 \in DOMAIN q
  BY <1>1
<1>6. Head(Posts(q, s)) = IF Head(q).op = "send" /\ Head(q).id = s
                          THEN Head(q).out ELSE NoItem
  BY <1>1, <1>3, <1>5 DEF Posts
<1>. HIDE DEF l
<1>7. l = r
  BY ZenonT(30), <1>2, <1>3, <1>4, SeqEqual
<1>. QED
  BY <1>6, <1>7 DEF l, r, a
\* rest followed by tasks that send nothing.
Later(rest) == \E r \in Seq(Task) : /\ \A k \in DOMAIN r : r[k].op # "send"
                                    /\ tasks' = rest \o r

(* Nothing posted, or one other task. *)
LEMMA LaterOne ==
    ASSUME NEW rest \in Seq(Task),
           \/ tasks' = rest
           \/ \E x \in Task : x.op # "send" /\ tasks' = Append(rest, x)
    PROVE  Later(rest)
<1>1. CASE tasks' = rest
  <2>1. tasks' = rest \o <<>>
    BY <1>1, ConcatEmptySeq
  <2>2. <<>> \in Seq(Task) /\ \A k \in DOMAIN <<>> : <<>>[k].op # "send"
    OBVIOUS
  <2>. QED
    BY Zenon, <2>1, <2>2 DEF Later
<1>2. ASSUME NEW x \in Task, x.op # "send", tasks' = Append(rest, x) PROVE Later(rest)
  <2>1. tasks' = rest \o <<x>>
    BY <1>2, AppendIsConcat
  <2>2. <<x>> \in Seq(Task) /\ \A k \in DOMAIN <<x>> : <<x>>[k].op # "send"
    BY <1>2
  <2>. QED
    BY Zenon, <2>1, <2>2 DEF Later
<1>. QED
  BY <1>1, <1>2

(* Other tasks leave the line as it is. *)
LEMMA LaterLine ==
    ASSUME NEW rest \in Seq(Task), Later(rest), NEW s,
           NEW t, NEW w, NEW b, NEW q, InLine(t, w, b, q, Posts(rest, s))
    PROVE  /\ InLine(t, w, b, q, Posts(tasks', s))
           /\ MsgsOf(Posts(tasks', s)) = MsgsOf(Posts(rest, s))
<1>1. PICK r \in Seq(Task) : (\A k \in DOMAIN r : r[k].op # "send") /\ tasks' = rest \o r
  BY DEF Later
<1>. DEFINE l == Posts(tasks', s)
            a == Posts(rest, s)
            c == Posts(r, s)
<1>2. /\ tasks' \in Seq(Task) /\ Len(tasks') = Len(rest) + Len(r)
      /\ Len(rest) \in Nat /\ Len(r) \in Nat
      /\ DOMAIN tasks' = 1..(Len(rest) + Len(r))
      /\ DOMAIN rest = 1..Len(rest) /\ DOMAIN r = 1..Len(r)
      /\ \A k \in 1..(Len(rest) + Len(r)) :
            tasks'[k] = IF k <= Len(rest) THEN rest[k] ELSE r[k - Len(rest)]
  BY <1>1, ConcatProperties
<1>3. /\ l \in Seq(OutMsg) /\ Len(l) = Len(rest) + Len(r)
      /\ a \in Seq(OutMsg) /\ Len(a) = Len(rest)
      /\ c \in Seq(OutMsg) /\ Len(c) = Len(r) /\ DOMAIN c = 1..Len(r)
  BY <1>2, PostsType
<1>. HIDE DEF l, a, c
<1>4. /\ a \o c \in Seq(OutMsg) /\ Len(a \o c) = Len(rest) + Len(r)
      /\ \A k \in 1..(Len(rest) + Len(r)) :
            (a \o c)[k] = IF k <= Len(rest) THEN a[k] ELSE c[k - Len(rest)]
  <2>1. /\ a \o c \in Seq(OutMsg) /\ Len(a \o c) = Len(a) + Len(c)
        /\ \A k \in 1..(Len(a) + Len(c)) :
              (a \o c)[k] = IF k <= Len(a) THEN a[k] ELSE c[k - Len(a)]
    <3>1. a \in Seq(OutMsg) /\ c \in Seq(OutMsg)
      BY <1>3
    <3>. QED
      BY <3>1, ConcatProperties
  <2>. QED
    BY Zenon, <1>3, <2>1
<1>5. \A k \in 1..(Len(rest) + Len(r)) :
         /\ k <= Len(rest) => k \in DOMAIN rest
         /\ ~(k <= Len(rest)) => k - Len(rest) \in DOMAIN r
  BY <1>2
<1>6. \A k \in 1..(Len(rest) + Len(r)) :
         l[k] = IF k <= Len(rest) THEN a[k] ELSE c[k - Len(rest)]
  BY <1>2, <1>5 DEF Posts, l, a, c
<1>7. \A k \in DOMAIN c : c[k].msg = NoMsg
  BY <1>1, <1>2, <1>3 DEF Posts, NoItem, c
<1>8. l = a \o c
  <2>1. \A k \in 1..Len(l) : l[k] = (a \o c)[k]
    BY <1>3, <1>4, <1>6
  <2>2. Len(l) = Len(a \o c)
    BY <1>3, <1>4
  <2>. QED
    BY Zenon, <1>3, <1>4, <2>1, <2>2, SeqEqual
<1>9. Ordered(t, a)
  BY DEF InLine, a
<1>10. MsgsOf(l) = MsgsOf(a) /\ Ordered(t, l)
  BY Zenon, <1>3, <1>7, <1>8, <1>9, AddNone
<1>11. InLine(t, w, b, q, l)
  <2>1. InLine(t, w, b, q, a)
    BY DEF a
  <2>. QED
    BY <1>10, <2>1 DEF InLine
<1>. QED
  BY <1>10, <1>11 DEF l, a

(* A task that is run and moves nothing takes its entry out of the line. *)
LEMMA RunLine ==
    ASSUME TypeOK, tasks # <<>>, NEW s, NEW t, NEW w, NEW b, NEW q,
           InLine(t, w, b, q, Posts(tasks, s))
    PROVE  /\ InLine(t, w, b, q, Posts(Tail(tasks), s))
           /\ MsgsOf(Posts(Tail(tasks), s)) \subseteq MsgsOf(Posts(tasks, s))
           /\ MsgsOf(Posts(tasks, s)) =
                 MsgOf(Head(Posts(tasks, s))) \cup MsgsOf(Posts(Tail(tasks), s))
           /\ Before(t, MsgOf(Head(Posts(tasks, s))), MsgsOf(Posts(Tail(tasks), s)))
<1>. DEFINE p == Posts(tasks, s)
<1>1. p \in Seq(OutMsg) /\ p # <<>> /\ Posts(Tail(tasks), s) = Tail(p)
  BY PostsType, PostsTail DEF TypeOK
<1>. HIDE DEF p
<1>2. Ordered(t, p) /\ InLine(t, w, b, q, p)
  BY DEF InLine, p
<1>3. /\ MsgsOf(p) = MsgOf(Head(p)) \cup MsgsOf(Tail(p))
      /\ Ordered(t, Tail(p))
      /\ Before(t, MsgOf(Head(p)), MsgsOf(Tail(p)))
  BY <1>1, <1>2, HeadFirst
<1>4. InLine(t, w, b, q, Tail(p))
  BY <1>2, <1>3 DEF InLine, Before
<1>. QED
  BY Zenon, <1>1, <1>3, <1>4 DEF p

(* Finishing the streams of S, or none, answers what their queues hold; the  *)
(* item of a stream may be dropped and a task be run.                        *)
LEMMA FinishSend ==
    ASSUME TypeOK, SentOnce, Lines, Answered, NEW S, NEW st \in Status,
           out_queue' = Set(out_queue, S, <<>>),
           flushed' = Add(flushed, Queued(S), st),
           UNCHANGED <<wire, sent>>,
           \A s \in Streams : item'[s] = item[s] \/ item'[s] = NoItem,
           tasks' = tasks \/ (tasks # <<>> /\ tasks' = Tail(tasks))
    PROVE  SentOnce' /\ Lines' /\ Answered'
<1>1. ASSUME NEW s \in Streams
      PROVE  /\ MsgOf(item'[s]) \subseteq MsgOf(item[s])
             /\ MsgsOf(Posts(tasks', s)) \subseteq MsgsOf(Posts(tasks, s))
             /\ out_queue'[s] = IF s \in S THEN <<>> ELSE out_queue[s]
             /\ InLine(sent'[s], wire'[s], item'[s], out_queue'[s], Posts(tasks', s))
             /\ Before(sent[s], MsgOf(item[s]), MsgsOf(out_queue[s]))
             /\ Before(sent[s], MsgsOf(out_queue[s]), MsgsOf(Posts(tasks, s)))
  <2>1. InLine(sent[s], wire[s], item[s], out_queue[s], Posts(tasks, s))
    BY DEF Lines
  <2>2. /\ MsgsOf(Posts(tasks', s)) \subseteq MsgsOf(Posts(tasks, s))
        /\ InLine(sent[s], wire[s], item[s], out_queue[s], Posts(tasks', s))
    BY ZenonT(30), <2>1, RunLine
  <2>3. MsgOf(item'[s]) \subseteq MsgOf(item[s])
    BY NoMsgOf
  <2>4. out_queue'[s] = IF s \in S THEN <<>> ELSE out_queue[s]
    BY ZenonT(30) DEF Set, TypeOK
  <2>5. MsgsOf(out_queue'[s]) \subseteq MsgsOf(out_queue[s]) /\ Ordered(sent[s], out_queue'[s])
    BY ZenonT(30), <2>1, <2>4, NoMsgs DEF InLine
  <2>6. InLine(sent[s], wire[s], item'[s], out_queue'[s], Posts(tasks', s))
    BY ZenonT(30), <2>2, <2>3, <2>5 DEF InLine, Before
  <2>7. /\ Before(sent[s], MsgOf(item[s]), MsgsOf(out_queue[s]))
        /\ Before(sent[s], MsgsOf(out_queue[s]), MsgsOf(Posts(tasks, s)))
    BY <2>1 DEF InLine, Before
  <2>. QED
    BY ZenonT(30), <2>2, <2>3, <2>4, <2>6, <2>7
<1>2. \A m \in Msgs : m \in Queued(S) <=> \E s \in S \cap Streams : m \in MsgsOf(out_queue[s])
  BY DEF Queued, MsgsOf, Elems
<1>3. \A m \in Msgs : flushed'[m] = IF m \in Queued(S) THEN Append(flushed[m], st)
                                    ELSE flushed[m]
  BY DEF Add, TypeOK
<1>4. \A m \in Msgs : m \in Queued(S) => \E s \in Streams : m \in Waiting(s)
  BY <1>2 DEF Waiting
<1>5. ASSUME NEW s \in Streams, NEW m \in Waiting(s)' PROVE m \in Waiting(s) /\ m \notin Queued(S)
  <2>1. m \in MsgOf(item[s]) \cup MsgsOf(out_queue'[s]) \cup MsgsOf(Posts(tasks, s)) /\ m \in Msgs
    BY ZenonT(30), <1>1, <1>5 DEF Waiting, MsgOf, MsgsOf
  <2>2. m \in Waiting(s)
    BY <1>1, <2>1, NoMsgs DEF Waiting
  <2>3. ASSUME NEW r \in S \cap Streams, m \in MsgsOf(out_queue[r]) PROVE FALSE
    <3>1. m \in Waiting(r)
      BY <2>3 DEF Waiting
    <3>2. r = s
      BY ZenonT(30), <2>2, <3>1, WaitingSent, OneStream
    <3>3. m \notin MsgOf(item[s]) /\ m \notin MsgsOf(Posts(tasks, s))
      BY <1>1, <2>3, <3>2, Apart
    <3>. QED
      BY ZenonT(30), <1>1, <2>1, <3>2, <3>3, NoMsgs
  <2>. QED
    BY <1>2, <2>1, <2>2, <2>3
<1>6. Answered'
  <2>. DEFINE X == Queued(S)
              Y == {}
  <2>1. /\ \A m \in Msgs : flushed'[m] = IF m \in X THEN Append(flushed[m], st)
                                        ELSE IF m \in Y THEN Append(flushed[m], "Ok")
                                        ELSE flushed[m]
        /\ \A m \in Msgs : m \in X \cup Y => \E s \in Streams : m \in Waiting(s)
        /\ \A m \in Msgs : ~(m \in X /\ m \in Y)
        /\ \A s \in Streams : \A m \in Waiting(s)' : m \in Waiting(s) /\ m \notin X \cup Y
        /\ \A s \in Streams : \A m \in MsgsOf(wire'[s]) : m \in MsgsOf(wire[s]) \/ m \in Y
    BY ZenonT(30), <1>3, <1>4, <1>5
  <2>. HIDE DEF X, Y
  <2>. QED
    BY ZenonT(30), <2>1, AnsweredStep
<1>7. Lines'
  BY ZenonT(30), <1>1 DEF Lines
<1>8. SentOnce'
  BY DEF SentOnce
<1>. QED
  BY ZenonT(30), <1>6, <1>7, <1>8
-----------------------------------------------------------------------------
(* Pumping *)

\* The effect of PumpStreams on queues q and tasks rest: what is in line stays
\* in line, only messages of Y reach the wire, and none of those waits.
Pumped(S, q, rest, Y) ==
    /\ \A s \in Streams :
          /\ InLine(sent[s], wire'[s], item'[s], out_queue'[s], Posts(rest, s))
          /\ \A m \in MsgsOf(wire'[s]) : m \in MsgsOf(wire[s]) \/ m \in Y
          /\ \A m \in MsgOf(item'[s]) \cup MsgsOf(out_queue'[s]) \cup MsgsOf(Posts(rest, s)) :
                /\ m \in MsgOf(item[s]) \cup MsgsOf(q[s]) \cup MsgsOf(Posts(rest, s))
                /\ m \notin Y
    /\ \A m \in Msgs : m \in Y => \E s \in S : m \in MsgsOf(q[s])

(* Y are the messages it consumed. *)
LEMMA PumpLines ==
    ASSUME TypeOK, SentOnce, NEW S \in SUBSET Streams, NEW q \in [Streams -> Seq(OutMsg)],
           NEW blk, \A s \in S : q[s] # <<>>, PumpStreams(S, q, blk), NEW rest,
           \A s \in Streams : InLine(sent[s], wire[s], item[s], q[s], Posts(rest, s)),
           NEW Y, Y = {Head(q[s]).msg : s \in Consumed(S, blk)}
    PROVE  Pumped(S, q, rest, Y)
<1>1. Consumed(S, blk) \subseteq S /\ \A s \in Consumed(S, blk) : item[s] = NoItem
  BY DEF Consumed, Accepts
<1>2. ASSUME NEW s \in S
      PROVE  PumpedLine(sent[s], wire[s], item[s], q[s], Posts(rest, s))
  <2>1. /\ wire[s] \in Seq(OutMsg) /\ q[s] \in Seq(OutMsg) /\ q[s] # <<>>
        /\ InLine(sent[s], wire[s], item[s], q[s], Posts(rest, s))
    BY ZenonT(30) DEF TypeOK
  <2>. QED
    BY ZenonT(30), <2>1, LinePumped
<1>3. ASSUME NEW s \in Streams
      PROVE  /\ out_queue'[s] = IF s \in S THEN Tail(q[s]) ELSE q[s]
             /\ wire'[s] = IF s \in Consumed(S, blk) THEN Append(wire[s], Head(q[s]))
                           ELSE wire[s]
             /\ \/ item'[s] = item[s]
                \/ s \in S /\ s \notin Consumed(S, blk) /\ item[s] = NoItem /\ item'[s] = Head(q[s])
  BY <1>3 DEF PumpStreams, Consumed, Accepts
<1>4. ASSUME NEW s \in Streams
      PROVE  /\ InLine(sent[s], wire'[s], item'[s], out_queue'[s], Posts(rest, s))
             /\ \A m \in MsgsOf(wire'[s]) : m \in MsgsOf(wire[s]) \/ m \in Y
             /\ \A m \in MsgOf(item'[s]) \cup MsgsOf(out_queue'[s]) \cup MsgsOf(Posts(rest, s)) :
                   m \in MsgOf(item[s]) \cup MsgsOf(q[s]) \cup MsgsOf(Posts(rest, s))
  <2>1. CASE s \notin S
    BY <1>1, <1>3, <2>1
  <2>2. CASE s \in Consumed(S, blk)
    <3>1. MsgOf(Head(q[s])) \subseteq Y
      BY <2>2 DEF MsgOf
    <3>. QED
      BY ZenonT(30), <1>1, <1>2, <1>3, <2>2, <3>1 DEF PumpedLine
  <2>3. CASE s \in S /\ s \notin Consumed(S, blk)
    BY Zenon, <1>2, <1>3, <2>3 DEF PumpedLine
  <2>. QED
    BY ZenonT(30), <2>1, <2>2, <2>3
<1>5. ASSUME NEW r \in Consumed(S, blk), Head(q[r]).msg \in Msgs
      PROVE  /\ Head(q[r]).msg \in MsgOf(Head(q[r]))
             /\ Head(q[r]).msg \in MsgsOf(q[r])
             /\ Head(q[r]).msg \in Elems(sent[r])
  <2>1. Head(q[r]).msg \in MsgOf(Head(q[r]))
    BY <1>5 DEF MsgOf
  <2>2. Head(q[r]).msg \in MsgsOf(q[r])
    BY Zenon, <1>1, <1>2, <2>1 DEF PumpedLine
  <2>3. MsgsOf(q[r]) \subseteq Elems(sent[r])
    BY Zenon, <1>1 DEF InLine
  <2>. QED
    BY Zenon, <2>1, <2>2, <2>3
<1>6. ASSUME NEW s \in Streams,
             NEW m \in MsgOf(item'[s]) \cup MsgsOf(out_queue'[s]) \cup MsgsOf(Posts(rest, s)),
             m \in Y
      PROVE  FALSE
  <2>1. PICK r \in Consumed(S, blk) : m = Head(q[r]).msg
    BY <1>6
  <2>2. m \in Msgs /\ m \in Elems(sent[s])
    <3>1. m \in Msgs
      BY ZenonT(30), <1>6 DEF MsgOf, MsgsOf
    <3>2. InLine(sent[s], wire'[s], item'[s], out_queue'[s], Posts(rest, s))
      BY <1>4
    <3>. QED
      BY ZenonT(30), <1>6, <3>1, <3>2 DEF InLine
  <2>3. r = s
    BY Zenon, <1>1, <1>5, <2>1, <2>2, OneStream
  <2>4. /\ item'[s] = item[s] /\ item[s] = NoItem /\ out_queue'[s] = Tail(q[s])
    BY ZenonT(30), <1>1, <1>3, <2>1, <2>3
  <2>5. m \in MsgsOf(Tail(q[s])) \cup MsgsOf(Posts(rest, s))
    BY <1>6, <2>4, NoMsgOf
  <2>6. Before(sent[s], MsgsOf(q[s]), MsgsOf(Posts(rest, s)))
    BY ZenonT(30) DEF InLine
  <2>7. m \notin MsgsOf(Posts(rest, s))
    <3>1. m \in MsgsOf(q[s])
      BY Zenon, <1>5, <2>1, <2>2, <2>3
    <3>2. MsgsOf(q[s]) \cap MsgsOf(Posts(rest, s)) = {}
      BY <2>6, Apart
    <3>. QED
      BY Zenon, <3>1, <3>2
  <2>8. Before(sent[s], MsgOf(Head(q[s])), MsgsOf(Tail(q[s])))
    BY ZenonT(30), <1>1, <1>2, <2>3 DEF PumpedLine
  <2>9. m \notin MsgsOf(Tail(q[s]))
    <3>1. m \in MsgOf(Head(q[s]))
      BY Zenon, <1>5, <2>1, <2>2, <2>3
    <3>2. MsgOf(Head(q[s])) \cap MsgsOf(Tail(q[s])) = {}
      BY <2>8, Apart
    <3>. QED
      BY Zenon, <3>1, <3>2
  <2>. QED
    BY ZenonT(30), <2>5, <2>7, <2>9
<1>7. ASSUME NEW m \in Msgs, m \in Y PROVE \E s \in S : m \in MsgsOf(q[s])
  BY ZenonT(30), <1>1, <1>5, <1>7
<1>. QED
  BY ZenonT(30), <1>4, <1>6, <1>7 DEF Pumped

\* on_flushed fires with st for the messages of X and with OK for those of Y.
Answers(X, st, Y) ==
    \A m \in Msgs : flushed'[m] = IF m \in X THEN Append(flushed[m], st)
                                 ELSE IF m \in Y THEN Append(flushed[m], "Ok")
                                 ELSE flushed[m]

\* The queues q and the tasks rest are in line and hold messages under way,
\* none of X.
MadeOf(q, rest, X) ==
    \A s \in Streams :
        /\ InLine(sent[s], wire[s], item[s], q[s], Posts(rest, s))
        /\ \A m \in MsgOf(item[s]) \cup MsgsOf(q[s]) \cup MsgsOf(Posts(rest, s)) :
              m \in Waiting(s) /\ m \notin X

UnderWay(X) == \A m \in Msgs : m \in X => \E s \in Streams : m \in Waiting(s)

(* Pumping queues q made of what is under way, after answering X, keeps the  *)
(* messages in line and answered once.                                       *)
LEMMA PumpSend ==
    ASSUME TypeOK, SentOnce, Lines, Answered, sent' = sent,
           NEW S \in SUBSET Streams, NEW q \in [Streams -> Seq(OutMsg)],
           NEW blk, \A s \in S : q[s] # <<>>, PumpStreams(S, q, blk),
           NEW rest \in Seq(Task), Later(rest),
           NEW Y, Y = {Head(q[s]).msg : s \in Consumed(S, blk)},
           NEW X, NEW st \in Status, Answers(X, st, Y), UnderWay(X), MadeOf(q, rest, X)
    PROVE  SentOnce' /\ Lines' /\ Answered'
<1>a. \A s \in Streams : InLine(sent[s], wire[s], item[s], q[s], Posts(rest, s))
  BY ZenonT(30) DEF MadeOf
<1>0. Pumped(S, q, rest, Y)
  BY ZenonT(30), <1>a, PumpLines
<1>1. /\ \A s \in Streams :
           /\ InLine(sent[s], wire'[s], item'[s], out_queue'[s], Posts(rest, s))
           /\ \A m \in MsgsOf(wire'[s]) : m \in MsgsOf(wire[s]) \/ m \in Y
           /\ \A m \in MsgOf(item'[s]) \cup MsgsOf(out_queue'[s]) \cup MsgsOf(Posts(rest, s)) :
                 /\ m \in MsgOf(item[s]) \cup MsgsOf(q[s]) \cup MsgsOf(Posts(rest, s))
                 /\ m \notin Y
      /\ \A m \in Msgs : m \in Y => \E s \in S : m \in MsgsOf(q[s])
  BY ZenonT(30), <1>0 DEF Pumped
<1>2. \A s \in Streams :
        /\ InLine(sent[s], wire'[s], item'[s], out_queue'[s], Posts(tasks', s))
        /\ MsgsOf(Posts(tasks', s)) = MsgsOf(Posts(rest, s))
  BY ZenonT(30), <1>1, LaterLine
<1>3. \A s \in Streams : \A m \in Waiting(s)' : m \in Waiting(s) /\ m \notin X \cup Y
  BY ZenonT(30), <1>1, <1>2 DEF Waiting, MadeOf
<1>4. \A m \in Msgs : m \in X \cup Y => \E s \in Streams : m \in Waiting(s)
  BY ZenonT(30), <1>1 DEF MadeOf, UnderWay
<1>5. \A m \in Msgs : ~(m \in X /\ m \in Y)
  BY Zenon, <1>1 DEF MadeOf
<1>6. Answered'
  BY ZenonT(30), <1>1, <1>3, <1>4, <1>5, AnsweredStep DEF Answers
<1>7. Lines'
  BY ZenonT(30), <1>2 DEF Lines
<1>8. SentOnce'
  BY ZenonT(30) DEF SentOnce
<1>. QED
  BY <1>6, <1>7, <1>8
-----------------------------------------------------------------------------
(* Every step keeps the messages in line. *)

SendLine == SentOnce /\ Lines /\ Answered

(* A step that answers X, takes it out of the line and moves none of it to   *)
(* the wire but with OK.                                                     *)
LEMMA SendStep ==
    ASSUME TypeOK, SendLine, sent' = sent, Lines', NEW X, NEW st \in Status,
           \A m \in Msgs : flushed'[m] = IF m \in X THEN Append(flushed[m], st) ELSE flushed[m],
           \A m \in Msgs : m \in X => \E s \in Streams : m \in Waiting(s),
           \A s \in Streams : \A m \in Waiting(s)' : m \in Waiting(s) /\ m \notin X,
           \A s \in Streams : \A m \in MsgsOf(wire'[s]) :
              m \in MsgsOf(wire[s]) \/ (m \in X /\ st = "Ok")
    PROVE  SendLine'
<1>. DEFINE A == IF st = "Ok" THEN {} ELSE X
            Y == X \ A
<1>1. /\ \A m \in Msgs : flushed'[m] = IF m \in A THEN Append(flushed[m], st)
                                       ELSE IF m \in Y THEN Append(flushed[m], "Ok")
                                       ELSE flushed[m]
      /\ \A m \in Msgs : m \in A \cup Y => \E s \in Streams : m \in Waiting(s)
      /\ \A m \in Msgs : ~(m \in A /\ m \in Y)
      /\ \A s \in Streams : \A m \in Waiting(s)' : m \in Waiting(s) /\ m \notin A \cup Y
      /\ \A s \in Streams : \A m \in MsgsOf(wire'[s]) : m \in MsgsOf(wire[s]) \/ m \in Y
  <2>1. CASE st = "Ok"
    BY <2>1
  <2>2. CASE st # "Ok"
    BY <2>2
  <2>. QED
    BY <2>1, <2>2
<1>. HIDE DEF A, Y
<1>2. Answered'
  BY ZenonT(30), <1>1, AnsweredStep DEF SendLine
<1>3. SentOnce'
  <2>1. SentOnce
    BY DEF SendLine
  <2>. QED
    BY <2>1 DEF SentOnce
<1>. QED
  BY <1>2, <1>3 DEF SendLine

(* A step that answers nothing and puts nothing into the line. *)
LEMMA QuietStep ==
    ASSUME TypeOK, SendLine, sent' = sent, Lines', flushed' = flushed,
           \A s \in Streams : Waiting(s)' \subseteq Waiting(s),
           \A s \in Streams : MsgsOf(wire'[s]) \subseteq MsgsOf(wire[s])
    PROVE  SendLine'
<1>1. "Ok" \in Status
  BY DEF Status
<1>. DEFINE X == {}
<1>2. /\ \A m \in Msgs : flushed'[m] = IF m \in X THEN Append(flushed[m], "Ok") ELSE flushed[m]
      /\ \A m \in Msgs : m \in X => \E s \in Streams : m \in Waiting(s)
      /\ \A s \in Streams : \A m \in Waiting(s)' : m \in Waiting(s) /\ m \notin X
      /\ \A s \in Streams : \A m \in MsgsOf(wire'[s]) :
            m \in MsgsOf(wire[s]) \/ (m \in X /\ "Ok" = "Ok")
  BY ZenonT(30)
<1>. HIDE DEF X
<1>. QED
  BY ZenonT(30), <1>1, <1>2, SendStep

(* The queue and the tasks of a stream when a StreamSend task is run. *)
LEMMA SendLines ==
    ASSUME TypeOK, SendLine, NEW s \in Streams, IsNext("send", s), NEW o, o = Head(tasks).out,
           NEW q, q = [out_queue EXCEPT ![s] = Append(@, o)]
    PROVE  /\ q \in [Streams -> Seq(OutMsg)]
           /\ o \in OutMsg
           /\ o.msg \in Msgs => o.msg \in Waiting(s)
           /\ \A r \in Streams :
                /\ InLine(sent[r], wire[r], item[r], q[r], Posts(Tail(tasks), r))
                /\ InLine(sent[r], wire[r], item[r], out_queue[r], Posts(Tail(tasks), r))
                /\ MsgsOf(q[r]) \cup MsgsOf(Posts(Tail(tasks), r)) \subseteq
                       MsgsOf(out_queue[r]) \cup MsgsOf(Posts(tasks, r))
                /\ \A m \in MsgOf(item[r]) \cup MsgsOf(out_queue[r]) \cup
                            MsgsOf(Posts(Tail(tasks), r)) : m \in Waiting(r) /\ m # o.msg
<1>1. /\ tasks \in Seq(Task) /\ tasks # <<>> /\ Head(tasks).op = "send" /\ Head(tasks).id = s
      /\ Head(tasks) \in Task
  BY NextTask DEF IsNext, TypeOK
<1>2. o \in OutMsg
  BY <1>1 DEF Task
<1>3. q \in [Streams -> Seq(OutMsg)]
  BY ZenonT(30), <1>2, AppendProperties DEF TypeOK
<1>4. ASSUME NEW r \in Streams
      PROVE  /\ InLine(sent[r], wire[r], item[r], out_queue[r], Posts(tasks, r))
             /\ Posts(tasks, r) \in Seq(OutMsg) /\ Posts(tasks, r) # <<>>
             /\ Posts(Tail(tasks), r) = Tail(Posts(tasks, r))
             /\ Head(Posts(tasks, r)) = IF r = s THEN o ELSE NoItem
             /\ out_queue[r] \in Seq(OutMsg)
             /\ q[r] = IF r = s THEN Append(out_queue[s], o) ELSE out_queue[r]
  <2>1. tasks \in Seq(Task) /\ out_queue \in [Streams -> Seq(OutMsg)]
    BY Zenon DEF TypeOK
  <2>2. /\ InLine(sent[r], wire[r], item[r], out_queue[r], Posts(tasks, r))
        /\ out_queue[r] \in Seq(OutMsg)
    BY Zenon, <2>1 DEF SendLine, Lines
  <2>3. /\ Posts(tasks, r) \in Seq(OutMsg) /\ Posts(tasks, r) # <<>>
        /\ Posts(Tail(tasks), r) = Tail(Posts(tasks, r))
    BY Zenon, <1>1, <2>1, PostsType, PostsTail
  <2>4. Head(Posts(tasks, r)) = IF Head(tasks).op = "send" /\ Head(tasks).id = r
                                THEN Head(tasks).out ELSE NoItem
    BY Zenon, <1>1, <2>1, PostsTail
  <2>5. Head(Posts(tasks, r)) = IF r = s THEN o ELSE NoItem
    BY Zenon, <1>1, <2>4
  <2>6. q[r] = IF r = s THEN Append(out_queue[s], o) ELSE out_queue[r]
    BY <2>1
  <2>. QED
    BY Zenon, <2>2, <2>3, <2>5, <2>6
<1>5. ASSUME NEW r \in Streams
      PROVE  /\ InLine(sent[r], wire[r], item[r], out_queue[r], Posts(Tail(tasks), r))
             /\ MsgsOf(Posts(Tail(tasks), r)) \subseteq MsgsOf(Posts(tasks, r))
             /\ MsgsOf(Posts(tasks, r)) =
                   MsgOf(Head(Posts(tasks, r))) \cup MsgsOf(Posts(Tail(tasks), r))
             /\ Before(sent[r], MsgOf(Head(Posts(tasks, r))), MsgsOf(Posts(Tail(tasks), r)))
  BY <1>1, <1>4, RunLine
<1>6. /\ InLine(sent[s], wire[s], item[s], Append(out_queue[s], o), Posts(Tail(tasks), s))
      /\ MsgsOf(Append(out_queue[s], o)) = MsgsOf(out_queue[s]) \cup MsgOf(o)
      /\ MsgsOf(Posts(tasks, s)) = MsgOf(o) \cup MsgsOf(Posts(Tail(tasks), s))
  <2>. DEFINE p == Posts(tasks, s)
  <2>1. /\ p \in Seq(OutMsg) /\ p # <<>> /\ Head(p) = o /\ Tail(p) = Posts(Tail(tasks), s)
        /\ InLine(sent[s], wire[s], item[s], out_queue[s], p) /\ out_queue[s] \in Seq(OutMsg)
    BY ZenonT(30), <1>4
  <2>. HIDE DEF p
  <2>2. QueuedLine(sent[s], wire[s], item[s], out_queue[s], p)
    BY ZenonT(30), <2>1, LineQueued
  <2>. QED
    BY Zenon, <2>1, <2>2 DEF p, QueuedLine
<1>7. o.msg \in Msgs => o.msg \in MsgOf(o) /\ o.msg \in MsgsOf(Posts(tasks, s))
  BY ZenonT(30), <1>6 DEF MsgOf
<1>8. ASSUME NEW r \in Streams
      PROVE  /\ InLine(sent[r], wire[r], item[r], q[r], Posts(Tail(tasks), r))
             /\ MsgsOf(q[r]) \cup MsgsOf(Posts(Tail(tasks), r)) \subseteq
                       MsgsOf(out_queue[r]) \cup MsgsOf(Posts(tasks, r))
  <2>1. CASE r = s
    <3>1. q[r] = Append(out_queue[s], o)
      BY Zenon, <1>4, <2>1
    <3>. QED
      BY Zenon, <1>6, <2>1, <3>1
  <2>2. CASE r # s
    BY <1>4, <1>5, <2>2
  <2>. QED
    BY ZenonT(30), <2>1, <2>2
<1>9. ASSUME NEW r \in Streams,
             NEW m \in MsgOf(item[r]) \cup MsgsOf(out_queue[r]) \cup MsgsOf(Posts(Tail(tasks), r))
      PROVE  m \in Waiting(r) /\ m # o.msg
  <2>1. m \in Waiting(r) /\ m \in Msgs
    BY Zenon, <1>5, <1>9 DEF Waiting, MsgOf, MsgsOf
  <2>2. ASSUME m = o.msg PROVE FALSE
    <3>1. o.msg \in Waiting(s)
      BY <1>7, <2>1, <2>2 DEF Waiting
    <3>2. r = s
      BY Zenon, <2>1, <2>2, <3>1, WaitingSent, OneStream DEF SendLine
    <3>3. /\ Before(sent[s], MsgOf(item[s]), MsgsOf(Posts(tasks, s)))
          /\ Before(sent[s], MsgsOf(out_queue[s]), MsgsOf(Posts(tasks, s)))
      BY ZenonT(30), <1>4 DEF InLine, Before
    <3>4. m \notin MsgOf(item[s]) /\ m \notin MsgsOf(out_queue[s])
      BY ZenonT(30), <1>7, <2>1, <2>2, <3>3, Apart DEF SendLine
    <3>5. Before(sent[s], MsgOf(o), MsgsOf(Posts(Tail(tasks), s)))
      BY Zenon, <1>4, <1>5
    <3>6. m \notin MsgsOf(Posts(Tail(tasks), s))
      <4>1. MsgOf(o) \cap MsgsOf(Posts(Tail(tasks), s)) = {}
        BY Zenon, <3>5, Apart DEF SendLine
      <4>. QED
        BY Zenon, <1>7, <2>1, <2>2, <4>1
    <3>. QED
      BY ZenonT(30), <1>9, <3>2, <3>4, <3>6
  <2>. QED
    BY <2>1, <2>2
<1>10. o.msg \in Msgs => o.msg \in Waiting(s)
  BY <1>7 DEF Waiting
<1>. QED
  BY ZenonT(30), <1>2, <1>3, <1>5, <1>8, <1>9, <1>10
(* PumpStream on queues made of what is under way. *)
LEMMA PumpStreamSend ==
    ASSUME TypeOK, SendLine, sent' = sent, tasks # <<>>,
           NEW s \in Streams, NEW q \in [Streams -> Seq(OutMsg)], PumpStream(s, q),
           \A r \in Streams :
              /\ InLine(sent[r], wire[r], item[r], q[r], Posts(Tail(tasks), r))
              /\ MsgsOf(q[r]) \cup MsgsOf(Posts(Tail(tasks), r)) \subseteq
                     MsgsOf(out_queue[r]) \cup MsgsOf(Posts(tasks, r))
    PROVE  SendLine'
<1>. DEFINE S == {s} \cap {r \in Streams \ out_inflight : q[r] # <<>>}
<1>1. PICK blk \in SUBSET {s} :
        /\ PumpStreams(S, q, blk)
        /\ flushed' = Add(flushed, {Head(q[r]).msg : r \in Consumed(S, blk)}, "Ok")
        /\ tasks' = IF Consumed(S, blk) = {} THEN Tail(tasks)
                                            ELSE Append(Tail(tasks), T("pump", s))
  BY ZenonT(30) DEF PumpStream
<1>2. S \in SUBSET Streams /\ \A r \in S : q[r] # <<>>
  BY ZenonT(30)
<1>. DEFINE Y == {Head(q[r]).msg : r \in Consumed(S, blk)}
            X == {}
            rest == Tail(tasks)
<1>3. rest \in Seq(Task)
  BY NextTask
<1>4. Later(rest)
  <2>1. T("pump", s) \in Task /\ T("pump", s).op # "send"
    BY ZenonT(30), OutMsgType DEF Ids, T
  <2>2. tasks' = rest \/ tasks' = Append(rest, T("pump", s))
    BY <1>1
  <2>. HIDE DEF rest
  <2>. QED
    BY <1>3, <2>1, <2>2, LaterOne
<1>5. Answers(X, "Ok", Y) /\ UnderWay(X)
  <2>1. flushed' = Add(flushed, Y, "Ok")
    BY Zenon, <1>1
  <2>. HIDE DEF Y
  <2>. QED
    BY ZenonT(30), <2>1 DEF Add, TypeOK, Answers, UnderWay
<1>6. MadeOf(q, rest, X)
  BY DEF Waiting, MadeOf
<1>8. "Ok" \in Status /\ Y = {Head(q[r]).msg : r \in Consumed(S, blk)} /\ PumpStreams(S, q, blk)
  BY Zenon, <1>1 DEF Status
<1>. HIDE DEF S, X, Y, rest
<1>. QED
  BY Zenon, <1>2, <1>3, <1>4, <1>5, <1>6, <1>8, PumpSend DEF SendLine

(* A StreamSend task: the message is parked, pumped or refused. *)
LEMMA RunSendLine ==
    ASSUME TypeOK, SendLine, NEW s \in Streams, RunSend(s)
    PROVE  SendLine'
<1>. DEFINE o == Head(tasks).out
            q == [out_queue EXCEPT ![s] = Append(@, o)]
<1>1. IsNext("send", s) /\ tasks # <<>> /\ sent' = sent
  BY ZenonT(30) DEF RunSend, IsNext, userVars
<1>2. \/ SendParked(s, o)
      \/ PumpStream(s, q)
      \/ \E st \in Status : SendRefused(o, st)
  BY DEF RunSend, Status
<1>3. o = Head(tasks).out /\ q = [out_queue EXCEPT ![s] = Append(@, o)]
  OBVIOUS
<1>. HIDE DEF o, q
<1>4. /\ q \in [Streams -> Seq(OutMsg)]
      /\ o \in OutMsg
      /\ o.msg \in Msgs => o.msg \in Waiting(s)
      /\ \A r \in Streams :
            /\ InLine(sent[r], wire[r], item[r], q[r], Posts(Tail(tasks), r))
            /\ InLine(sent[r], wire[r], item[r], out_queue[r], Posts(Tail(tasks), r))
            /\ MsgsOf(q[r]) \cup MsgsOf(Posts(Tail(tasks), r)) \subseteq
                   MsgsOf(out_queue[r]) \cup MsgsOf(Posts(tasks, r))
            /\ \A m \in MsgOf(item[r]) \cup MsgsOf(out_queue[r]) \cup
                        MsgsOf(Posts(Tail(tasks), r)) : m \in Waiting(r) /\ m # o.msg
  BY Zenon, <1>1, <1>3, SendLines
<1>5. CASE SendParked(s, o)
  <2>1. /\ out_queue' = q /\ tasks' = Tail(tasks) /\ UNCHANGED <<item, wire, flushed>>
    BY ZenonT(30), <1>3, <1>5 DEF SendParked
  <2>2. Lines'
    BY ZenonT(30), <1>1, <1>4, <2>1 DEF Lines
  <2>3. \A r \in Streams : Waiting(r)' \subseteq Waiting(r)
    <3>1. \A r \in Streams :
             Waiting(r)' = MsgOf(item[r]) \cup MsgsOf(q[r]) \cup MsgsOf(Posts(Tail(tasks), r))
      BY <2>1 DEF Waiting
    <3>2. \A r \in Streams : MsgsOf(q[r]) \cup MsgsOf(Posts(Tail(tasks), r)) \subseteq
                                 MsgsOf(out_queue[r]) \cup MsgsOf(Posts(tasks, r))
      BY <1>4
    <3>. QED
      BY <3>1, <3>2 DEF Waiting
  <2>. QED
    BY <1>1, <2>1, <2>2, <2>3, QuietStep
<1>6. CASE PumpStream(s, q)
  BY ZenonT(30), <1>1, <1>4, <1>6, PumpStreamSend
<1>7. ASSUME NEW st \in Status, SendRefused(o, st) PROVE SendLine'
  <2>. DEFINE X == {o.msg}
  <2>1. /\ tasks' = Tail(tasks) /\ UNCHANGED <<item, wire, out_queue>>
        /\ flushed' = Add(flushed, X, st)
    BY <1>7 DEF SendRefused, sendVars
  <2>2. Lines'
    BY ZenonT(30), <1>1, <1>4, <2>1 DEF Lines
  <2>3. /\ \A m \in Msgs : flushed'[m] = IF m \in X THEN Append(flushed[m], st) ELSE flushed[m]
        /\ \A m \in Msgs : m \in X => \E r \in Streams : m \in Waiting(r)
    BY <1>4, <2>1 DEF Add, TypeOK
  <2>4. \A r \in Streams : \A m \in Waiting(r)' : m \in Waiting(r) /\ m \notin X
    BY Zenon, <1>4, <2>1 DEF Waiting
  <2>5. \A r \in Streams : \A m \in MsgsOf(wire'[r]) :
           m \in MsgsOf(wire[r]) \/ (m \in X /\ st = "Ok")
    BY ZenonT(30), <2>1
  <2>. HIDE DEF X
  <2>. QED
    BY ZenonT(30), <1>1, <2>2, <2>3, <2>4, <2>5, SendStep
<1>. QED
  BY ZenonT(30), <1>2, <1>5, <1>6, <1>7

(* The lines after a task that moves nothing by itself. *)
LEMMA TaskLines ==
    ASSUME TypeOK, SendLine, tasks # <<>>
    PROVE  \A r \in Streams :
              /\ InLine(sent[r], wire[r], item[r], out_queue[r], Posts(Tail(tasks), r))
              /\ MsgsOf(Posts(Tail(tasks), r)) \subseteq MsgsOf(Posts(tasks, r))
BY RunLine DEF SendLine, Lines

(* A posted pump. *)
LEMMA RunPumpLine ==
    ASSUME TypeOK, SendLine, NEW s \in Streams, RunPump(s)
    PROVE  SendLine'
<1>1. tasks # <<>> /\ sent' = sent
  BY ZenonT(30) DEF RunPump, IsNext, userVars
<1>2. \A r \in Streams :
         /\ InLine(sent[r], wire[r], item[r], out_queue[r], Posts(Tail(tasks), r))
         /\ MsgsOf(Posts(Tail(tasks), r)) \subseteq MsgsOf(Posts(tasks, r))
  BY <1>1, TaskLines
<1>3. CASE PumpStream(s, out_queue)
  <2>1. out_queue \in [Streams -> Seq(OutMsg)]
    BY ZenonT(30) DEF TypeOK
  <2>2. \A r \in Streams :
           /\ InLine(sent[r], wire[r], item[r], out_queue[r], Posts(Tail(tasks), r))
           /\ MsgsOf(out_queue[r]) \cup MsgsOf(Posts(Tail(tasks), r)) \subseteq
                  MsgsOf(out_queue[r]) \cup MsgsOf(Posts(tasks, r))
    BY <1>2
  <2>. QED
    BY ZenonT(30), <1>1, <1>3, <2>1, <2>2, PumpStreamSend
<1>4. CASE tasks' = Tail(tasks) /\ UNCHANGED <<sendVars, flushed>>
  <2>1. UNCHANGED <<out_queue, item, wire, flushed>> /\ tasks' = Tail(tasks)
    BY ZenonT(30), <1>4 DEF sendVars
  <2>2. Lines'
    BY ZenonT(30), <1>1, <1>2, <2>1 DEF Lines
  <2>3. \A r \in Streams : Waiting(r)' \subseteq Waiting(r)
    BY <1>2, <2>1 DEF Waiting
  <2>. QED
    BY <1>1, <2>1, <2>2, <2>3, QuietStep
<1>. QED
  BY <1>3, <1>4 DEF RunPump

(* CloseLast changes no message. *)
LEMMA CloseLastMsgs ==
    ASSUME NEW q \in Seq(OutMsg), q # <<>>
    PROVE  /\ DOMAIN CloseLast(q) = DOMAIN q
           /\ \A k \in DOMAIN q : q[k].msg = CloseLast(q)[k].msg
<1>1. Len(q) \in DOMAIN q
  OBVIOUS
<1>. QED
  BY <1>1 DEF CloseLast

(* A StreamCloseSend task moves no message. *)
LEMMA RunCloseSendLine ==
    ASSUME TypeOK, SendLine, NEW s \in Streams, RunCloseSend(s)
    PROVE  SendLine'
<1>1. tasks # <<>> /\ UNCHANGED <<sent, flushed>> /\ tasks' = Tail(tasks)
  BY ZenonT(30) DEF RunCloseSend, IsNext, userVars
<1>2. \A r \in Streams :
         /\ InLine(sent[r], wire[r], item[r], out_queue[r], Posts(tasks', r))
         /\ MsgsOf(Posts(tasks', r)) \subseteq MsgsOf(Posts(tasks, r))
  BY <1>1, TaskLines
<1>3. wire[s] \in Seq(OutMsg) /\ out_queue[s] \in Seq(OutMsg) /\ Ordered(sent[s], wire[s])
      /\ Ordered(sent[s], out_queue[s])
  BY Zenon, <1>2 DEF TypeOK, InLine
<1>4. ASSUME \A r \in Streams \ {s} : /\ wire'[r] = wire[r] /\ item'[r] = item[r]
                                      /\ out_queue'[r] = out_queue[r],
             Ordered(sent[s], wire'[s]), Ordered(sent[s], out_queue'[s]),
             MsgsOf(wire'[s]) \subseteq MsgsOf(wire[s]),
             MsgOf(item'[s]) \subseteq MsgOf(item[s]),
             MsgsOf(out_queue'[s]) \subseteq MsgsOf(out_queue[s])
      PROVE  SendLine'
  <2>1. InLine(sent[s], wire'[s], item'[s], out_queue'[s], Posts(tasks', s))
    BY ZenonT(30), <1>2, <1>4 DEF InLine, Before
  <2>2. Lines'
    BY ZenonT(30), <1>1, <1>2, <1>4, <2>1 DEF Lines
  <2>3. \A r \in Streams : Waiting(r)' \subseteq Waiting(r)
    BY ZenonT(30), <1>2, <1>4 DEF Waiting
  <2>4. \A r \in Streams : MsgsOf(wire'[r]) \subseteq MsgsOf(wire[r])
    BY ZenonT(30), <1>4
  <2>. QED
    BY ZenonT(30), <1>1, <2>2, <2>3, <2>4, QuietStep
<1>5. CASE CloseQueued(s)
  <2>1. /\ out_queue[s] # <<>> /\ UNCHANGED <<item, wire>>
        /\ out_queue'[s] = CloseLast(out_queue[s])
        /\ \A r \in Streams \ {s} : out_queue'[r] = out_queue[r]
    BY ZenonT(30), <1>5 DEF CloseQueued, TypeOK
  <2>2. MsgsOf(out_queue'[s]) = MsgsOf(out_queue[s]) /\ Ordered(sent[s], out_queue'[s])
    BY ZenonT(30), <1>3, <2>1, CloseLastMsgs, SameMsgs
  <2>. QED
    BY ZenonT(30), <1>3, <1>4, <2>1, <2>2
<1>6. MsgsOf(<<HalfClose>>) = {} /\ Ordered(sent[s], <<HalfClose>>)
  <2>1. DOMAIN <<HalfClose>> = {1} /\ <<HalfClose>>[1] = HalfClose
    BY SMTT(30)
  <2>. QED
    BY <2>1, NoMsgOf DEF MsgsOf, Ordered, MsgOf, Before
<1>7. CASE CloseParked(s)
  <2>1. /\ UNCHANGED <<item, wire>>
        /\ out_queue'[s] = <<HalfClose>>
        /\ \A r \in Streams \ {s} : out_queue'[r] = out_queue[r]
    BY <1>7 DEF CloseParked, TypeOK
  <2>. QED
    BY ZenonT(30), <1>3, <1>4, <1>6, <2>1
<1>8. CASE CloseNow(s)
  <2>1. /\ UNCHANGED out_queue
        /\ item'[s] = item[s] \/ item'[s] = HalfClose
        /\ wire'[s] = wire[s] \/ wire'[s] = Append(wire[s], HalfClose)
        /\ \A r \in Streams \ {s} : item'[r] = item[r] /\ wire'[r] = wire[r]
    BY ZenonT(30), <1>8 DEF CloseNow, TypeOK
  <2>2. Before(sent[s], MsgsOf(wire[s]), MsgOf(HalfClose))
    BY NoMsgOf DEF Before
  <2>3. MsgsOf(wire'[s]) = MsgsOf(wire[s]) /\ Ordered(sent[s], wire'[s])
    <3>1. /\ MsgsOf(Append(wire[s], HalfClose)) = MsgsOf(wire[s]) \cup MsgOf(HalfClose)
          /\ Ordered(sent[s], Append(wire[s], HalfClose))
      BY ZenonT(30), <1>3, <2>2, AddLast, OutMsgType
    <3>. QED
      BY ZenonT(30), <1>3, <2>1, <3>1, NoMsgOf
  <2>4. MsgOf(item'[s]) \subseteq MsgOf(item[s])
    BY ZenonT(30), <2>1, NoMsgOf
  <2>. QED
    BY ZenonT(30), <1>3, <1>4, <2>1, <2>3, <2>4
<1>9. CASE UNCHANGED <<out_queue, send_closed, item, wire>>
  BY <1>3, <1>4, <1>9
<1>. QED
  BY ZenonT(30), <1>5, <1>7, <1>8, <1>9 DEF RunCloseSend
(* A half-close that moves to the last parked message changes no message. *)
LEMMA SeededMsgs ==
    ASSUME NEW q \in Seq(OutMsg), NEW t, Ordered(t, q)
    PROVE  MsgsOf(Seeded(q)) = MsgsOf(q) /\ Ordered(t, Seeded(q))
<1>1. CASE \E k \in DOMAIN q : q[k].close
  <2>1. q # <<>> /\ Seeded(q) = CloseLast(q)
    BY <1>1 DEF Seeded
  <2>. QED
    BY <2>1, CloseLastMsgs, SameMsgs
<1>2. CASE ~\E k \in DOMAIN q : q[k].close
  BY <1>2 DEF Seeded
<1>. QED
  BY <1>1, <1>2

(* CallNow and OpenStreamNow: the parked messages of a stream are pumped, or *)
(* answered if it is refused.                                                *)
LEMMA LaunchLine ==
    ASSUME TypeOK, SendLine, sent' = sent, NEW S \in SUBSET Ids, NEW bad, NEW blk,
           NEW rest \in Seq(Task), Launch(S, bad, blk, rest),
           rest = tasks \/ (tasks # <<>> /\ rest = Tail(tasks))
    PROVE  SendLine'
<1>. DEFINE q    == Set([s \in Streams |-> IF s \in S THEN Seeded(out_queue[s])
                                          ELSE out_queue[s]], bad, <<>>)
            pump == {s \in (S \ bad) \cap Streams : q[s] # <<>>}
            now  == Consumed(pump, blk)
            X    == Queued(bad)
            Y    == {Head(q[s]).msg : s \in now}
<1>1. \A s \in Streams : q[s] = IF s \in bad THEN <<>>
                                ELSE IF s \in S THEN Seeded(out_queue[s]) ELSE out_queue[s]
  BY DEF Set
<1>2. q \in [Streams -> Seq(OutMsg)]
  <2>1. \A s \in Streams : out_queue[s] \in Seq(OutMsg)
    BY DEF TypeOK
  <2>2. \A s \in Streams : Seeded(out_queue[s]) \in Seq(OutMsg)
    BY <2>1, SeededType
  <2>3. [s \in Streams |-> IF s \in S THEN Seeded(out_queue[s]) ELSE out_queue[s]]
          \in [Streams -> Seq(OutMsg)]
    BY <2>1, <2>2
  <2>4. <<>> \in Seq(OutMsg)
    BY SMTT(30)
  <2>. QED
    BY ZenonT(30), <2>3, <2>4, SetType
<1>3. pump \in SUBSET Streams /\ \A s \in pump : q[s] # <<>>
  OBVIOUS
<1>4. PumpStreams(pump, q, blk)
  BY ZenonT(30) DEF Launch
<1>5. now \in SUBSET Streams /\ now \subseteq pump
  BY DEF Consumed
<1>6. Later(rest)
  <2>1. PICK o \in [1..Cardinality(now) -> now] :
           tasks' = rest \o [k \in DOMAIN o |-> T("pump", o[k])]
    BY ZenonT(30) DEF Launch
  <2>. HIDE DEF now
  <2>2. /\ [k \in DOMAIN o |-> T("pump", o[k])] \in Seq(Task)
        /\ \A k \in DOMAIN o : T("pump", o[k]).op # "send"
    BY ZenonT(30), <1>5, PumpTasksType DEF T
  <2>. QED
    BY ZenonT(30), <2>1, <2>2 DEF Later
<1>7. flushed' = Add(Add(flushed, X, "Unavailable"), Y, "Ok")
  BY ZenonT(30) DEF Launch
<1>8. Y = {Head(q[s]).msg : s \in Consumed(pump, blk)}
  BY ZenonT(30)
<1>. HIDE DEF q, pump, now, X, Y
<1>9. \A m \in Msgs : m \in X <=> \E s \in bad \cap Streams : m \in MsgsOf(out_queue[s])
  BY DEF X, Queued, MsgsOf, Elems
<1>10. ASSUME NEW s \in Streams
       PROVE  /\ InLine(sent[s], wire[s], item[s], q[s], Posts(rest, s))
              /\ MsgsOf(q[s]) \subseteq MsgsOf(out_queue[s])
              /\ s \in bad => q[s] = <<>>
              /\ MsgsOf(Posts(rest, s)) \subseteq MsgsOf(Posts(tasks, s))
              /\ Before(sent[s], MsgOf(item[s]), MsgsOf(out_queue[s]))
              /\ Before(sent[s], MsgsOf(out_queue[s]), MsgsOf(Posts(tasks, s)))
  <2>1. InLine(sent[s], wire[s], item[s], out_queue[s], Posts(tasks, s))
    BY DEF SendLine, Lines
  <2>2. /\ InLine(sent[s], wire[s], item[s], out_queue[s], Posts(rest, s))
        /\ MsgsOf(Posts(rest, s)) \subseteq MsgsOf(Posts(tasks, s))
    BY ZenonT(30), <2>1, TaskLines
  <2>3. /\ MsgsOf(Seeded(out_queue[s])) = MsgsOf(out_queue[s])
        /\ Ordered(sent[s], Seeded(out_queue[s]))
    <3>1. out_queue[s] \in Seq(OutMsg) /\ Ordered(sent[s], out_queue[s])
      BY <2>1 DEF TypeOK, InLine
    <3>. QED
      BY ZenonT(30), <3>1, SeededMsgs
  <2>4. MsgsOf(q[s]) \subseteq MsgsOf(out_queue[s]) /\ Ordered(sent[s], q[s])
    BY ZenonT(30), <1>1, <2>1, <2>3, NoMsgs DEF InLine
  <2>5. InLine(sent[s], wire[s], item[s], q[s], Posts(rest, s))
    BY ZenonT(30), <2>2, <2>4 DEF InLine, Before
  <2>6. /\ Before(sent[s], MsgOf(item[s]), MsgsOf(out_queue[s]))
        /\ Before(sent[s], MsgsOf(out_queue[s]), MsgsOf(Posts(tasks, s)))
    BY ZenonT(30), <2>1 DEF InLine, Before
  <2>. QED
    BY ZenonT(30), <1>1, <2>2, <2>4, <2>5, <2>6
<1>11. UnderWay(X)
  BY ZenonT(30), <1>9 DEF UnderWay, Waiting
<1>12. MadeOf(q, rest, X)
  <2>1. ASSUME NEW s \in Streams,
               NEW m \in MsgOf(item[s]) \cup MsgsOf(q[s]) \cup MsgsOf(Posts(rest, s))
        PROVE  m \in Waiting(s) /\ m \notin X
    <3>1. m \in Waiting(s) /\ m \in Msgs
      BY ZenonT(30), <1>10, <2>1 DEF Waiting, MsgOf, MsgsOf
    <3>2. ASSUME NEW r \in bad \cap Streams, m \in MsgsOf(out_queue[r]) PROVE FALSE
      <4>1. m \in Waiting(r)
        BY <3>2 DEF Waiting
      <4>2. r = s
        BY ZenonT(30), <3>1, <4>1, WaitingSent, OneStream DEF SendLine
      <4>3. m \notin MsgOf(item[s]) /\ m \notin MsgsOf(Posts(tasks, s))
        <5>1. /\ MsgOf(item[s]) \cap MsgsOf(out_queue[s]) = {}
              /\ MsgsOf(out_queue[s]) \cap MsgsOf(Posts(tasks, s)) = {}
          <6>. DEFINE A == MsgOf(item[s])
                      B == MsgsOf(out_queue[s])
                      C == MsgsOf(Posts(tasks, s))
          <6>1. Before(sent[s], A, B) /\ Before(sent[s], B, C)
            BY Zenon, <1>10
          <6>2. SentOnce
            BY DEF SendLine
          <6>. HIDE DEF A, B, C
          <6>3. A \cap B = {} /\ B \cap C = {}
            BY <6>1, <6>2, Apart
          <6>. QED
            BY <6>3 DEF A, B, C
        <5>. QED
          BY ZenonT(30), <3>2, <4>2, <5>1
      <4>. QED
        BY ZenonT(30), <1>10, <2>1, <4>2, <4>3, NoMsgs
    <3>. QED
      BY <1>9, <3>1, <3>2
  <2>. QED
    BY ZenonT(30), <1>10, <2>1 DEF MadeOf
<1>13. ASSUME NEW m \in Msgs, m \in Y PROVE m \notin X
  <2>1. PICK s \in now : m = Head(q[s]).msg
    BY <1>13 DEF Y
  <2>2. s \in Streams /\ q[s] # <<>> /\ q[s] \in Seq(OutMsg)
    BY <1>2, <1>3, <1>5
  <2>3. m \in MsgsOf(q[s])
    <3>1. Ordered(sent[s], q[s])
      BY ZenonT(30), <1>10, <2>2 DEF InLine
    <3>2. MsgsOf(q[s]) = MsgOf(Head(q[s])) \cup MsgsOf(Tail(q[s]))
      BY ZenonT(30), <2>2, <3>1, HeadFirst
    <3>. QED
      BY <2>1, <3>2 DEF MsgOf
  <2>. QED
    BY Zenon, <1>12, <2>2, <2>3 DEF MadeOf
<1>14. Answers(X, "Unavailable", Y)
  BY <1>7, <1>13 DEF Answers, Add, TypeOK
<1>15. "Unavailable" \in Status
  BY DEF Status
<1>. QED
  BY ZenonT(30), <1>2, <1>3, <1>4, <1>6, <1>8, <1>11, <1>12, <1>14, <1>15, PumpSend DEF SendLine

(* A window update moves the item of a stream to its wire, with OK if        *)
(* PumpStream attached it.                                                   *)
LEMMA UnblockLine ==
    ASSUME TypeOK, SendLine, NEW s \in Streams, InSession(s), Unblock(s)
    PROVE  SendLine'
<1>1. /\ sent' = sent /\ out_queue' = out_queue /\ wire[s] \in Seq(OutMsg)
      /\ item[s] \in OutMsg /\ tasks \in Seq(Task)
      /\ wire'[s] = Append(wire[s], item[s]) /\ item'[s] = NoItem
      /\ \A r \in Streams \ {s} : wire'[r] = wire[r] /\ item'[r] = item[r]
  BY DEF Unblock, userVars, TypeOK
<1>2. Later(tasks)
  <2>1. T("pump", s) \in Task /\ T("pump", s).op # "send"
    BY Zenon, OutMsgType DEF Ids, T
  <2>2. tasks' = tasks \/ tasks' = Append(tasks, T("pump", s))
    BY DEF Unblock, Post
  <2>. QED
    BY Zenon, <1>1, <2>1, <2>2, LaterOne
<1>3. \A r \in Streams : InLine(sent[r], wire[r], item[r], out_queue[r], Posts(tasks, r))
  BY ZenonT(30) DEF SendLine, Lines
<1>4. /\ InLine(sent[s], Append(wire[s], item[s]), NoItem, out_queue[s], Posts(tasks, s))
      /\ MsgsOf(Append(wire[s], item[s])) = MsgsOf(wire[s]) \cup MsgOf(item[s])
  <2>1. /\ InLine(sent[s], wire[s], item[s], out_queue[s], Posts(tasks, s))
        /\ wire[s] \in Seq(OutMsg) /\ item[s] \in OutMsg
    BY Zenon, <1>1, <1>3
  <2>. QED
    BY ZenonT(30), <2>1, LineUnblocked
<1>5. \A r \in Streams : InLine(sent[r], wire'[r], item'[r], out_queue'[r], Posts(tasks, r))
  BY Zenon, <1>1, <1>3, <1>4
<1>6. \A r \in Streams :
        /\ InLine(sent[r], wire'[r], item'[r], out_queue'[r], Posts(tasks', r))
        /\ MsgsOf(Posts(tasks', r)) = MsgsOf(Posts(tasks, r))
  BY ZenonT(30), <1>1, <1>2, <1>5, LaterLine
<1>7. Lines'
  BY ZenonT(30), <1>1, <1>6 DEF Lines
<1>. DEFINE X == MsgOf(item[s])
<1>8. \A m \in Msgs : flushed'[m] = IF m \in X THEN Append(flushed[m], "Ok") ELSE flushed[m]
  <2>1. CASE s \in out_inflight
    BY <2>1 DEF Unblock, Add, TypeOK, MsgOf
  <2>2. CASE s \notin out_inflight
    <3>1. flushed' = flushed /\ item[s].msg = NoMsg
      BY <2>2 DEF Unblock, InSession
    <3>2. X = {}
      BY ZenonT(30), <3>1, ConstantsAssumption DEF MsgOf
    <3>. QED
      BY ZenonT(30), <3>1, <3>2
  <2>. QED
    BY <2>1, <2>2
<1>9. \A m \in Msgs : m \in X => \E r \in Streams : m \in Waiting(r)
  BY DEF Waiting
<1>10. ASSUME NEW r \in Streams, NEW m \in Waiting(r)' PROVE m \in Waiting(r) /\ m \notin X
  <2>1. m \in MsgOf(item'[r]) \cup MsgsOf(out_queue[r]) \cup MsgsOf(Posts(tasks, r))
    BY ZenonT(30), <1>1, <1>6, <1>10 DEF Waiting
  <2>2. m \in Waiting(r)
    BY ZenonT(30), <1>1, <2>1, NoMsgOf DEF Waiting
  <2>3. ASSUME m \in X PROVE FALSE
    <3>1. r = s
      <4>1. m \in Waiting(s)
        BY ZenonT(30), <2>3 DEF Waiting
      <4>. QED
        BY ZenonT(30), <2>2, <4>1, WaitingSent, OneStream DEF SendLine
    <3>2. m \in MsgsOf(out_queue[s]) \cup MsgsOf(Posts(tasks, s))
      BY <1>1, <2>1, <3>1, NoMsgOf
    <3>3. Before(sent[s], MsgOf(item[s]), MsgsOf(out_queue[s]) \cup MsgsOf(Posts(tasks, s)))
      BY Zenon, <1>3 DEF InLine
    <3>. QED
      BY <2>3, <3>2, <3>3, Apart DEF SendLine
  <2>. QED
    BY <2>2, <2>3
<1>11. \A r \in Streams : \A m \in MsgsOf(wire'[r]) : m \in MsgsOf(wire[r]) \/ m \in X
  BY Zenon, <1>1, <1>4
<1>12. "Ok" \in Status
  BY DEF Status
<1>. HIDE DEF X
<1>. QED
  BY ZenonT(30), <1>1, <1>7, <1>8, <1>9, <1>10, <1>11, <1>12, SendStep
(* A posted task that sends nothing. *)
LEMMA PostLine ==
    ASSUME TypeOK, SendLine, NEW x \in Task, x.op # "send", tasks' = Append(tasks, x),
           UNCHANGED <<sent, wire, item, out_queue, flushed>>
    PROVE  SendLine'
<1>1. tasks \in Seq(Task) /\ Later(tasks)
  BY ZenonT(30), LaterOne DEF TypeOK
<1>2. \A s \in Streams :
         /\ InLine(sent[s], wire[s], item[s], out_queue[s], Posts(tasks', s))
         /\ MsgsOf(Posts(tasks', s)) = MsgsOf(Posts(tasks, s))
  BY ZenonT(30), <1>1, LaterLine DEF SendLine, Lines
<1>3. Lines'
  BY ZenonT(30), <1>2 DEF Lines
<1>4. \A s \in Streams : Waiting(s)' \subseteq Waiting(s)
  BY <1>2 DEF Waiting
<1>. QED
  BY <1>3, <1>4, QuietStep

(* StreamSend puts a new message at the end of the line. *)
LEMMA StreamSendLine ==
    ASSUME TypeOK, SendLine, NEW s \in Streams, NEW m \in Msgs, NEW c \in BOOLEAN,
           StreamSend(s, m, c)
    PROVE  SendLine'
<1>. DEFINE o == [msg |-> m, close |-> c]
            x == [op |-> "send", id |-> s, out |-> o]
<1>1. o \in OutMsg /\ o.msg = m /\ x \in Task /\ x.op = "send" /\ x.id = s /\ x.out = o
  BY ZenonT(30) DEF OutMsg, Task, Ids
<1>2. /\ tasks' = Append(tasks, x) /\ UNCHANGED <<wire, item, out_queue, flushed>>
      /\ \A r \in Streams : m \notin Elems(sent[r])
      /\ sent'[s] = Append(sent[s], m) /\ \A r \in Streams \ {s} : sent'[r] = sent[r]
  BY ZenonT(30) DEF StreamSend, Post, sendVars, TypeOK
<1>. HIDE DEF x, o
<1>3. \A r \in Streams : /\ Posts(tasks, r) \in Seq(OutMsg) /\ sent[r] \in Seq(Msgs)
                         /\ InLine(sent[r], wire[r], item[r], out_queue[r], Posts(tasks, r))
  BY ZenonT(30), PostsType DEF TypeOK, SendLine, Lines
<1>4. \A r \in Streams : Posts(tasks', r) = Append(Posts(tasks, r), IF r = s THEN o ELSE NoItem)
  <2>1. TAKE r \in Streams
  <2>2. tasks \in Seq(Task)
    BY Zenon DEF TypeOK
  <2>3. Posts(Append(tasks, x), r) =
           Append(Posts(tasks, r), IF x.op = "send" /\ x.id = r THEN x.out ELSE NoItem)
    BY Zenon, <1>1, <2>2, PostsAppend
  <2>. QED
    BY Zenon, <1>1, <1>2, <2>3
<1>5. /\ InLine(sent'[s], wire[s], item[s], out_queue[s], Posts(tasks', s))
      /\ MsgsOf(Posts(tasks', s)) = MsgsOf(Posts(tasks, s)) \cup {m}
  <2>1. o.msg \in Msgs
    BY <1>1
  <2>2. SentLine(sent[s], wire[s], item[s], out_queue[s], Posts(tasks, s), o)
    BY ZenonT(30), <1>1, <1>3, <2>1, LineSent
  <2>. QED
    BY Zenon, <1>1, <1>2, <1>4, <2>2 DEF SentLine
<1>6. ASSUME NEW r \in Streams \ {s}
      PROVE  /\ InLine(sent'[r], wire[r], item[r], out_queue[r], Posts(tasks', r))
             /\ MsgsOf(Posts(tasks', r)) = MsgsOf(Posts(tasks, r))
  <2>1. Posts(tasks', r) = Append(Posts(tasks, r), NoItem) /\ sent'[r] = sent[r]
    BY <1>2, <1>4
  <2>2. Ordered(sent[r], Posts(tasks, r)) /\ Before(sent[r], MsgsOf(Posts(tasks, r)), MsgOf(NoItem))
    BY ZenonT(30), <1>3, NoMsgOf DEF InLine, Before
  <2>3. /\ MsgsOf(Append(Posts(tasks, r), NoItem)) = MsgsOf(Posts(tasks, r)) \cup MsgOf(NoItem)
        /\ Ordered(sent[r], Append(Posts(tasks, r), NoItem))
    BY ZenonT(30), <1>3, <2>2, AddLast, OutMsgType
  <2>4. MsgsOf(Posts(tasks', r)) = MsgsOf(Posts(tasks, r)) /\ Ordered(sent[r], Posts(tasks', r))
    BY ZenonT(30), <2>1, <2>3, NoMsgOf
  <2>5. InLine(sent[r], wire[r], item[r], out_queue[r], Posts(tasks', r))
    BY ZenonT(30), <1>3, <2>4 DEF InLine
  <2>. QED
    BY ZenonT(30), <2>1, <2>4, <2>5
<1>7. Lines'
  BY ZenonT(30), <1>2, <1>5, <1>6 DEF Lines
<1>8. /\ Len(sent[s]) \in Nat /\ DOMAIN sent[s] = 1..Len(sent[s])
      /\ DOMAIN sent'[s] = 1..(Len(sent[s]) + 1)
      /\ \A k \in 1..Len(sent[s]) : sent'[s][k] = sent[s][k]
      /\ sent'[s][Len(sent[s]) + 1] = m
  <2>1. sent'[s] = Append(sent[s], m) /\ sent[s] \in Seq(Msgs) /\ m \in Msgs
    BY <1>1, <1>2, <1>3
  <2>. QED
    BY <2>1, AppendProperties
<1>9. \A k \in 1..(Len(sent[s]) + 1) : k \in 1..Len(sent[s]) \/ k = Len(sent[s]) + 1
  BY SMTT(30), <1>8
<1>10. \A r \in Streams : \A k \in DOMAIN sent[r] : sent[r][k] # m
  BY ZenonT(30), <1>2 DEF Elems
<1>11. SentOnce'
  <2>. SUFFICES ASSUME NEW r \in Streams, NEW u \in Streams,
                       NEW j \in DOMAIN sent'[r], NEW k \in DOMAIN sent'[u],
                       sent'[r][j] = sent'[u][k]
                PROVE  r = u /\ j = k
    BY ZenonT(30) DEF SentOnce
  <2>0. \A a, b \in Streams : \A i \in DOMAIN sent[a], n \in DOMAIN sent[b] :
           sent[a][i] = sent[b][n] => a = b /\ i = n
    BY DEF SentOnce, SendLine
  <2>1. \A v \in Streams : \A i \in DOMAIN sent'[v] :
           \/ i \in DOMAIN sent[v] /\ sent'[v][i] = sent[v][i]
           \/ v = s /\ i = Len(sent[s]) + 1 /\ sent'[v][i] = m
    BY ZenonT(30), <1>2, <1>8, <1>9
  <2>2. CASE j \in DOMAIN sent[r] /\ sent'[r][j] = sent[r][j]
    <3>1. k \in DOMAIN sent[u] /\ sent'[u][k] = sent[u][k]
      BY Zenon, <1>10, <2>1, <2>2
    <3>2. sent[r][j] = sent[u][k]
      BY ZenonT(30), <2>2, <3>1
    <3>. QED
      BY <2>0, <2>2, <3>1, <3>2
  <2>3. CASE r = s /\ j = Len(sent[s]) + 1 /\ sent'[r][j] = m
    BY ZenonT(30), <1>10, <2>1, <2>3
  <2>. QED
    BY ZenonT(30), <2>1, <2>2, <2>3
<1>12. Elems(sent[s]) \subseteq Elems(sent'[s]) /\ m \in Elems(sent'[s])
  <2>1. Len(sent[s]) + 1 \in DOMAIN sent'[s] /\ \A k \in DOMAIN sent[s] : k \in DOMAIN sent'[s]
    BY SMTT(30), <1>8
  <2>. QED
    BY ZenonT(30), <1>8, <2>1 DEF Elems
<1>13. /\ \A n \in Msgs : Len(flushed[n]) <= 1
       /\ \A n \in Msgs : (\A r \in Streams : n \notin Elems(sent[r])) => flushed[n] = <<>>
       /\ \A r \in Streams : /\ \A n \in Waiting(r) : flushed[n] = <<>>
                             /\ \A n \in MsgsOf(wire[r]) : flushed[n] = <<"Ok">>
  BY DEF SendLine, Answered
<1>14. \A r \in Streams : Waiting(r)' \subseteq Waiting(r) \cup {m}
  BY ZenonT(30), <1>2, <1>5, <1>6 DEF Waiting
<1>15. flushed[m] = <<>>
  BY ZenonT(30), <1>2, <1>13
<1>16. ASSUME NEW n \in Msgs, \A r \in Streams : n \notin Elems(sent'[r]) PROVE flushed[n] = <<>>
  <2>1. \A r \in Streams : n \notin Elems(sent[r])
    BY ZenonT(30), <1>2, <1>12, <1>16
  <2>. QED
    BY <1>13, <2>1
<1>17. \A r \in Streams : \A n \in Waiting(r)' : flushed[n] = <<>>
  BY ZenonT(30), <1>13, <1>14, <1>15
<1>18. Answered'
  BY <1>2, <1>13, <1>16, <1>17 DEF Answered
<1>. QED
  BY ZenonT(30), <1>7, <1>11, <1>18 DEF SendLine
=============================================================================
