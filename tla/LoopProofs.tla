----------------------------- MODULE LoopProofs -----------------------------
(***************************************************************************)
(* Proofs about the components in which threads of the application meet    *)
(* the loop thread.                                                        *)
(*                                                                         *)
(* The loop (Loop), for every set of tasks and of timers: it is a first-   *)
(* in, first-out executor, a timer ends once, and, for a loop that is      *)
(* started once, no wakeup is lost.  The shutdown of the server            *)
(* (ServerLifecycle), for any number of threads, connections and calls: a  *)
(* drain that is reported is complete, and no call is cut off before its   *)
(* grace period or without a word.  The blocking streams of the client     *)
(* (ClientStream), for any number of messages and writes: a stream is read *)
(* in order and to its end, and Finish tells the outcome.                  *)
(***************************************************************************)
EXTENDS Loop, ServerLifecycle, ClientStream, TLAPS

-----------------------------------------------------------------------------
(* Sequences.  These few facts stand in for the library of sequence          *)
(* theorems, which every obligation would otherwise carry along.             *)

(* The elements of a sequence. *)
LEMMA ElementOfSeq ==
    ASSUME NEW V, NEW q \in Seq(V), NEW n \in 1..Len(q)
    PROVE  q[n] \in V
OBVIOUS

(* The empty sequence is the one of length 0. *)
LEMMA EmptySeq ==
    ASSUME NEW V
    PROVE  /\ <<>> \in Seq(V) /\ Len(<<>>) = 0
           /\ \A q \in Seq(V) : (q = <<>>) <=> (Len(q) = 0)
OBVIOUS

(* A sequence is a function on 1..Len(q). *)
LEMMA LenProperties ==
    ASSUME NEW V, NEW q \in Seq(V)
    PROVE  /\ Len(q) \in Nat /\ DOMAIN q = 1..Len(q)
           /\ q \in [1..Len(q) -> V]
OBVIOUS

(* What Append returns. *)
LEMMA AppendProperties ==
    ASSUME NEW V, NEW q \in Seq(V), NEW e \in V
    PROVE  /\ Append(q, e) \in Seq(V) /\ Append(q, e) # <<>>
           /\ Len(q) \in Nat /\ DOMAIN q = 1..Len(q)
           /\ Len(Append(q, e)) = Len(q) + 1 /\ DOMAIN Append(q, e) = 1..(Len(q) + 1)
           /\ \A k \in 1..Len(q) : Append(q, e)[k] = q[k]
           /\ Append(q, e)[Len(q) + 1] = e
OBVIOUS

(* What Head and Tail return. *)
LEMMA HeadTailProperties ==
    ASSUME NEW V, NEW q \in Seq(V), q # <<>>
    PROVE  /\ Head(q) \in V /\ Head(q) = q[1]
           /\ Tail(q) \in Seq(V)
           /\ Len(q) \in Nat \ {0} /\ Len(Tail(q)) = Len(q) - 1
           /\ \A k \in 1..(Len(q) - 1) : Tail(q)[k] = q[k + 1]
OBVIOUS

(* What concatenation returns. *)
LEMMA ConcatProperties ==
    ASSUME NEW V, NEW p \in Seq(V), NEW q \in Seq(V)
    PROVE  /\ p \o q \in Seq(V)
           /\ Len(p) \in Nat /\ DOMAIN p = 1..Len(p)
           /\ Len(q) \in Nat /\ DOMAIN q = 1..Len(q)
           /\ Len(p \o q) = Len(p) + Len(q) /\ DOMAIN (p \o q) = 1..(Len(p) + Len(q))
           /\ \A k \in 1..(Len(p) + Len(q)) :
                 (p \o q)[k] = IF k <= Len(p) THEN p[k] ELSE q[k - Len(p)]
OBVIOUS

(* Sequences are equal if they agree everywhere. *)
LEMMA SeqEqual ==
    ASSUME NEW V, NEW p \in Seq(V), NEW q \in Seq(V), Len(p) = Len(q),
           \A k \in 1..Len(p) : p[k] = q[k]
    PROVE  p = q
OBVIOUS

(* Nothing is added by the empty sequence. *)
LEMMA ConcatEmptySeq ==
    ASSUME NEW V, NEW q \in Seq(V)
    PROVE  q \o <<>> = q /\ <<>> \o q = q
<1>1. <<>> \in Seq(V) /\ Len(<<>>) = 0
  OBVIOUS
<1>2. /\ q \o <<>> \in Seq(V) /\ Len(q \o <<>>) = Len(q)
      /\ \A k \in 1..Len(q) : (q \o <<>>)[k] = q[k]
  BY <1>1
<1>3. /\ <<>> \o q \in Seq(V) /\ Len(<<>> \o q) = Len(q)
      /\ \A k \in 1..Len(q) : (<<>> \o q)[k] = q[k]
  BY <1>1
<1>. QED
  BY <1>2, <1>3, SeqEqual

(* Concatenation is associative. *)
LEMMA ConcatAssociative ==
    ASSUME NEW V, NEW p \in Seq(V), NEW q \in Seq(V), NEW r \in Seq(V)
    PROVE  (p \o q) \o r = p \o (q \o r)
<1>. DEFINE a == (p \o q) \o r
            b == p \o (q \o r)
<1>1. /\ p \o q \in Seq(V) /\ q \o r \in Seq(V)
      /\ Len(p) \in Nat /\ Len(q) \in Nat /\ Len(r) \in Nat
      /\ Len(p \o q) = Len(p) + Len(q) /\ Len(q \o r) = Len(q) + Len(r)
  BY ConcatProperties
<1>2. /\ a \in Seq(V) /\ b \in Seq(V)
      /\ Len(a) = Len(p) + Len(q) + Len(r) /\ Len(b) = Len(a)
  BY <1>1, ConcatProperties
<1>3. \A k \in 1..Len(a) : a[k] = b[k]
  <2>. TAKE k \in 1..Len(a)
  <2>1. k \in 1..(Len(p) + Len(q) + Len(r))
    BY <1>2
  <2>2. a[k] = IF k <= Len(p) + Len(q) THEN (p \o q)[k] ELSE r[k - (Len(p) + Len(q))]
    BY <1>1, <2>1
  <2>3. b[k] = IF k <= Len(p) THEN p[k] ELSE (q \o r)[k - Len(p)]
    BY <1>1, <2>1
  <2>4. CASE k <= Len(p)
    BY <1>1, <2>1, <2>2, <2>3, <2>4
  <2>5. CASE k > Len(p) /\ k <= Len(p) + Len(q)
    <3>1. (p \o q)[k] = q[k - Len(p)]
      BY <1>1, <2>1, <2>5
    <3>2. (q \o r)[k - Len(p)] = q[k - Len(p)]
      BY <1>1, <2>1, <2>5
    <3>. QED
      BY <1>1, <2>1, <2>2, <2>3, <2>5, <3>1, <3>2
  <2>6. CASE k > Len(p) + Len(q)
    <3>1. (q \o r)[k - Len(p)] = r[k - Len(p) - Len(q)]
      BY <1>1, <2>1, <2>6
    <3>. QED
      BY <1>1, <2>1, <2>2, <2>3, <2>6, <3>1
  <2>. QED
    BY <1>1, <2>1, <2>4, <2>5, <2>6
<1>. HIDE DEF a, b
<1>4. a = b
  BY <1>2, <1>3, SeqEqual
<1>. QED
  BY <1>4 DEF a, b

(* Append adds a sequence of one element. *)
LEMMA AppendIsConcat ==
    ASSUME NEW V, NEW q \in Seq(V), NEW e \in V
    PROVE  Append(q, e) = q \o <<e>>
<1>1. <<e>> \in Seq(V) /\ Len(<<e>>) = 1 /\ <<e>>[1] = e
  OBVIOUS
<1>2. /\ q \o <<e>> \in Seq(V) /\ Len(q \o <<e>>) = Len(q) + 1
      /\ \A k \in 1..(Len(q) + 1) : (q \o <<e>>)[k] = Append(q, e)[k]
  BY <1>1
<1>3. Append(q, e) \in Seq(V) /\ Len(Append(q, e)) = Len(q) + 1
  OBVIOUS
<1>. QED
  BY <1>2, <1>3, SeqEqual

-----------------------------------------------------------------------------
Jobs == Tasks \cup {Quit}

-----------------------------------------------------------------------------
(* Types *)

(* The initial state has the types. *)
LEMMA InitType == ASSUME Init PROVE TypeOK
<1>1. starts \in 0..MaxStarts
  BY ConstantsAssumption DEF Init
<1>2. /\ timers \in [Timers -> {"unset", "refused", "armed", "left", "closing", "freed"}]
      /\ ended \in [Timers -> Seq({"fired", "cancelled", "quit"})]
      /\ post \in [Tasks -> {"idle", "pushed", "checked", "sent", "skipped"}]
  BY DEF Init
<1>3. <<>> \in Queue
  BY DEF Queue
<1>. QED
  BY Zenon, <1>1, <1>2, <1>3 DEF Init, TypeOK

(* Closing timers keeps the types of their variables. *)
LEMMA CloseTimersType ==
    ASSUME TypeOK, NEW S, NEW why \in {"fired", "cancelled", "quit"}, CloseTimers(S, why)
    PROVE  /\ timers' \in [Timers -> {"unset", "refused", "armed", "left", "closing", "freed"}]
           /\ ended' \in [Timers -> Seq({"fired", "cancelled", "quit"})]
BY DEF CloseTimers, TypeOK

(* Every step keeps the types. *)
LEMMA NextType == ASSUME TypeOK, [Next]_vars PROVE TypeOK'
<1>. USE ConstantsAssumption DEF TypeOK, Queue
<1>1. ASSUME NEW t \in Tasks, PostPush(t) PROVE TypeOK'
  BY <1>1 DEF PostPush, othersAtPost, timerVars
<1>2. ASSUME NEW t \in Tasks, PostCheck(t) PROVE TypeOK'
  BY <1>2 DEF PostCheck, othersAtPost, timerVars
<1>3. ASSUME NEW t \in Tasks, PostSend(t) PROVE TypeOK'
  <2>1. wake' \in BOOLEAN
    BY <1>3 DEF PostSend, AsyncSend
  <2>. QED
    BY <1>3, <2>1 DEF PostSend, othersAtPost, timerVars
<1>4. CASE Start
  <2>1. timers' \in [Timers -> {"unset", "refused", "armed", "left", "closing", "freed"}]
    BY <1>4 DEF Start
  <2>2. starts' \in 0..MaxStarts
    BY <1>4 DEF Start
  <2>. QED
    BY Zenon, <1>4, <2>1, <2>2 DEF Start
<1>5. CASE Top
  BY <1>5 DEF Top, othersAtLoop, timerVars
<1>6. CASE OnWake
  BY Zenon, <1>6 DEF OnWake, othersAtLoop, timerVars
<1>7. CASE OtherEvent
  BY <1>7 DEF OtherEvent, othersAtLoop, timerVars
<1>8. CASE DrainPending
  BY <1>8 DEF DrainPending, othersAtLoop, timerVars
<1>9. CASE RunTask
  <2>1. /\ timers' \in [Timers -> {"unset", "refused", "armed", "left", "closing", "freed"}]
        /\ ended' \in [Timers -> Seq({"fired", "cancelled", "quit"})]
        /\ open' \in BOOLEAN
    BY Zenon, <1>9, CloseTimersType DEF RunTask, CloseAllHandlesOnLoop, timerVars
  <2>. QED
    BY <1>9, <2>1 DEF RunTask, othersAtLoop
<1>10. CASE EndOfBatch
  BY <1>10 DEF EndOfBatch, othersAtLoop, timerVars
<1>11. CASE UvReturn
  BY <1>11 DEF UvReturn, othersAtLoop
<1>12. ASSUME NEW i \in Timers, SetTimer(i) PROVE TypeOK'
  BY <1>12 DEF SetTimer, othersAtTimer, othersAtLoop
<1>13. ASSUME NEW i \in Timers, CancelTimer(i) PROVE TypeOK'
  BY <1>13, CloseTimersType DEF CancelTimer, othersAtTimer, othersAtLoop
<1>14. ASSUME NEW i \in Timers, OnTimer(i) PROVE TypeOK'
  BY <1>14, CloseTimersType DEF OnTimer, othersAtTimer, othersAtLoop
<1>15. CASE Stopper
  <2>1. CASE StopWake
    <3>1. wake' \in BOOLEAN
      BY <2>1 DEF StopWake, AsyncSend
    <3>. QED
      BY <2>1, <3>1 DEF StopWake, othersAtStop, timerVars
  <2>2. CASE StopQueue \/ StopJoin \/ StopDetach
    <3>1. <<Quit>> \in Queue
      OBVIOUS
    <3>. QED
      BY Zenon, <2>2, <3>1 DEF StopQueue, StopJoin, StopDetach, othersAtStop, timerVars
  <2>. QED
    BY <1>15, <2>1, <2>2 DEF Stopper
<1>16. ASSUME NEW onLoop \in BOOLEAN, StopFlag(onLoop) PROVE TypeOK'
  BY Zenon, <1>16 DEF StopFlag, othersAtStop, timerVars
<1>17. CASE UNCHANGED vars
  BY <1>17 DEF vars, timerVars
<1>. QED
  BY Zenon, <1>1, <1>2, <1>3, <1>4, <1>5, <1>6, <1>7, <1>8, <1>9, <1>10, <1>11, <1>12, <1>13,
     <1>14, <1>15, <1>16, <1>17 DEF Next, LoopThread

(* The variables of the loop keep their types (urpc_loop.cpp, loop.h).       *)
THEOREM TypeCorrect == Spec => []TypeOK
BY InitType, NextType, PTL DEF Spec

-----------------------------------------------------------------------------
(* Timers *)

TimerInv == TypeOK /\ TimerEndsOnce

(* Closing timers that are in timers_ ends each of them once. *)
LEMMA CloseTimersOnce ==
    ASSUME TimerInv, NEW S \in SUBSET {i \in Timers : InMap(i)},
           NEW why \in {"fired", "cancelled", "quit"}, CloseTimers(S, why)
    PROVE  TimerEndsOnce'
<1>. SUFFICES ASSUME NEW i \in Timers
              PROVE  Len(ended'[i]) = IF timers'[i] \in {"closing", "freed"} THEN 1 ELSE 0
  BY DEF TimerEndsOnce
<1>1. CASE i \in S
  <2>1. Len(ended[i]) = 0 /\ ended[i] \in Seq({"fired", "cancelled", "quit"})
    BY <1>1 DEF TimerInv, TimerEndsOnce, InMap, TypeOK
  <2>2. ended'[i] = Append(ended[i], why) /\ timers'[i] = "closing"
    BY <1>1 DEF CloseTimers
  <2>. QED
    BY <2>1, <2>2
<1>2. CASE i \notin S
  BY <1>2 DEF CloseTimers, TimerInv, TimerEndsOnce
<1>. QED
  BY <1>1, <1>2

(* Every step keeps the rule of the timers. *)
LEMMA NextTimerInv == ASSUME TimerInv, [Next]_vars PROVE TimerInv'
<1>1. TypeOK'
  BY NextType DEF TimerInv
<1>. SUFFICES TimerEndsOnce'
  BY <1>1 DEF TimerInv
<1>2. ASSUME UNCHANGED timerVars PROVE TimerEndsOnce'
  BY <1>2 DEF TimerInv, TimerEndsOnce, timerVars
<1>3. CASE Start
  BY <1>3 DEF Start, TimerInv, TimerEndsOnce, TypeOK
<1>4. CASE RunTask
  <2>1. CASE Head(batch) = Quit
    BY <1>4, <2>1, CloseTimersOnce DEF RunTask, CloseAllHandlesOnLoop
  <2>2. CASE Head(batch) # Quit
    BY <1>2, <1>4, <2>2 DEF RunTask
  <2>. QED
    BY <2>1, <2>2
<1>5. CASE UvReturn
  BY <1>5 DEF UvReturn, TimerInv, TimerEndsOnce, TypeOK
<1>6. ASSUME NEW i \in Timers, SetTimer(i) PROVE TimerEndsOnce'
  BY <1>6 DEF SetTimer, TimerInv, TimerEndsOnce, TypeOK
<1>7. ASSUME NEW i \in Timers, CancelTimer(i) PROVE TimerEndsOnce'
  BY <1>7, CloseTimersOnce DEF CancelTimer
<1>8. ASSUME NEW i \in Timers, OnTimer(i) PROVE TimerEndsOnce'
  BY <1>8, CloseTimersOnce DEF OnTimer, InMap
<1>9. CASE \E t \in Tasks : PostPush(t) \/ PostCheck(t) \/ PostSend(t)
  BY <1>2, <1>9 DEF PostPush, PostCheck, PostSend, othersAtPost
<1>10. CASE Top \/ OnWake \/ OtherEvent \/ DrainPending \/ EndOfBatch
  BY <1>2, <1>10 DEF Top, OnWake, OtherEvent, DrainPending, EndOfBatch
<1>11. CASE Stopper \/ \E onLoop \in BOOLEAN : StopFlag(onLoop)
  BY <1>2, <1>11 DEF Stopper, StopQueue, StopWake, StopJoin, StopDetach, StopFlag, othersAtStop
<1>12. CASE UNCHANGED vars
  BY <1>2, <1>12 DEF vars
<1>. QED
  BY <1>3, <1>4, <1>5, <1>6, <1>7, <1>8, <1>9, <1>10, <1>11, <1>12 DEF Next, LoopThread

(* However tasks, timers and Stop interleave, a timer fires, is cancelled or *)
(* is closed by the quit task once (OnTimerTramp, CancelTimer,               *)
(* CloseAllHandlesOnLoop).                                                   *)
THEOREM TimerEndsOnceCorrect == Spec => []TimerEndsOnce
<1>1. ASSUME Init PROVE TimerInv
  BY Zenon, <1>1, InitType DEF Init, TimerInv, TimerEndsOnce
<1>2. TimerInv => TimerEndsOnce
  BY DEF TimerInv
<1>. QED
  BY <1>1, <1>2, NextTimerInv, PTL DEF Spec

-----------------------------------------------------------------------------
(* The loop is a first-in, first-out executor *)

QueueInv == TypeOK /\ (loop # "run" => batch = <<>>)

(* Only code that runs holds a batch. *)
LEMMA NextQueueInv == ASSUME QueueInv, [Next]_vars PROVE QueueInv'
<1>1. TypeOK'
  BY NextType DEF QueueInv
<1>. SUFFICES (loop # "run" => batch = <<>>)'
  BY <1>1 DEF QueueInv
<1>. USE DEF QueueInv
<1>2. CASE \E t \in Tasks : PostPush(t) \/ PostCheck(t) \/ PostSend(t)
  BY <1>2 DEF PostPush, PostCheck, PostSend, othersAtPost
<1>3. CASE Start
  BY <1>3 DEF Start
<1>4. CASE LoopThread \/ OtherEvent
  <2>1. CASE DrainPending \/ RunTask
    BY <2>1 DEF DrainPending, RunTask
  <2>2. CASE Top \/ OnWake \/ OtherEvent \/ EndOfBatch \/ UvReturn
    BY <2>2 DEF Top, OnWake, OtherEvent, EndOfBatch, UvReturn, InUvRun
  <2>. QED
    BY <1>4, <2>1, <2>2 DEF LoopThread
<1>5. CASE \E i \in Timers : SetTimer(i) \/ CancelTimer(i) \/ OnTimer(i)
  BY <1>5 DEF InUvRun, SetTimer, CancelTimer, OnTimer, othersAtTimer
<1>6. CASE Stopper \/ \E onLoop \in BOOLEAN : StopFlag(onLoop)
  BY <1>6 DEF Stopper, StopQueue, StopWake, StopJoin, StopDetach, StopFlag, othersAtStop
<1>7. CASE UNCHANGED vars
  BY <1>7 DEF vars
<1>. QED
  BY <1>2, <1>3, <1>4, <1>5, <1>6, <1>7 DEF Next

(* A task appended to pending_ is appended to the whole queue. *)
LEMMA ConcatAppend ==
    ASSUME NEW S, NEW p \in Seq(S), NEW q \in Seq(S), NEW e \in S
    PROVE  p \o Append(q, e) = Append(p \o q, e)
<1>1. /\ <<e>> \in Seq(S) /\ p \o q \in Seq(S)
  BY ConcatProperties
<1>2. Append(q, e) = q \o <<e>> /\ Append(p \o q, e) = (p \o q) \o <<e>>
  BY <1>1, AppendIsConcat
<1>. QED
  BY <1>1, <1>2, ConcatAssociative

(* The first task of the batch is the first of the whole queue. *)
LEMMA ConcatHeadTail ==
    ASSUME NEW S, NEW p \in Seq(S), NEW q \in Seq(S), p # <<>>
    PROVE  /\ p \o q # <<>>
           /\ Head(p \o q) = Head(p)
           /\ Tail(p \o q) = Tail(p) \o q
<1>1. /\ p \o q \in Seq(S) /\ Len(p \o q) = Len(p) + Len(q)
      /\ \A i \in 1..Len(p) + Len(q) : (p \o q)[i] = IF i <= Len(p) THEN p[i] ELSE q[i - Len(p)]
  BY ConcatProperties
<1>2. Len(p) \in Nat /\ Len(p) > 0 /\ Len(q) \in Nat
  BY EmptySeq, LenProperties
<1>3. p \o q # <<>> /\ Head(p \o q) = Head(p)
  BY <1>1, <1>2
<1>4. /\ Tail(p) \in Seq(S) /\ Len(Tail(p)) = Len(p) - 1
      /\ \A i \in 1..Len(Tail(p)) : Tail(p)[i] = p[i + 1]
  BY HeadTailProperties
<1>5. /\ Tail(p \o q) \in Seq(S) /\ Len(Tail(p \o q)) = Len(p) + Len(q) - 1
      /\ \A i \in 1..Len(Tail(p \o q)) : Tail(p \o q)[i] = (p \o q)[i + 1]
  BY <1>1, <1>3, HeadTailProperties
<1>6. /\ Tail(p) \o q \in Seq(S) /\ Len(Tail(p) \o q) = Len(p) - 1 + Len(q)
      /\ \A i \in 1..Len(p) - 1 + Len(q) :
            (Tail(p) \o q)[i] = IF i <= Len(p) - 1 THEN Tail(p)[i] ELSE q[i - (Len(p) - 1)]
  BY <1>4, ConcatProperties
<1>7. \A i \in 1..Len(p) + Len(q) - 1 : Tail(p \o q)[i] = (Tail(p) \o q)[i]
  <2>. TAKE i \in 1..Len(p) + Len(q) - 1
  <2>1. Tail(p \o q)[i] = IF i + 1 <= Len(p) THEN p[i + 1] ELSE q[i + 1 - Len(p)]
    BY <1>1, <1>2, <1>5
  <2>2. (Tail(p) \o q)[i] = IF i <= Len(p) - 1 THEN p[i + 1] ELSE q[i - (Len(p) - 1)]
    BY <1>2, <1>4, <1>6
  <2>. QED
    BY <1>2, <2>1, <2>2
<1>. QED
  BY <1>2, <1>3, <1>5, <1>6, <1>7, SeqEqual

(* Stop keeps the batch and puts its task in the place of pending_. *)
LEMMA ConcatPrefix ==
    ASSUME NEW S, NEW p \in Seq(S), NEW q \in Seq(S), NEW e \in S
    PROVE  /\ Len(p) \in 0..Len(p \o q)
           /\ p \o <<e>> = Append(SubSeq(p \o q, 1, Len(p)), e)
<1>1. /\ p \o q \in Seq(S) /\ Len(p \o q) = Len(p) + Len(q)
      /\ \A i \in 1..Len(p) + Len(q) : (p \o q)[i] = IF i <= Len(p) THEN p[i] ELSE q[i - Len(p)]
  BY ConcatProperties
<1>2. Len(p) \in Nat /\ Len(q) \in Nat /\ \A i \in 1..Len(p) : p[i] \in S
  BY LenProperties, ElementOfSeq
<1>3. /\ SubSeq(p \o q, 1, Len(p)) \in Seq(S)
      /\ Len(SubSeq(p \o q, 1, Len(p))) = Len(p)
      /\ \A i \in 1..Len(p) : SubSeq(p \o q, 1, Len(p))[i] = p[i]
  <2>. DEFINE s == p \o q
  <2>1. \A i \in 1..Len(p) : s[i] \in S /\ s[i] = p[i]
    BY <1>1, <1>2
  <2>. HIDE DEF s
  <2>2. SubSeq(s, 1, Len(p)) \in Seq(S)
    BY <1>2, <2>1
  <2>3. Len(SubSeq(s, 1, Len(p))) = Len(p)
    BY <1>2, <2>1
  <2>4. \A i \in 1..Len(p) : SubSeq(s, 1, Len(p))[i] = p[i]
    BY <1>2, <2>1
  <2>. QED
    BY <2>2, <2>3, <2>4 DEF s
<1>4. SubSeq(p \o q, 1, Len(p)) = p
  BY <1>3, SeqEqual
<1>. QED
  BY <1>1, <1>2, <1>4, AppendIsConcat

(* Every step is one of the executor's, or leaves its variables alone. *)
LEMMA NextExecutor ==
    ASSUME QueueInv, [Next]_vars PROVE [Executor!Next]_Executor!vars
<1>. USE DEF QueueInv
<1>0. batch \in Seq(Jobs) /\ pending \in Seq(Jobs)
  BY DEF TypeOK, Queue, Jobs
<1>1. ASSUME UNCHANGED <<batch, pending, ran>> PROVE UNCHANGED Executor!vars
  BY <1>1 DEF Executor!vars
<1>2. ASSUME NEW t \in Tasks, PostPush(t) PROVE Executor!Next
  <2>1. batch' \o pending' = Append(batch \o pending, t) /\ ran' = ran
    BY <1>0, <1>2, ConcatAppend DEF PostPush, othersAtPost, Jobs
  <2>. QED
    BY <2>1 DEF Executor!Next, Executor!Submit
<1>3. CASE DrainPending
  <2>1. batch' \o pending' = pending /\ batch \o pending = pending /\ ran' = ran
    BY <1>0, <1>3, ConcatEmptySeq DEF DrainPending
  <2>. QED
    BY <2>1 DEF Executor!vars
<1>4. CASE RunTask
  <2>1. /\ batch' \o pending' = Tail(batch \o pending) /\ batch \o pending # <<>>
        /\ ran' = Append(ran, Head(batch \o pending))
    BY ZenonT(30), <1>0, <1>4, ConcatHeadTail DEF RunTask
  <2>. QED
    BY <2>1 DEF Executor!Next, Executor!Run
<1>5. CASE StopQueue
  <2>1. /\ Len(batch) \in 0..Len(batch \o pending)
        /\ batch \o <<Quit>> = Append(SubSeq(batch \o pending, 1, Len(batch)), Quit)
    BY <1>0, ConcatPrefix DEF Jobs
  <2>2. batch' \o pending' = batch \o <<Quit>> /\ ran' = ran
    BY <1>5 DEF StopQueue, othersAtStop
  <2>3. Executor!Replace(Len(batch), Quit)
    BY <2>1, <2>2 DEF Executor!Replace
  <2>. QED
    BY <2>1, <2>3 DEF Executor!Next
<1>6. CASE \E t \in Tasks : PostCheck(t) \/ PostSend(t)
  BY <1>1, <1>6 DEF PostCheck, PostSend, othersAtPost
<1>7. CASE Start
  BY <1>1, <1>7 DEF Start
<1>8. CASE Top \/ OnWake \/ OtherEvent \/ EndOfBatch \/ UvReturn
  BY <1>1, <1>8 DEF Top, OnWake, OtherEvent, EndOfBatch, UvReturn
<1>9. CASE \E i \in Timers : SetTimer(i) \/ CancelTimer(i) \/ OnTimer(i)
  BY <1>1, <1>9 DEF SetTimer, CancelTimer, OnTimer, othersAtTimer
<1>10. CASE StopWake \/ StopJoin \/ StopDetach \/ \E onLoop \in BOOLEAN : StopFlag(onLoop)
  BY <1>1, <1>10 DEF StopWake, StopJoin, StopDetach, StopFlag, othersAtStop
<1>11. CASE UNCHANGED vars
  BY <1>1, <1>11 DEF vars
<1>. QED
  BY <1>2, <1>3, <1>4, <1>5, <1>6, <1>7, <1>8, <1>9, <1>10, <1>11
     DEF Next, LoopThread, Stopper

(* Whatever the threads that post, start and stop do, the loop runs the jobs *)
(* posted to it first in, first out, each once (Post, DrainPending, Stop).   *)
THEOREM RunsInOrderCorrect == Spec => RunsInOrder
<1>1. ASSUME Init PROVE QueueInv
  BY Zenon, <1>1, InitType DEF Init, QueueInv
<1>2. ASSUME Init PROVE Executor!Init
  BY <1>2, ConcatEmptySeq DEF Init, Executor!Init
<1>. QED
  BY <1>1, <1>2, NextQueueInv, NextExecutor, PTL DEF Spec, RunsInOrder, Executor!Spec

-----------------------------------------------------------------------------
(* No wakeup is lost *)

(* What Append adds.                                                         *)
LEMMA InAppend ==
    ASSUME NEW S, NEW q \in Seq(S), NEW e \in S, NEW t, In(t, Append(q, e))
    PROVE  t = e \/ In(t, q)
  BY AppendProperties DEF In

(* What Tail keeps.                                                          *)
LEMMA InTail ==
    ASSUME NEW S, NEW q \in Seq(S), q # <<>>, NEW t, In(t, Tail(q))
    PROVE  In(t, q)
<1>1. /\ Tail(q) \in Seq(S) /\ Len(Tail(q)) = Len(q) - 1
      /\ \A i \in 1..Len(Tail(q)) : Tail(q)[i] = q[i + 1]
  BY HeadTailProperties
<1>. QED
  BY <1>1, LenProperties DEF In

(* The head is in its queue.                                                 *)
LEMMA InHead ==
    ASSUME NEW S, NEW q \in Seq(S), q # <<>>
    PROVE  In(Head(q), q)
  BY EmptySeq, LenProperties DEF In

(* What short queues hold.                                                   *)
LEMMA InSmall == \A t, e : ~In(t, <<>>) /\ (In(t, <<e>>) => t = e)
  BY SMTT(30) DEF In

(* What Stop has done, and who may still be waiting for a wakeup. *)
StopInv ==
    /\ starts = 0 => ~running /\ stop = "idle"
    /\ running => stop = "idle"
    /\ stop = "idle" => running \/ starts = 0
    /\ stop \in {"idle", "flagged"} =>
          /\ starts > 0 => open
          /\ ~In(Quit, batch) /\ ~In(Quit, pending)

WakeInv ==
    /\ NoLostWakeup
    /\ starts = 0 => \A t \in Tasks : post[t] \notin {"checked", "sent"}
    /\ stop \notin {"idle", "flagged"} =>
          \A t \in Tasks : In(t, pending) => post[t] \notin {"checked", "sent"}

(* With one Start: until Stop has queued its task, the handle is open and    *)
(* that task is nowhere.                                                     *)
LEMMA NextStopInv ==
    ASSUME MaxStarts <= 1, TypeOK, StopInv, [Next]_vars PROVE StopInv'
<1>. USE DEF StopInv
<1>0. /\ batch \in Seq(Jobs) /\ pending \in Seq(Jobs) /\ starts \in Nat
      /\ MaxStarts \in Nat /\ starts <= MaxStarts
  BY ConstantsAssumption DEF TypeOK, Queue, Jobs
<1>2. ASSUME NEW t \in Tasks, PostPush(t) PROVE StopInv'
  <2>1. ~In(Quit, pending) => ~In(Quit, pending')
    BY <1>0, <1>2, InAppend, ConstantsAssumption DEF PostPush, Jobs
  <2>. QED
    BY <1>2, <2>1 DEF PostPush, othersAtPost
<1>3. CASE \E t \in Tasks : PostCheck(t) \/ PostSend(t)
  BY <1>3 DEF PostCheck, PostSend, othersAtPost
<1>4. CASE Start
  <2>1. starts = 0
    BY <1>0, <1>4 DEF Start
  <2>. QED
    BY <1>0, <1>4, <2>1 DEF Start
<1>5. CASE DrainPending
  BY Zenon, <1>5, InSmall DEF DrainPending, othersAtLoop
<1>6. CASE RunTask
  <2>1. In(Quit, batch') => In(Quit, batch)
    BY <1>0, <1>6, InTail DEF RunTask
  <2>2. ~In(Quit, batch) => open' = open
    BY <1>0, <1>6, InHead DEF RunTask
  <2>. QED
    BY <1>6, <2>1, <2>2 DEF RunTask, othersAtLoop
<1>7. CASE Top \/ OnWake \/ OtherEvent \/ EndOfBatch \/ UvReturn
  BY <1>7 DEF Top, OnWake, OtherEvent, EndOfBatch, UvReturn, othersAtLoop
<1>8. CASE \E i \in Timers : SetTimer(i) \/ CancelTimer(i) \/ OnTimer(i)
  BY <1>8 DEF SetTimer, CancelTimer, OnTimer, othersAtTimer, othersAtLoop
<1>9. CASE StopQueue \/ StopWake \/ StopJoin \/ StopDetach
  BY <1>9 DEF StopQueue, StopWake, StopJoin, StopDetach, othersAtStop
<1>10. CASE \E onLoop \in BOOLEAN : StopFlag(onLoop)
  BY <1>10 DEF StopFlag, othersAtStop
<1>11. CASE UNCHANGED vars
  BY ZenonT(30), <1>11 DEF vars
<1>. QED
  BY <1>2, <1>3, <1>4, <1>5, <1>6, <1>7, <1>8, <1>9, <1>10, <1>11
     DEF Next, LoopThread, Stopper

(* No step of a loop started once loses a wakeup.                            *)
LEMMA NextWakeInv ==
    ASSUME MaxStarts <= 1, TypeOK, StopInv, WakeInv, [Next]_vars PROVE WakeInv'
<1>. USE DEF WakeInv, NoLostWakeup
<1>0. /\ batch \in Seq(Jobs) /\ pending \in Seq(Jobs) /\ starts \in Nat
      /\ MaxStarts \in Nat /\ starts <= MaxStarts
  BY ConstantsAssumption DEF TypeOK, Queue, Jobs
<1>1. DOMAIN post = Tasks
  BY DEF TypeOK
<1>2. ASSUME NEW t \in Tasks, PostPush(t) PROVE WakeInv'
  <2>1. \A u \in Tasks : In(u, pending') => u = t \/ In(u, pending)
    BY <1>0, <1>2, InAppend DEF PostPush, Jobs
  <2>2. \A u \in Tasks : post'[u] = IF u = t THEN "pushed" ELSE post[u]
    BY <1>1, <1>2 DEF PostPush
  <2>. QED
    BY <1>2, <2>1, <2>2 DEF PostPush, othersAtPost
<1>3. ASSUME NEW t \in Tasks, PostCheck(t) PROVE WakeInv'
  <2>1. \A u \in Tasks : post'[u] = IF u = t THEN IF running THEN "checked" ELSE "skipped"
                                             ELSE post[u]
    BY <1>1, <1>3 DEF PostCheck
  <2>. QED
    BY <1>3, <2>1 DEF PostCheck, othersAtPost, StopInv
<1>4. ASSUME NEW t \in Tasks, PostSend(t) PROVE WakeInv'
  <2>1. \A u \in Tasks : post'[u] = IF u = t THEN "sent" ELSE post[u]
    BY <1>1, <1>4 DEF PostSend
  <2>2. post[t] = "checked" /\ starts # 0 /\ (wake \/ open => wake')
    BY Zenon, <1>4 DEF PostSend, AsyncSend
  <2>3. In(t, pending) => wake'
    BY <1>0, <2>2 DEF StopInv
  <2>. QED
    BY <1>4, <2>1, <2>2, <2>3 DEF PostSend, othersAtPost
<1>5. CASE Start
  <2>1. starts = 0
    BY <1>0, <1>5 DEF Start
  <2>. QED
    BY <1>5, <2>1 DEF Start, StopInv
<1>6. CASE DrainPending
  BY Zenon, <1>6, InSmall DEF DrainPending, othersAtLoop
<1>7. CASE Top \/ OnWake \/ OtherEvent \/ RunTask \/ EndOfBatch \/ UvReturn
  <2>1. CASE Top \/ UvReturn
    BY <2>1 DEF Top, UvReturn, othersAtLoop, InUvRun
  <2>2. CASE OnWake
    BY <2>2 DEF OnWake, othersAtLoop, InUvRun
  <2>3. CASE OtherEvent \/ RunTask
    BY <2>3 DEF OtherEvent, RunTask, othersAtLoop, InUvRun
  <2>4. CASE EndOfBatch
    BY <2>4 DEF EndOfBatch, othersAtLoop
  <2>. QED
    BY Zenon, <1>7, <2>1, <2>2, <2>3, <2>4
<1>8. CASE \E i \in Timers : SetTimer(i) \/ CancelTimer(i) \/ OnTimer(i)
  BY <1>8 DEF SetTimer, CancelTimer, OnTimer, othersAtTimer, othersAtLoop, InUvRun
<1>9. CASE StopQueue
  BY <1>9, InSmall, ConstantsAssumption DEF StopQueue, othersAtStop
<1>10. CASE StopWake \/ StopJoin \/ StopDetach \/ \E onLoop \in BOOLEAN : StopFlag(onLoop)
  <2>1. CASE StopWake
    BY <2>1 DEF StopWake, othersAtStop, AsyncSend, StopInv
  <2>2. CASE StopJoin
    BY <2>2 DEF StopJoin, othersAtStop, StopInv
  <2>3. CASE StopDetach
    BY <2>3 DEF StopDetach, othersAtStop, StopInv
  <2>4. ASSUME NEW onLoop \in BOOLEAN, StopFlag(onLoop) PROVE WakeInv'
    BY <2>4 DEF StopFlag, othersAtStop, StopInv
  <2>. QED
    BY Zenon, <1>10, <2>1, <2>2, <2>3, <2>4
<1>11. CASE UNCHANGED vars
  BY <1>11 DEF vars
<1>. QED
  BY <1>2, <1>3, <1>4, <1>5, <1>6, <1>7, <1>8, <1>9, <1>10, <1>11
     DEF Next, LoopThread, Stopper

(* A loop that is started once never loses the wakeup of a task: Post's      *)
(* uv_async_send, the running_ test before it and Stop's overwriting of      *)
(* pending_ cannot leave a task queued that nobody will look for.            *)
THEOREM NoLostWakeupCorrect == ASSUME MaxStarts <= 1 PROVE Spec => []NoLostWakeup
<1>1. ASSUME Init PROVE StopInv /\ WakeInv
  <2>1. starts = 0 /\ ~(starts > 0) /\ ~running /\ stop = "idle"
    BY <1>1 DEF Init
  <2>2. ~In(Quit, batch) /\ \A u : ~In(u, pending)
    BY Zenon, <1>1, InSmall DEF Init
  <2>3. \A t \in Tasks : post[t] \notin {"checked", "sent"}
    BY Zenon, <1>1 DEF Init
  <2>. QED
    BY <2>1, <2>2, <2>3 DEF StopInv, WakeInv, NoLostWakeup
<1>2. TypeOK /\ StopInv /\ WakeInv /\ [Next]_vars => TypeOK' /\ StopInv' /\ WakeInv'
  BY NextType, NextStopInv, NextWakeInv
<1>3. WakeInv => NoLostWakeup
  BY DEF WakeInv
<1>. QED
  BY <1>1, <1>2, <1>3, InitType, PTL DEF Spec

-----------------------------------------------------------------------------
(* The shutdown of the server (ServerLifecycle) *)

\* The task of Start is posted once, and runs once.
StartOnce ==
    /\ \A i \in 1..Len(tasks) : tasks[i] = "start" => start = "posted"
    /\ \A i, j \in 1..Len(tasks) : tasks[i] = "start" /\ tasks[j] = "start" => i = j

\* The listener's state, which the flags and the connections follow.
ListenerInv ==
    /\ start # "done" => listener = "none"
    /\ listening <=> listener = "open"
    /\ conns # {} => listener = "open"
    /\ grace # "off" => listener # "none"
    /\ drained <=> listener = "closed"

(* The inductive invariant.                                                 *)
DrainInv ==
    /\ tasks \in Seq({"start", "shutdown"})
    /\ start \in {"no", "posted", "done"}
    /\ listener \in {"none", "open", "closing", "closed"}
    /\ listening \in BOOLEAN /\ drained \in BOOLEAN
    /\ StartOnce
    /\ ListenerInv

-----------------------------------------------------------------------------
(* The task queue *)

(* Posting a Shutdown, or the one Start.                                    *)
LEMMA PostOnce ==
    ASSUME DrainInv, NEW t \in {"start", "shutdown"}, tasks' = Append(tasks, t),
           start' \in {"no", "posted", "done"},
           t = "start" => start = "no" /\ start' = "posted",
           t # "start" => start' = start
    PROVE  tasks' \in Seq({"start", "shutdown"}) /\ StartOnce'
<1>1. /\ tasks' \in Seq({"start", "shutdown"})
      /\ Len(tasks') = Len(tasks) + 1 /\ Len(tasks) \in Nat
      /\ \A i \in 1..Len(tasks) : tasks'[i] = tasks[i]
      /\ tasks'[Len(tasks) + 1] = t
  BY AppendProperties, LenProperties DEF DrainInv
<1>2. \A i \in 1..Len(tasks') : i \in 1..Len(tasks) \/ i = Len(tasks) + 1
  BY <1>1
<1>3. t = "start" => \A i \in 1..Len(tasks) : tasks[i] # "start"
  BY DEF DrainInv, StartOnce
<1>4. \A i \in 1..Len(tasks') : tasks'[i] = "start" => start' = "posted"
  BY <1>1, <1>2, <1>3 DEF DrainInv, StartOnce
<1>5. \A i, j \in 1..Len(tasks') : tasks'[i] = "start" /\ tasks'[j] = "start" => i = j
  BY <1>1, <1>2, <1>3 DEF DrainInv, StartOnce
<1> QED
  BY <1>1, <1>4, <1>5 DEF StartOnce

(* Running a task: once that of Start has run there is no second one.       *)
LEMMA TakeOnce ==
    ASSUME DrainInv, NEW t, IsNext(t), t = "start" \/ start' = start
    PROVE  /\ tasks' \in Seq({"start", "shutdown"}) /\ StartOnce'
           /\ t = "start" => start = "posted"
<1>1. /\ tasks # <<>> /\ Head(tasks) = t /\ tasks' = Tail(tasks)
  BY DEF IsNext
<1>2. /\ tasks' \in Seq({"start", "shutdown"})
      /\ Len(tasks') = Len(tasks) - 1 /\ Len(tasks) \in Nat \ {0}
      /\ \A i \in 1..Len(tasks') : tasks'[i] = tasks[i + 1]
  BY <1>1, HeadTailProperties, EmptySeq DEF DrainInv
<1>3. tasks[1] = t /\ 1 \in 1..Len(tasks)
  BY <1>1, <1>2 DEF DrainInv
<1>4. \A i \in 1..Len(tasks') : i + 1 \in 1..Len(tasks) /\ i + 1 # 1
  BY <1>2
<1>5. t = "start" => \A i \in 1..Len(tasks') : tasks'[i] # "start"
  BY <1>2, <1>3, <1>4 DEF DrainInv, StartOnce
<1>6. \A i \in 1..Len(tasks') : tasks'[i] = "start" => start' = "posted"
  BY <1>2, <1>4, <1>5 DEF DrainInv, StartOnce
<1>7. ASSUME NEW i \in 1..Len(tasks'), NEW j \in 1..Len(tasks'),
             tasks'[i] = "start", tasks'[j] = "start"
      PROVE  i = j
  <2>1. i + 1 = j + 1
    BY <1>2, <1>4, <1>7 DEF DrainInv, StartOnce
  <2> QED
    BY <2>1
<1>8. t = "start" => start = "posted"
  BY <1>3 DEF DrainInv, StartOnce
<1> QED
  BY <1>2, <1>6, <1>7, <1>8 DEF StartOnce

-----------------------------------------------------------------------------
(* The drain *)

(* Every step keeps the invariant; one case for each action.                *)
LEMMA NextDrain ==
    ASSUME DrainInv, [ServerNext]_serverVars
    PROVE  DrainInv'
<1> USE DEF connVars
<1>1. CASE UNCHANGED serverVars
  BY <1>1 DEF serverVars, DrainInv, StartOnce, ListenerInv
<1>2. CASE StartServer
  <2>1. tasks' \in Seq({"start", "shutdown"}) /\ StartOnce'
    BY <1>2, PostOnce DEF StartServer
  <2> QED
    BY <1>2, <2>1 DEF StartServer, DrainInv, ListenerInv
<1>3. ASSUME NEW u \in Users, Shutdown(u)
      PROVE  DrainInv'
  <2>1. tasks' \in Seq({"start", "shutdown"}) /\ StartOnce'
    <3>1. CASE tasks' = Append(tasks, "shutdown")
      BY <1>3, <3>1, PostOnce DEF Shutdown, DrainInv
    <3>2. CASE tasks' = tasks
      BY <1>3, <3>2 DEF Shutdown, DrainInv, StartOnce
    <3> QED
      BY <1>3, <3>1, <3>2 DEF Shutdown
  <2> QED
    BY <1>3, <2>1 DEF Shutdown, DrainInv, ListenerInv
<1>4. ASSUME NEW u \in Users, Wait(u) \/ Return(u)
      PROVE  DrainInv'
  BY <1>4 DEF Wait, Return, DrainInv, StartOnce, ListenerInv
<1>5. ASSUME NEW ok \in BOOLEAN, RunStart(ok)
      PROVE  DrainInv'
  <2>1. tasks' \in Seq({"start", "shutdown"}) /\ StartOnce' /\ start = "posted"
    BY <1>5, TakeOnce DEF RunStart
  <2>2. listener = "none" /\ conns = {} /\ grace = "off" /\ ~drained
    BY <2>1 DEF DrainInv, ListenerInv
  <2> QED
    BY <1>5, <2>1, <2>2 DEF RunStart, DrainInv, ListenerInv
<1>6. CASE RunShutdown
  <2>1. tasks' \in Seq({"start", "shutdown"}) /\ StartOnce'
    BY <1>6, TakeOnce DEF RunShutdown
  <2>2. ListenerInv'
    BY <1>6 DEF RunShutdown, CloseListener, DrainInv, ListenerInv
  <2> QED
    BY Zenon, <1>6, <2>1, <2>2 DEF RunShutdown, CloseListener, DrainInv
<1>7. CASE ListenerClosed
  BY <1>7 DEF ListenerClosed, DrainInv, StartOnce, ListenerInv
<1>8. ASSUME NEW k \in Conns, Accept(k) \/ NewCall(k)
      PROVE  DrainInv'
  <2>1. /\ UNCHANGED <<tasks, start, listener, listening, drained, grace>>
        /\ conns' = conns \/ listener = "open"
    BY Zenon, <1>8 DEF Accept, NewCall
  <2>2. StartOnce'
    BY Zenon, <2>1 DEF DrainInv, StartOnce
  <2>3. ListenerInv'
    BY Zenon, <2>1 DEF DrainInv, ListenerInv
  <2> QED
    BY Zenon, <2>1, <2>2, <2>3 DEF DrainInv
<1>9. ASSUME NEW k \in Conns, EndCall(k) \/ ConnLost(k)
      PROVE  DrainInv'
  <2>1. PICK left \in SUBSET conns : OnConnIdle(left)
    BY <1>9 DEF EndCall, ConnLost
  <2>2. UNCHANGED <<start, tasks, grace, drained>>
    BY <1>9 DEF EndCall, ConnLost
  <2>3. conns # {}
    BY <1>9 DEF EndCall, ConnLost
  <2>4. CASE left = {} /\ CloseListener
    BY Zenon, <2>1, <2>2, <2>3, <2>4 DEF OnConnIdle, CloseListener, DrainInv, StartOnce, ListenerInv
  <2>5. CASE UNCHANGED <<listening, listener>>
    BY <2>1, <2>2, <2>3, <2>5 DEF OnConnIdle, DrainInv, StartOnce, ListenerInv
  <2> QED
    BY <2>1, <2>4, <2>5 DEF OnConnIdle
<1>10. CASE FinishShutdown
  <2>1. ListenerInv'
    BY <1>10 DEF FinishShutdown, CloseListener, DrainInv, ListenerInv
  <2> QED
    BY Zenon, <1>10, <2>1 DEF FinishShutdown, CloseListener, DrainInv, StartOnce
<1> QED
  BY <1>1, <1>2, <1>3, <1>4, <1>5, <1>6, <1>7, <1>8, <1>9, <1>10 DEF ServerNext, LoopEvents

(* When Shutdown or Wait lets a thread go, every connection is closed and   *)
(* the listener's close callback has run.                                   *)
THEOREM DrainedMeansClosedCorrect == ServerSpec => []DrainedMeansClosed
<1>1. ASSUME ServerInit
      PROVE  DrainInv
  <2>1. tasks \in Seq({"start", "shutdown"}) /\ Len(tasks) = 0
    BY <1>1, EmptySeq DEF ServerInit
  <2>2. StartOnce
    BY <2>1 DEF StartOnce
  <2> QED
    BY Zenon, <1>1, <2>1, <2>2 DEF ServerInit, DrainInv, ListenerInv
<1>2. DrainInv => DrainedMeansClosed
  BY DEF DrainInv, ListenerInv, DrainedMeansClosed
<1> QED
  BY <1>1, <1>2, NextDrain, PTL DEF ServerSpec

-----------------------------------------------------------------------------
(* The calls *)

(* The shutdown task, a lost client and the grace timer are all that close  *)
(* a connection: the first takes idle ones, the others tell the calls.      *)
THEOREM NoCallFreedSilentlyCorrect == ServerSpec => NoCallFreedSilently
<1>1. ASSUME [ServerNext]_serverVars
      PROVE  [\A k \in conns \ conns' : calls[k] > 0 => k \in told']_serverVars
  <2> USE DEF connVars
  <2>1. CASE conns' = conns
    BY <2>1
  <2>2. CASE RunShutdown
    BY <2>2 DEF RunShutdown
  <2>3. CASE \E k \in Conns : ConnLost(k)
    BY <2>3 DEF ConnLost, OnConnIdle
  <2>4. CASE FinishShutdown
    BY <2>4 DEF FinishShutdown
  <2>5. CASE \E k \in Conns : Accept(k)
    BY <2>5 DEF Accept
  <2> QED
    BY <1>1, <2>1, <2>2, <2>3, <2>4, <2>5 DEF ServerNext, LoopEvents, serverVars, StartServer, Shutdown, Wait, Return,
       RunStart, ListenerClosed, NewCall, EndCall, OnConnIdle
<1> QED
  BY <1>1, PTL DEF ServerSpec, NoCallFreedSilently

(* Only the grace timer or its own client takes a call in flight away.      *)
THEOREM GraceProtectsCallsCorrect == ServerSpec => GraceProtectsCalls
<1>1. ASSUME [ServerNext]_serverVars
      PROVE  [\A k \in Busy \ conns' : grace' = "fired" \/ told' = told \cup {k}]_serverVars
  <2> USE DEF connVars, Busy
  <2>1. CASE conns' = conns
    BY <2>1
  <2>2. CASE RunShutdown
    BY <2>2 DEF RunShutdown
  <2>3. CASE \E k \in Conns : ConnLost(k)
    BY <2>3 DEF ConnLost, OnConnIdle
  <2>4. CASE FinishShutdown
    BY <2>4 DEF FinishShutdown
  <2>5. CASE \E k \in Conns : Accept(k)
    BY <2>5 DEF Accept
  <2> QED
    BY <1>1, <2>1, <2>2, <2>3, <2>4, <2>5 DEF ServerNext, LoopEvents, serverVars, StartServer, Shutdown, Wait, Return,
       RunStart, ListenerClosed, NewCall, EndCall, OnConnIdle
<1> QED
  BY <1>1, PTL DEF ServerSpec, GraceProtectsCalls

-----------------------------------------------------------------------------
(* The blocking streams of the client (ClientStream) *)

(* Taking a message from the front of the queue and putting it at the end of *)
(* what was read leaves the whole as it was.                                 *)
LEMMA ReadNext ==
    ASSUME NEW S, NEW r \in Seq(S), NEW m \in Seq(S), m # <<>>
    PROVE  /\ Append(r, Head(m)) \in Seq(S) /\ Tail(m) \in Seq(S) /\ Head(m) \in S
           /\ Append(r, Head(m)) \o Tail(m) = r \o m
<1>. DEFINE a == Append(r, Head(m))
            t == Tail(m)
<1>1. /\ t \in Seq(S) /\ Head(m) \in S /\ Len(t) = Len(m) - 1 /\ Head(m) = m[1]
      /\ \A i \in 1..Len(t) : t[i] = m[i + 1]
      /\ Len(m) \in Nat /\ Len(m) > 0 /\ Len(r) \in Nat
  BY HeadTailProperties, LenProperties, EmptySeq
<1>2. /\ a \in Seq(S) /\ Len(a) = Len(r) + 1
      /\ \A i \in 1..Len(r) : a[i] = r[i]
      /\ a[Len(r) + 1] = m[1]
  BY <1>1, AppendProperties
<1>. HIDE DEF a, t
<1>3. /\ a \o t \in Seq(S) /\ Len(a \o t) = Len(a) + Len(t)
      /\ \A i \in 1..Len(a) + Len(t) :
            (a \o t)[i] = IF i <= Len(a) THEN a[i] ELSE t[i - Len(a)]
  BY Zenon, <1>1, <1>2, ConcatProperties
<1>4. /\ r \o m \in Seq(S) /\ Len(r \o m) = Len(r) + Len(m)
      /\ \A i \in 1..Len(r) + Len(m) :
            (r \o m)[i] = IF i <= Len(r) THEN r[i] ELSE m[i - Len(r)]
  BY ConcatProperties
<1>5. Len(a) + Len(t) = Len(r) + Len(m)
  BY <1>1, <1>2
<1>6. \A i \in 1..Len(r) + Len(m) : (a \o t)[i] = (r \o m)[i]
  <2>. TAKE i \in 1..Len(r) + Len(m)
  <2>1. CASE i <= Len(r)
    <3>1. i \in 1..Len(r) /\ i <= Len(a) /\ i \in 1..Len(a) + Len(t)
      BY <1>1, <1>2, <1>5, <2>1
    <3>. QED
      BY <1>2, <1>3, <1>4, <2>1, <3>1
  <2>2. CASE i = Len(r) + 1
    <3>1. i <= Len(a) /\ i \in 1..Len(a) + Len(t) /\ ~(i <= Len(r)) /\ i - Len(r) = 1
      BY <1>1, <1>2, <1>5, <2>2
    <3>. QED
      BY <1>2, <1>3, <1>4, <2>2, <3>1
  <2>3. CASE i > Len(r) + 1
    <3>1. /\ ~(i <= Len(a)) /\ i \in 1..Len(a) + Len(t) /\ ~(i <= Len(r))
          /\ i - Len(a) \in 1..Len(t) /\ i - Len(a) + 1 = i - Len(r)
      BY <1>1, <1>2, <1>5, <2>3
    <3>. QED
      BY Zenon, <1>1, <1>3, <1>4, <3>1
  <2>4. i <= Len(r) \/ i = Len(r) + 1 \/ i > Len(r) + 1
    <3>1. i \in Int /\ Len(r) \in Int
      BY <1>1
    <3>2. \A x, y \in Int : x <= y \/ x = y + 1 \/ x > y + 1
      OBVIOUS
    <3>. QED
      BY <3>1, <3>2, Zenon
  <2>. QED
    BY <2>1, <2>2, <2>3, <2>4, Zenon
<1>7. a \o t = r \o m
  BY ZenonT(30), <1>3, <1>4, <1>5, <1>6, SeqEqual
<1>. QED
  BY <1>1, <1>2, <1>7 DEF a, t

(* What arrives last is read last. *)
LEMMA ArrivesLast ==
    ASSUME NEW S, NEW r \in Seq(S), NEW m \in Seq(S), NEW p \in S
    PROVE  r \o Append(m, p) = Append(r \o m, p)
<1>1. Append(m, p) = m \o <<p>> /\ <<p>> \in Seq(S)
  BY AppendIsConcat
<1>2. r \o m \in Seq(S) /\ Append(r \o m, p) = (r \o m) \o <<p>>
  BY ConcatProperties, AppendIsConcat
<1>. QED
  BY <1>1, <1>2, ConcatAssociative

-----------------------------------------------------------------------------
(* The invariant *)

Forms == {"none", "reader", "writer", "bidi"}
Places == {"new", "open", "request", "idle", "reading", "writing", "flushing",
           "finishing", "done"}

(* What Finish returns, from what the core channel delivered. *)
Told == IF form # "writer" \/ terminal # "Ok" THEN terminal
        ELSE IF got = <<>> \/ got[1] = "bad" THEN "DataLoss" ELSE "Ok"

(* Nothing has happened before a stream is opened; a stream that is read has *)
(* each message either read or queued; the writer's response stays queued    *)
(* until Finish; an end reported is the end; Finish is called once.          *)
StreamInv ==
    /\ form \in Forms /\ pc \in [Threads -> Places]
    /\ messages \in Seq(Payload) /\ got \in Seq(Payload) /\ read \in Seq(Payload)
    /\ form = "none" => /\ messages = <<>> /\ got = <<>> /\ read = <<>> /\ ~terminated
                        /\ eos = "none" /\ fin = "none" /\ \A t \in Threads : pc[t] = "new"
    /\ form \in {"reader", "bidi"} => read \o messages = got
    /\ form = "writer" => /\ pc["R"] \in {"new", "done"} /\ eos = "none"
                          /\ fin = "none" => messages = got
    /\ eos \notin {"none", "DataLoss"} => terminated /\ eos = terminal /\ messages = <<>>
    /\ fin # "none" => pc[Owner] = "done" /\ terminated /\ fin = Told

(* The thread that finishes a stream.                                        *)
LEMMA OwnerIsThread == Owner \in Threads /\ \A f : OwnerOf(f) \in Threads
  BY DEF Owner, OwnerOf, Threads

(* A step of the threads or of Close that touches neither the messages nor   *)
(* the results: a thread that is done stays so, and a writer's stream has no *)
(* reader.                                                                   *)
LEMMA OthersKeep ==
    ASSUME StreamInv, UNCHANGED <<form, messages, terminated, terminal, got, read, eos, fin>>,
           pc' \in [Threads -> Places],
           form = "none" => pc' = pc,
           pc[Owner] = "done" => pc'[Owner] = "done",
           form = "writer" => pc'["R"] \in {"new", "done"}
    PROVE  StreamInv'
<1>1. Owner' = Owner /\ Told' = Told /\ Owner \in Threads
  BY OwnerIsThread DEF Owner, Told
<1>. HIDE DEF Owner, Told, Threads, Places, Forms
<1>. QED
  BY <1>1 DEF StreamInv

(* No stream is open yet.                                                    *)
LEMMA StreamInitInv == ASSUME StreamInit PROVE StreamInv
<1>1. pc \in [Threads -> Places] /\ \A t \in Threads : pc[t] = "new"
  BY DEF StreamInit, Places
<1>. QED
  BY <1>1, EmptySeq DEF StreamInit, StreamInv, Forms

(* A thread moves from one place to another, or the process ends. *)
LEMMA ThreadMoves ==
    ASSUME StreamInv, NEW t \in Threads, pc[t] \notin {"new", "done"},
           form = "writer" => t = "W",
           NEW l \in Places, pc' = At(t, l) \/ pc' = [u \in Threads |-> "done"],
           UNCHANGED <<form, messages, terminated, terminal, got, read, eos, fin>>
    PROVE  StreamInv'
<1>1. "R" \in Threads /\ "W" \in Threads /\ "done" \in Places /\ Owner \in Threads
  BY OwnerIsThread DEF Threads, Places
<1>2. pc \in [Threads -> Places] /\ (form = "writer" => pc["R"] \in {"new", "done"})
  BY DEF StreamInv
<1>3. form # "none"
  BY DEF StreamInv
<1>4. CASE pc' = At(t, l)
  <2>1. pc' = [pc EXCEPT ![t] = l]
    BY <1>4 DEF At
  <2>2. pc' \in [Threads -> Places]
    BY <1>2, <2>1
  <2>3. pc[Owner] = "done" => pc'[Owner] = "done"
    BY <1>1, <1>2, <2>1
  <2>4. form = "writer" => pc'["R"] = pc["R"]
    BY <1>1, <1>2, <2>1
  <2>. QED
    BY <1>2, <1>3, <2>2, <2>3, <2>4, OthersKeep
<1>5. CASE pc' = [u \in Threads |-> "done"]
  BY <1>1, <1>3, <1>5, OthersKeep
<1>. QED
  BY <1>4, <1>5

(* A thread opens a stream: the tests.                                       *)
LEMMA OpenCheckInv == ASSUME StreamInv, NEW f \in {"reader", "writer", "bidi"}, OpenCheck(f) PROVE StreamInv'
<1>1. /\ form = "none" /\ form' = f
      /\ UNCHANGED <<messages, got, read, eos, fin>>
      /\ pc' = Opened(f) \/ pc' = At(OwnerOf(f), "open")
  BY DEF OpenCheck, resultVars
<1>2. /\ messages = <<>> /\ got = <<>> /\ read = <<>> /\ eos = "none" /\ fin = "none"
      /\ \A t \in Threads : pc[t] = "new"
      /\ pc \in [Threads -> Places]
  BY <1>1 DEF StreamInv
<1>3. Opened(f) \in [Threads -> Places] /\ (f = "writer" => Opened(f)["R"] = "new")
  BY DEF Opened, Threads, Places
<1>4. At(OwnerOf(f), "open") \in [Threads -> Places] /\ (f = "writer" => At(OwnerOf(f), "open")["R"] = "new")
  BY <1>2 DEF At, OwnerOf, Threads, Places
<1>5. pc' \in [Threads -> Places] /\ (f = "writer" => pc'["R"] = "new")
  BY <1>1, <1>3, <1>4
<1>6. read' \o messages' = got'
  BY <1>1, <1>2
<1>. QED
  BY <1>1, <1>2, <1>5, <1>6, EmptySeq DEF StreamInv, Forms

(* A thread opens a stream: the call into the core channel.                  *)
LEMMA OpenCallInv == ASSUME StreamInv, OpenCall PROVE StreamInv'
<1>1. /\ UNCHANGED <<form, messages, terminated, terminal, got, read, eos, fin>>
      /\ pc[Owner] = "open"
      /\ pc' = Opened(form) \/ pc' = [t \in Threads |-> "done"]
  BY DEF OpenCall, UseCore, recvVars, resultVars
<1>2. form # "none"
  BY <1>1, OwnerIsThread DEF StreamInv
<1>3. /\ pc' \in [Threads -> Places]
      /\ form = "writer" => pc'["R"] \in {"new", "done"}
  BY SMTT(30), <1>1 DEF Opened, Threads, Places
<1>. QED
  BY <1>1, <1>2, <1>3, OthersKeep

(* The loop thread queues a message.                                         *)
LEMMA ArrivesInv ==
    ASSUME StreamInv, NEW p \in Payload, OnMessage(p)
    PROVE  StreamInv'
<1>1. /\ ~terminated /\ form # "none"
      /\ messages' = Append(messages, p) /\ got' = Append(got, p)
      /\ UNCHANGED <<form, terminated, terminal, pc, read, eos, fin>>
  BY DEF OnMessage, Delivers, resultVars
<1>2. /\ messages \in Seq(Payload) /\ got \in Seq(Payload) /\ read \in Seq(Payload)
      /\ fin = "none" /\ eos \in {"none", "DataLoss"}
      /\ form \in {"reader", "bidi"} => read \o messages = got
      /\ form = "writer" => messages = got
  BY <1>1 DEF StreamInv
<1>3. messages' \in Seq(Payload) /\ got' \in Seq(Payload)
  BY <1>1, <1>2, AppendProperties
<1>4. form \in {"reader", "bidi"} => read' \o messages' = got'
  BY SMTT(30), <1>1, <1>2, ArrivesLast
<1>. QED
  BY ZenonT(30), <1>1, <1>2, <1>3, <1>4 DEF StreamInv

(* The loop thread reports the status.                                       *)
LEMMA CompleteInv ==
    ASSUME StreamInv, NEW st, OnComplete(st)
    PROVE  StreamInv'
<1>1. /\ ~terminated /\ form # "none" /\ terminated'
      /\ UNCHANGED <<form, messages, got, pc, read, eos, fin>>
  BY DEF OnComplete, Delivers, resultVars
<1>2. fin = "none" /\ eos \in {"none", "DataLoss"}
  BY <1>1 DEF StreamInv
<1>. QED
  BY <1>1, <1>2 DEF StreamInv

(* The reader takes a message, sees the end, or sleeps.                      *)
LEMMA ReadInv == ASSUME StreamInv, Read PROVE StreamInv'
<1>1. /\ pc["R"] = "reading" /\ UNCHANGED <<form, terminated, terminal, got, fin>>
  BY DEF Read, resultVars, Sleep
<1>2. /\ form \in {"reader", "bidi"} /\ read \o messages = got
      /\ messages \in Seq(Payload) /\ read \in Seq(Payload) /\ got \in Seq(Payload)
      /\ pc \in [Threads -> Places]
  BY <1>1 DEF StreamInv, Forms, Threads
<1>3. Owner' = Owner /\ Told' = Told
  BY ZenonT(30), <1>1, <1>2 DEF Owner, Told
<1>4. ASSUME UNCHANGED <<messages, pc, read, eos>> PROVE StreamInv'
  BY <1>1, <1>2, <1>3, <1>4 DEF StreamInv
<1>5. pc' = [pc EXCEPT !["R"] = "idle"] =>
         pc' \in [Threads -> Places] /\ (fin # "none" => pc'[Owner] = "done")
  <2>. HAVE pc' = [pc EXCEPT !["R"] = "idle"]
  <2>1. pc' \in [Threads -> Places]
    BY Zenon, <1>2 DEF Places
  <2>2. fin # "none" => Owner = "W" /\ pc["W"] = "done"
    BY <1>1, OwnerIsThread DEF StreamInv, Threads
  <2>3. pc'["W"] = pc["W"]
    BY ZenonT(30), <1>2 DEF Threads
  <2>. QED
    BY <2>1, <2>2, <2>3
<1>9. ASSUME pc' = [pc EXCEPT !["R"] = "idle"], messages' \in Seq(Payload), read' \in Seq(Payload),
             read' \o messages' = got',
             eos' \in {"none", "DataLoss"} \/ (terminated /\ eos' = terminal /\ messages' = <<>>)
      PROVE  StreamInv'
  <2>1. pc' \in [Threads -> Places] /\ (fin # "none" => pc'[Owner] = "done")
    BY <1>5, <1>9
  <2>2. fin # "none" => terminated /\ fin = Told
    BY DEF StreamInv
  <2>3. fin' # "none" => pc'[Owner'] = "done" /\ terminated' /\ fin' = Told'
    BY <1>1, <1>3, <2>1, <2>2
  <2>4. form' \in {"reader", "bidi"} /\ form' \in Forms /\ got' \in Seq(Payload)
    BY <1>1, <1>2 DEF Forms
  <2>5. eos' \notin {"none", "DataLoss"} => terminated' /\ eos' = terminal' /\ messages' = <<>>
    BY <1>1, <1>9
  <2>. QED
    BY <1>9, <2>1, <2>3, <2>4, <2>5 DEF StreamInv
<1>6. CASE messages # <<>>
  <2>1. /\ messages' = Tail(messages) /\ read' = Append(read, Head(messages))
        /\ eos' = IF Head(messages) = "good" THEN "none" ELSE "DataLoss"
        /\ pc' = [pc EXCEPT !["R"] = "idle"]
    BY <1>6 DEF Read, Goto, At
  <2>2. messages' \in Seq(Payload) /\ read' \in Seq(Payload) /\ read' \o messages' = got'
    <3>1. /\ Append(read, Head(messages)) \in Seq(Payload) /\ Tail(messages) \in Seq(Payload)
          /\ Append(read, Head(messages)) \o Tail(messages) = read \o messages
      BY ZenonT(30), <1>2, <1>6, ReadNext
    <3>. QED
      BY <1>1, <1>2, <2>1, <3>1, Zenon
  <2>3. eos' \in {"none", "DataLoss"}
    BY <2>1
  <2>. QED
    BY <1>9, <2>1, <2>2, <2>3
<1>7. CASE messages = <<>> /\ terminated
  <2>1. /\ eos' = terminal /\ pc' = [pc EXCEPT !["R"] = "idle"] /\ UNCHANGED <<messages, read>>
    BY <1>7 DEF Read, Goto, At
  <2>2. messages' \in Seq(Payload) /\ read' \in Seq(Payload) /\ read' \o messages' = got'
    BY <1>1, <1>2, <2>1
  <2>. QED
    BY <1>7, <1>9, <2>1, <2>2
<1>8. CASE messages = <<>> /\ ~terminated
  <2>1. UNCHANGED <<messages, pc, read, eos>>
    BY <1>8 DEF Read, Sleep, resultVars
  <2>. QED
    BY <1>4, <2>1
<1>. QED
  BY <1>6, <1>7, <1>8

(* The owner takes the outcome, or sleeps.                                   *)
LEMMA FinishInv == ASSUME StreamInv, Finish PROVE StreamInv'
<1>1. pc[Owner] = "finishing" /\ UNCHANGED <<form, terminated, terminal, got, read, eos>>
  BY DEF Finish, resultVars, Sleep
<1>2. /\ fin = "none" /\ pc \in [Threads -> Places] /\ form # "none"
      /\ messages \in Seq(Payload) /\ got \in Seq(Payload)
      /\ form = "writer" => messages = got /\ eos = "none" /\ pc["R"] \in {"new", "done"}
  BY <1>1, OwnerIsThread DEF StreamInv
<1>3. Owner' = Owner /\ Told' = Told /\ Owner \in Threads /\ (form = "writer" => Owner = "W")
  BY ZenonT(30), <1>1, OwnerIsThread DEF Owner, OwnerOf, Told
<1>4. CASE ~terminated
  <2>1. UNCHANGED <<messages, pc, fin>>
    BY ZenonT(30), <1>4 DEF Finish, Sleep, resultVars
  <2>. QED
    BY <1>1, <1>2, <1>3, <2>1 DEF StreamInv
<1>5. CASE terminated
  <2>1. /\ fin' = Outcome /\ pc' = At(Owner, "done")
        /\ messages' = IF form = "writer" /\ terminal = "Ok" THEN <<>> ELSE messages
    BY <1>5 DEF Finish, Goto
  <2>2. Outcome = Told
    <3>1. messages # <<>> => Head(messages) = messages[1]
      OBVIOUS
    <3>. QED
      BY <1>2, <3>1 DEF Outcome, Told
  <2>3. /\ pc' \in [Threads -> Places] /\ pc'[Owner] = "done"
        /\ form = "writer" => pc'["R"] = pc["R"]
    BY <1>2, <1>3, <2>1 DEF At, Places, Threads
  <2>4. messages' \in Seq(Payload) /\ (messages = <<>> => messages' = <<>>)
    BY <1>2, <2>1, EmptySeq
  <2>5. form # "writer" => messages' = messages
    BY <2>1
  <2>6. fin' = Told' /\ Told' \in {terminal, "DataLoss", "Ok"}
    BY <1>3, <2>1, <2>2 DEF Told
  <2>7. form' = "writer" => (fin' = "none" => messages' = got')
    BY <1>1, <1>2, <2>1, <2>5, <2>6 DEF Outcome
  <2>. QED
    BY Zenon, <1>1, <1>2, <1>3, <1>5, <2>3, <2>4, <2>5, <2>6, <2>7 DEF StreamInv
<1>. QED
  BY ZenonT(30), <1>4, <1>5

(* Every step keeps the invariant.                                           *)
LEMMA StreamNextInv == StreamInv /\ [StreamNext]_streamVars => StreamInv'
<1>. SUFFICES ASSUME StreamInv, [StreamNext]_streamVars PROVE StreamInv'
  BY ZenonT(30)
<1>. DEFINE Same == UNCHANGED <<form, messages, terminated, terminal, got, read, eos, fin>>
<1>1. CASE Close \/ SpuriousWakeup \/ NotifyAll \/ UNCHANGED streamVars
  <2>1. Same /\ pc' = pc
    BY <1>1 DEF Close, SpuriousWakeup, NotifyAll, streamVars, recvVars, resultVars
  <2>2. pc' \in [Threads -> Places] /\ (form = "writer" => pc'["R"] \in {"new", "done"})
    BY <2>1 DEF StreamInv
  <2>. QED
    BY ZenonT(30), <2>1, <2>2, OthersKeep
<1>2. CASE SendSingleRequest \/ BeginRead
  <2>1. /\ Same /\ pc["R"] \in {"request", "idle"}
        /\ \E l \in {"idle", "reading"} : pc' = At("R", l) \/ pc' = [t \in Threads |-> "done"]
    BY <1>2 DEF SendSingleRequest, BeginRead, UseCore, Goto, recvVars, resultVars
  <2>2. form # "writer" /\ "R" \in Threads /\ "idle" \in Places /\ "reading" \in Places
    BY <2>1 DEF StreamInv, Threads, Places
  <2>. QED
    BY <2>1, <2>2, ThreadMoves
<1>3. CASE BeginWrite \/ Write \/ WritesDone \/ OnFlushed
  <2>1. /\ Same /\ pc["W"] \in {"idle", "writing", "flushing"}
        /\ \E l \in {"idle", "writing", "flushing"} :
              pc' = At("W", l) \/ pc' = [t \in Threads |-> "done"]
    BY <1>3 DEF BeginWrite, Write, WritesDone, OnFlushed, UseCore, Goto, recvVars, resultVars
  <2>2. "W" \in Threads /\ {"idle", "writing", "flushing"} \subseteq Places
    BY DEF Threads, Places
  <2>. QED
    BY ZenonT(30), <2>1, <2>2, ThreadMoves
<1>4. CASE BeginFinish
  <2>1. /\ Same /\ pc[Owner] = "idle"
        /\ pc' = At(Owner, "finishing") \/ pc' = [t \in Threads |-> "done"]
    BY <1>4 DEF BeginFinish, UseCore, recvVars, resultVars
  <2>2. "finishing" \in Places /\ Owner \in Threads /\ (form = "writer" => Owner = "W")
    BY OwnerIsThread DEF Places, Owner, OwnerOf
  <2>. QED
    BY <2>1, <2>2, ThreadMoves
<1>. QED
  BY <1>1, <1>2, <1>3, <1>4, OpenCheckInv, OpenCallInv, ArrivesInv, CompleteInv, ReadInv, FinishInv
     DEF StreamNext, User

-----------------------------------------------------------------------------
(* The theorems *)

(* It holds in every reachable state.                                        *)
LEMMA StreamInvariant == StreamSpec => []StreamInv
  BY StreamInitInv, StreamNextInv, PTL DEF StreamSpec

(* Read returns every message, in order, before it reports the end, however  *)
(* the status, the notifications and the wakeups of the reader interleave.   *)
THEOREM ReadsEverythingCorrect == StreamSpec => []ReadsEverything
<1>1. StreamInv => ReadsEverything
  BY DEF StreamInv, ReadsEverything
<1>. QED
  BY <1>1, StreamInvariant, PTL

(* Finish answers after the status, with the status or the DATA_LOSS that    *)
(* the response calls for.                                                   *)
THEOREM FinishTellsOutcomeCorrect == StreamSpec => []FinishTellsOutcome
<1>1. StreamInv => FinishTellsOutcome
  BY DEF StreamInv, FinishTellsOutcome, Told
<1>. QED
  BY <1>1, StreamInvariant, PTL
=============================================================================
