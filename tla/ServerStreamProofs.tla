------------------------- MODULE ServerStreamProofs -------------------------
(***************************************************************************)
(* The lifetime of a typed server stream, for any nesting of user code and *)
(* library code and any number of messages: no view uses a StreamCtx that  *)
(* was destroyed, no reader is left waiting on a stream that is gone, and  *)
(* an OK comes after every message.                                        *)
(*                                                                         *)
(* The first two follow from what may lie beneath what on the stack.       *)
(* A stream is closed within user code only if that code, or code beneath  *)
(* it, has finished it: the handler and the deadline run at the bottom of  *)
(* the stack, and the one notification that sends a deferred finish nobody *)
(* asked for runs there as well.  The third follows from in_flight, which  *)
(* bounds the messages written and not yet delivered.                      *)
(***************************************************************************)
EXTENDS ServerStream, TLAPS

-----------------------------------------------------------------------------
(* Sequences.  These few facts stand in for the library of sequence          *)
(* theorems, which every obligation would otherwise carry along.             *)

(* The empty sequence is the one of length 0. *)
LEMMA EmptySeq ==
    ASSUME NEW V
    PROVE  /\ <<>> \in Seq(V) /\ Len(<<>>) = 0
           /\ \A q \in Seq(V) : (q = <<>>) <=> (Len(q) = 0)
OBVIOUS

(* A sequence is a function on 1..Len(q). *)
LEMMA LenProperties ==
    ASSUME NEW V, NEW q \in Seq(V)
    PROVE  /\ Len(q) \in Nat /\ DOMAIN q = 1..Len(q)
           /\ q \in [1..Len(q) -> V]
OBVIOUS

(* What Append returns. *)
LEMMA AppendProperties ==
    ASSUME NEW V, NEW q \in Seq(V), NEW e \in V
    PROVE  /\ Append(q, e) \in Seq(V) /\ Append(q, e) # <<>>
           /\ Len(q) \in Nat /\ DOMAIN q = 1..Len(q)
           /\ Len(Append(q, e)) = Len(q) + 1 /\ DOMAIN Append(q, e) = 1..(Len(q) + 1)
           /\ \A k \in 1..Len(q) : Append(q, e)[k] = q[k]
           /\ Append(q, e)[Len(q) + 1] = e
OBVIOUS

(* What Head and Tail return. *)
LEMMA HeadTailProperties ==
    ASSUME NEW V, NEW q \in Seq(V), q # <<>>
    PROVE  /\ Head(q) \in V /\ Head(q) = q[1]
           /\ Tail(q) \in Seq(V)
           /\ Len(q) \in Nat \ {0} /\ Len(Tail(q)) = Len(q) - 1
           /\ \A k \in 1..(Len(q) - 1) : Tail(q)[k] = q[k + 1]
OBVIOUS

-----------------------------------------------------------------------------
\* The activations in which OnStreamClose is under way.
Ends == {"closing", "cancelled"}
Notes == {"sent", "notified"}

\* A stack stk of activations is well nested when the stream is finished
\* (fin), responded (resp), has notifications nts to run, the request side is
\* pr and the call is cl.
Nested(stk, fin, resp, nts, pr, cl) ==
    \A i \in 1..Len(stk) :
        /\ stk[i].kind \in {"handler", "deadline"} => i = Len(stk)
        /\ stk[i].kind = "handler" =>
              pr # "ended" /\ cl # "gone" /\ \A j \in 1..Len(stk) : stk[j].kind \notin Ends
        /\ stk[i].kind \in Ends => pr # "ending" /\ (fin \/ (i = Len(stk) /\ nts = <<>>))
        /\ stk[i].kind \in Notes /\ resp => fin \/ i = Len(stk)

\* What the reader may count on: once OnStreamClose is under way no read is
\* kept, and after its callbacks none waits.
Answered(stk, rf, rc, cl) ==
    /\ \A i \in 1..Len(stk) :
          /\ stk[i].kind \in Ends => rf
          /\ stk[i].kind = "cancelled" => ~rc
    /\ cl = "gone" => rf /\ ~rc

Types ==
    /\ stack \in Seq(Frame) /\ notes \in Seq(Msgs) /\ out_queue \in Seq(Msgs)
    /\ out_inflight \in Msgs \cup {NoMsg}
    /\ finished \in BOOLEAN /\ responded \in BOOLEAN /\ finish_pending \in BOOLEAN
    /\ read_finished \in BOOLEAN /\ read_cb \in BOOLEAN
    /\ peer \in {"open", "ending", "ended"}
    /\ call \in {"new", "live", "gone"}

Bounded ==
    /\ call = "new" => stack = <<>> /\ notes = <<>> /\ out_queue = <<>> /\ peer = "open"
    /\ peer = "ending" => call = "live"
    /\ ~finished => Len(notes) <= 1 /\ (notes = <<>> \/ out_inflight # NoMsg)
    /\ finish_pending => responded /\ read_finished
    /\ call = "gone" => out_queue = <<>> /\ (finished \/ (stack = <<>> /\ notes = <<>>))
    /\ responded /\ ~finished => stack = <<>> \/ notes = <<>>

(* The inductive invariant.                                                 *)
LifeInv ==
    /\ Types
    /\ Nested(stack, finished, responded, notes, peer, call)
    /\ Answered(stack, read_finished, read_cb, call)
    /\ Bounded
    /\ ContextAlive

-----------------------------------------------------------------------------
(* Stacks *)

(* A call puts one activation on top of the others.                         *)
LEMMA PushFrame ==
    ASSUME NEW stk \in Seq(Frame), NEW f \in Frame
    PROVE  /\ <<f>> \o stk \in Seq(Frame)
           /\ <<f>> \o stk # <<>>
           /\ Len(<<f>> \o stk) = Len(stk) + 1
           /\ (<<f>> \o stk)[1] = f
           /\ \A i \in 1..Len(<<f>> \o stk) : i # 1 => (<<f>> \o stk)[i] = stk[i - 1]
    OBVIOUS

(* A return takes the innermost activation off.                             *)
LEMMA PopFrame ==
    ASSUME NEW stk \in Seq(Frame), stk # <<>>
    PROVE  /\ Tail(stk) \in Seq(Frame)
           /\ Len(Tail(stk)) = Len(stk) - 1
           /\ Len(stk) \in Nat \ {0}
           /\ Head(stk) = stk[1]
           /\ Head(stk) \in Frame
           /\ \A i \in 1..Len(Tail(stk)) : Tail(stk)[i] = stk[i + 1]
           /\ Len(stk) = 1 => Tail(stk) = <<>>
<1>1. Len(stk) \in Nat \ {0}
  OBVIOUS
<1>2. Tail(stk) \in Seq(Frame) /\ Len(Tail(stk)) = Len(stk) - 1
  BY <1>1
<1>3. \A i \in 1..Len(Tail(stk)) : Tail(stk)[i] = stk[i + 1]
  BY <1>1
<1>4. Head(stk) = stk[1] /\ Head(stk) \in Frame
  BY <1>1
<1>5. Len(stk) = 1 => Tail(stk) = <<>>
  <2>1. Tail(stk) # <<>> => Len(Tail(stk)) \in Nat \ {0}
    BY <1>2, EmptySeq
  <2> QED
    BY <1>2, <2>1
<1> QED
  BY <1>1, <1>2, <1>3, <1>4, <1>5

(* The activations the model enters are frames.                             *)
LEMMA FrameType ==
    ASSUME NEW k \in Kind, NEW m \in Msgs \cup {NoMsg}
    PROVE  F(k, m) \in Frame /\ F(k, m).kind = k
    BY DEF F, Frame

(* Entering an activation keeps the nesting: the handler and the deadline   *)
(* enter an empty stack, OnStreamClose one that is empty or finished.       *)
LEMMA PushNested ==
    ASSUME NEW stk \in Seq(Frame), NEW f \in Frame,
           NEW fin \in BOOLEAN, NEW resp \in BOOLEAN, NEW nts, NEW pr, NEW cl,
           Nested(stk, fin, resp, nts, pr, cl),
           f.kind \in {"handler", "deadline"} => stk = <<>>,
           f.kind = "handler" => pr # "ended" /\ cl # "gone",
           f.kind \in Ends =>
              /\ pr = "ended" \/ \A i \in 1..Len(stk) : stk[i].kind # "handler"
              /\ pr # "ending"
              /\ fin \/ (stk = <<>> /\ nts = <<>>),
           f.kind \in Notes /\ resp => fin \/ stk = <<>>
    PROVE  Nested(<<f>> \o stk, fin, resp, nts, pr, cl)
<1> DEFINE new == <<f>> \o stk
<1>1. /\ new \in Seq(Frame) /\ Len(new) = Len(stk) + 1 /\ new[1] = f
      /\ \A i \in 1..Len(new) : i # 1 => new[i] = stk[i - 1]
  BY PushFrame
<1>2. stk = <<>> => Len(stk) = 0
  OBVIOUS
<1>3. Len(stk) \in Nat
  OBVIOUS
<1> HIDE DEF new
<1>4. ASSUME NEW i \in 1..Len(new), i # 1
      PROVE  i - 1 \in 1..Len(stk) /\ new[i] = stk[i - 1] /\ (i - 1 = Len(stk) => i = Len(new))
  BY <1>1, <1>3, <1>4
<1>5. ASSUME NEW i \in 1..Len(new)
      PROVE  /\ new[i].kind \in {"handler", "deadline"} => i = Len(new)
             /\ new[i].kind \in Ends => pr # "ending" /\ (fin \/ (i = Len(new) /\ nts = <<>>))
             /\ new[i].kind \in Notes /\ resp => fin \/ i = Len(new)
  <2>1. CASE i = 1
    BY <2>1, <1>1, <1>2
  <2>2. CASE i # 1
    BY <2>2, <1>4 DEF Nested
  <2> QED
    BY <2>1, <2>2
<1>6. ASSUME NEW i \in 1..Len(new), new[i].kind = "handler"
      PROVE  pr # "ended" /\ cl # "gone" /\ \A j \in 1..Len(new) : new[j].kind \notin Ends
  <2>1. CASE i = 1
    BY <2>1, <1>1, <1>2, <1>6 DEF Ends
  <2>2. CASE i # 1
    <3>1. /\ pr # "ended" /\ cl # "gone" /\ \A j \in 1..Len(stk) : stk[j].kind \notin Ends
          /\ stk # <<>>
      BY <2>2, <1>4, <1>6, <1>2 DEF Nested
    <3>2. f.kind \notin Ends
      BY <3>1, <2>2, <1>4, <1>6
    <3> QED
      BY ZenonT(30), <3>1, <3>2, <1>1, <1>4
  <2> QED
    BY <2>1, <2>2
<1>7. Nested(new, fin, resp, nts, pr, cl)
  BY <1>5, <1>6 DEF Nested
<1> QED
  BY <1>7 DEF new

(* Leaving an activation keeps the nesting; beneath the handler and the     *)
(* deadline there is none.                                                  *)
LEMMA PopNested ==
    ASSUME NEW stk \in Seq(Frame), stk # <<>>, NEW fin, NEW resp, NEW nts, NEW pr, NEW cl,
           Nested(stk, fin, resp, nts, pr, cl)
    PROVE  /\ Nested(Tail(stk), fin, resp, nts, pr, cl)
           /\ Head(stk).kind \in {"handler", "deadline"} => Tail(stk) = <<>> /\ Len(stk) = 1
           /\ Head(stk).kind \in Ends =>
                 /\ pr # "ending"
                 /\ fin \/ (Tail(stk) = <<>> /\ nts = <<>>)
                 /\ \A i \in 1..Len(Tail(stk)) : Tail(stk)[i].kind # "handler"
           /\ Head(stk).kind \in Notes /\ resp => fin \/ Tail(stk) = <<>>
<1> DEFINE new == Tail(stk)
<1>1. /\ Len(new) = Len(stk) - 1 /\ Len(stk) \in Nat \ {0} /\ Head(stk) = stk[1]
      /\ \A i \in 1..Len(new) : new[i] = stk[i + 1]
      /\ Len(stk) = 1 => new = <<>>
  BY PopFrame
<1> HIDE DEF new
<1>2. ASSUME NEW i \in 1..Len(new)
      PROVE  i + 1 \in 1..Len(stk) /\ new[i] = stk[i + 1] /\ (i + 1 = Len(stk) => i = Len(new))
  BY <1>1
<1>3. Nested(new, fin, resp, nts, pr, cl)
  BY <1>2 DEF Nested
<1>4. 1 \in 1..Len(stk)
  BY <1>1
<1>5. Head(stk).kind \in {"handler", "deadline"} => new = <<>> /\ Len(stk) = 1
  BY <1>1, <1>4 DEF Nested
<1>6. Head(stk).kind \in Ends =>
         /\ pr # "ending"
         /\ fin \/ (new = <<>> /\ nts = <<>>)
         /\ \A i \in 1..Len(new) : new[i].kind # "handler"
  BY <1>1, <1>2, <1>4 DEF Nested
<1>7. Head(stk).kind \in Notes /\ resp => fin \/ new = <<>>
  BY <1>1, <1>4 DEF Nested
<1> QED
  BY <1>3, <1>5, <1>6, <1>7 DEF new

(* The nesting outlives a Finish, and a new notification while the stream   *)
(* is not being closed.                                                     *)
LEMMA KeepNested ==
    ASSUME NEW stk, NEW fin \in BOOLEAN, NEW resp \in BOOLEAN, NEW nts, NEW pr, NEW cl,
           NEW fin2 \in BOOLEAN, NEW resp2 \in BOOLEAN, NEW nts2,
           Nested(stk, fin, resp, nts, pr, cl),
           fin => fin2,
           fin2 \/ resp2 = resp,
           fin2 \/ nts2 = nts \/ \A i \in 1..Len(stk) : stk[i].kind \notin Ends
    PROVE  Nested(stk, fin2, resp2, nts2, pr, cl)
    BY DEF Nested

(* An empty stack is well nested.                                           *)
LEMMA EmptyNested ==
    ASSUME NEW fin, NEW resp, NEW nts, NEW pr, NEW cl
    PROVE  Nested(<<>>, fin, resp, nts, pr, cl)
    BY DEF Nested

(* The reader's part, for a call and for a return.                          *)
LEMMA PushAnswered ==
    ASSUME NEW stk \in Seq(Frame), NEW f \in Frame, NEW rf, NEW rc, NEW cl,
           Answered(stk, rf, rc, cl),
           f.kind \in Ends => rf,
           f.kind = "cancelled" => ~rc
    PROVE  Answered(<<f>> \o stk, rf, rc, cl)
<1>1. /\ Len(<<f>> \o stk) = Len(stk) + 1 /\ (<<f>> \o stk)[1] = f
      /\ \A i \in 1..Len(<<f>> \o stk) : i # 1 => (<<f>> \o stk)[i] = stk[i - 1]
  BY PushFrame
<1>2. \A i \in 1..Len(<<f>> \o stk) : i # 1 => i - 1 \in 1..Len(stk)
  BY <1>1
<1> QED
  BY <1>1, <1>2 DEF Answered

(* The innermost activation returns.                                         *)
LEMMA PopAnswered ==
    ASSUME NEW stk \in Seq(Frame), stk # <<>>, NEW rf, NEW rc, NEW cl,
           Answered(stk, rf, rc, cl)
    PROVE  /\ Answered(Tail(stk), rf, rc, cl)
           /\ Head(stk).kind \in Ends => rf
           /\ Head(stk).kind = "cancelled" => ~rc
<1>1. /\ Len(Tail(stk)) = Len(stk) - 1 /\ Len(stk) \in Nat \ {0} /\ Head(stk) = stk[1]
      /\ \A i \in 1..Len(Tail(stk)) : Tail(stk)[i] = stk[i + 1]
  BY PopFrame
<1>2. /\ \A i \in 1..Len(Tail(stk)) : i + 1 \in 1..Len(stk)
      /\ 1 \in 1..Len(stk)
  BY <1>1
<1> QED
  BY <1>1, <1>2 DEF Answered

-----------------------------------------------------------------------------
(* Steps that several actions share *)

(* While any activation runs the call has been opened, and it is gone only  *)
(* under code that has finished the stream.                                 *)
LEMMA Running ==
    ASSUME LifeInv, stack # <<>>
    PROVE  /\ call # "new" /\ (call = "gone" => finished)
           /\ responded /\ ~finished => notes = <<>>
    BY DEF LifeInv, Bounded, Types

(* What lies beneath the innermost activation.                              *)
LEMMA Beneath ==
    ASSUME LifeInv, stack # <<>>
    PROVE  /\ Tail(stack) \in Seq(Frame)
           /\ Nested(Tail(stack), finished, responded, notes, peer, call)
           /\ Answered(Tail(stack), read_finished, read_cb, call)
           /\ Head(stack).kind \in Notes /\ responded => finished \/ Tail(stack) = <<>>
           /\ Head(stack).kind \in Ends =>
                 /\ peer # "ending" /\ read_finished
                 /\ finished \/ (Tail(stack) = <<>> /\ notes = <<>>)
                 /\ \A i \in 1..Len(Tail(stack)) : Tail(stack)[i].kind # "handler"
           /\ Head(stack).kind = "cancelled" => ~read_cb
<1>1. /\ stack \in Seq(Frame)
      /\ Nested(stack, finished, responded, notes, peer, call)
      /\ Answered(stack, read_finished, read_cb, call)
  BY DEF LifeInv, Types
<1>2. Tail(stack) \in Seq(Frame)
  BY <1>1, PopFrame
<1>3. /\ Nested(Tail(stack), finished, responded, notes, peer, call)
      /\ Head(stack).kind \in Notes /\ responded => finished \/ Tail(stack) = <<>>
      /\ Head(stack).kind \in Ends =>
            /\ peer # "ending"
            /\ finished \/ (Tail(stack) = <<>> /\ notes = <<>>)
            /\ \A i \in 1..Len(Tail(stack)) : Tail(stack)[i].kind # "handler"
  BY <1>1, PopNested
<1>4. /\ Answered(Tail(stack), read_finished, read_cb, call)
      /\ Head(stack).kind \in Ends => read_finished
      /\ Head(stack).kind = "cancelled" => ~read_cb
  BY <1>1, PopAnswered
<1> QED
  BY <1>2, <1>3, <1>4

(* Entering a callback or a task of the user.                               *)
LEMMA EnterLife ==
    ASSUME LifeInv, NEW f \in Frame, f.kind \in {"refused", "dropped", "read", "task"},
           stack' = <<f>> \o stack,
           call # "new", call = "gone" => finished,
           responded /\ ~finished => notes = <<>>,
           UNCHANGED <<finished, responded, finish_pending, notes, peer, call, out_inflight>>,
           out_queue' \in Seq(Msgs), call = "gone" => out_queue' = <<>>,
           read_finished' \in BOOLEAN, read_finished => read_finished',
           read_cb' \in BOOLEAN, read_cb' => read_cb,
           "view" \notin dangling'
    PROVE  LifeInv'
<1>1. stack' \in Seq(Frame) /\ stack' # <<>>
  BY PushFrame DEF LifeInv, Types
<1>2. Types'
  BY <1>1 DEF LifeInv, Types
<1>3. f.kind \notin {"handler", "deadline"} /\ f.kind \notin Ends /\ f.kind \notin Notes
  BY DEF Ends, Notes
<1>4. Nested(stack', finished, responded, notes, peer, call)
  BY <1>3, PushNested DEF LifeInv, Types
<1>5. Answered(stack, read_finished', read_cb', call)
  BY DEF LifeInv, Answered
<1>6. Answered(stack', read_finished', read_cb', call)
  BY <1>3, <1>5, PushAnswered DEF LifeInv, Types, Ends
<1>7. Bounded'
  BY DEF LifeInv, Bounded
<1> QED
  BY <1>2, <1>4, <1>6, <1>7 DEF LifeInv, ContextAlive

(* Returning to the activation beneath, with nothing else done.             *)
LEMMA ReturnLife ==
    ASSUME LifeInv, stack # <<>>, stack' = Tail(stack),
           UNCHANGED <<finished, responded, finish_pending, notes, peer, call, out_inflight,
                       out_queue, read_finished, read_cb, dangling>>
    PROVE  LifeInv'
<1>1. stack' \in Seq(Frame)
  BY Beneath
<1>2. Types'
  BY <1>1 DEF LifeInv, Types
<1>3. Nested(stack', finished, responded, notes, peer, call)
  BY Beneath
<1>4. Answered(stack', read_finished, read_cb, call)
  BY Beneath
<1>5. Bounded'
  BY Running DEF LifeInv, Bounded
<1> QED
  BY <1>2, <1>3, <1>4, <1>5 DEF LifeInv, ContextAlive

(* PumpOut: a message goes to nghttp2 only when no notification is due, and *)
(* none comes from a stream that is being closed.                           *)
LEMMA PumpLife ==
    ASSUME LifeInv, NEW q \in Seq(Msgs), PumpOut(q), call # "live" => q = <<>>,
           UNCHANGED <<stack, finished, responded, finish_pending, peer, call, read_finished,
                       read_cb>>,
           "view" \notin dangling'
    PROVE  LifeInv'
<1>1. CASE out_queue' = q /\ UNCHANGED <<out_inflight, notes>>
  BY <1>1 DEF LifeInv, Types, Bounded, ContextAlive
<1>2. CASE /\ out_inflight = NoMsg /\ q # <<>> /\ ~responded
           /\ SendData(Head(q), Tail(q))
  <2>1. Head(q) \in Msgs /\ Tail(q) \in Seq(Msgs)
    BY <1>2, HeadTailProperties
  <2>2. out_inflight' \in Msgs /\ out_queue' \in Seq(Msgs)
    BY <2>1, <1>2 DEF SendData
  <2>3. out_inflight' # NoMsg
    BY <2>2, ConstantsAssumption
  <2>4. notes' = notes \/ (notes' = Append(notes, Head(q)) /\ ~Closing)
    BY <1>2 DEF SendData
  <2>5. notes' \in Seq(Msgs)
    <3>1. notes \in Seq(Msgs)
      BY DEF LifeInv, Types
    <3> QED
      BY <2>1, <2>4, <3>1, AppendProperties
  <2>6. Types'
    BY <2>2, <2>5 DEF LifeInv, Types
  <2>7. notes' = notes \/ \A i \in 1..Len(stack) : stack[i].kind \notin Ends
    <3>1. DOMAIN stack = 1..Len(stack)
      BY LenProperties DEF LifeInv, Types
    <3> QED
      BY <2>4, <3>1 DEF Closing, Active, Ends
  <2>8. Nested(stack, finished, responded, notes', peer, call)
    BY <2>7, KeepNested DEF LifeInv, Types
  <2>9. ASSUME ~finished
        PROVE  Len(notes') <= 1
    <3>1. notes = <<>>
      BY <1>2, <2>9 DEF LifeInv, Bounded
    <3>2. Len(notes) = 0
      BY <3>1
    <3>3. Len(Append(notes, Head(q))) = Len(notes) + 1
      BY <2>1, AppendProperties DEF LifeInv, Types
    <3> DEFINE n == Len(notes')
    <3>4. n = 0 \/ n = 1
      BY <2>4, <3>2, <3>3
    <3> HIDE DEF n
    <3>5. n <= 1
      BY <3>4
    <3> QED
      BY <3>5 DEF n
  <2>10. Bounded'
    BY <1>2, <2>3, <2>9 DEF LifeInv, Bounded, Types
  <2> QED
    BY <2>6, <2>8, <2>10 DEF LifeInv, ContextAlive
<1> QED
  BY <1>1, <1>2 DEF PumpOut

(* FinishStream returns to stk, or closes the stream on top of it.  It is   *)
(* safe where the caller has set finished, and where nothing runs beneath.  *)
LEMMA FinishLife ==
    ASSUME LifeInv, NEW stk \in Seq(Frame), NEW st, NEW fl, FinishStream(st, fl, stk),
           Nested(stk, finished, responded, notes, peer, call),
           Answered(stk, read_finished, read_cb, call),
           finished' \in BOOLEAN, finished => finished',
           finished' \/ (stk = <<>> /\ notes = <<>>),
           call # "new", call = "gone" => finished' \/ stk = <<>>,
           ~finished' => out_inflight' = out_inflight,
           out_inflight' \in Msgs \cup {NoMsg},
           UNCHANGED <<notes, peer, call, read_cb, out_queue>>,
           "view" \notin dangling'
    PROVE  LifeInv'
<1>1. CASE UNCHANGED endVars /\ stack' = stk
  <2>1. Types'
    BY <1>1 DEF LifeInv, Types, endVars
  <2>2. Nested(stk, finished', responded, notes, peer, call)
    BY KeepNested DEF LifeInv, Types
  <2>3. Bounded'
    BY <1>1 DEF LifeInv, Bounded, Types, endVars
  <2> QED
    BY <1>1, <2>1, <2>2, <2>3 DEF LifeInv, ContextAlive, endVars
<1>2. CASE /\ call # "gone" /\ ~responded
           /\ responded' = TRUE /\ read_finished' = TRUE
           /\ finish_pending' = (fl # NoMsg \/ out_queue # <<>>)
           /\ IF finish_pending' THEN stack' = stk ELSE TrailersSent(stk)
  <2> DEFINE c == F("closing", NoMsg)
  <2>1. c \in Frame /\ c.kind = "closing"
    BY FrameType DEF Kind
  <2>2. stack' = stk \/ (stack' = <<c>> \o stk /\ peer = "ended")
    BY <1>2 DEF TrailersSent
  <2> HIDE DEF c
  <2>3. stack' \in Seq(Frame)
    BY <2>1, <2>2, PushFrame
  <2>4. Types'
    BY <1>2, <2>3 DEF LifeInv, Types
  <2>5. Nested(stk, finished', responded', notes, peer, call)
    <3>1. CASE finished'
      BY <3>1 DEF Nested
    <3>2. CASE stk = <<>>
      BY <3>2, EmptyNested
    <3> QED
      BY <3>1, <3>2
  <2>6. Nested(stack', finished', responded', notes, peer, call)
    <3>1. CASE stack' = <<c>> \o stk /\ peer = "ended"
      BY ZenonT(30), <3>1, <2>1, <2>5, <1>2, PushNested DEF Notes
    <3> QED
      BY <3>1, <2>2, <2>5
  <2>7. Answered(stk, read_finished', read_cb, call)
    BY <1>2 DEF Answered
  <2>8. Answered(stack', read_finished', read_cb, call)
    <3>1. CASE stack' = <<c>> \o stk
      BY ZenonT(30), <3>1, <2>1, <2>7, <1>2, PushAnswered
    <3> QED
      BY <3>1, <2>2, <2>7
  <2>9. Bounded'
    BY <1>2 DEF LifeInv, Bounded, Types
  <2> QED
    BY <2>4, <2>6, <2>8, <2>9 DEF LifeInv, ContextAlive
<1> QED
  BY ZenonT(30), <1>1, <1>2 DEF FinishStream

-----------------------------------------------------------------------------
(* User code *)

(* The handler and the deadline run alone: nothing lies beneath them, and   *)
(* no notification is due while they go on.                                 *)
LEMMA AtBottom ==
    ASSUME LifeInv, UserRuns, Head(stack).kind \in {"handler", "deadline"}
    PROVE  Tail(stack) = <<>> /\ notes = <<>>
<1>1. stack \in Seq(Frame) /\ stack # <<>>
  BY DEF LifeInv, Types, UserRuns
<1>2. Tail(stack) = <<>> /\ Len(stack) = 1
  BY <1>1, PopNested DEF LifeInv
<1>3. DOMAIN stack = 1..1 /\ Head(stack) = stack[1]
  BY <1>1, <1>2, LenProperties, PopFrame
<1>4. ~Active("sent") /\ ~Active("notified")
  BY <1>3 DEF Active
<1> QED
  BY <1>2, <1>4 DEF UserRuns, MustNotify

(* StreamWriter::Write.                                                      *)
LEMMA WriteLife ==
    ASSUME LifeInv, NEW m \in Msgs, Write(m)
    PROVE  LifeInv'
<1> USE DEF stateVars, outVars, endVars, inVars
<1>1. /\ stack # <<>>
      /\ UNCHANGED <<endVars, inVars, call>>
  BY DEF Write, UserRuns
<1>2. /\ call # "new" /\ (call = "gone" => finished)
      /\ responded /\ ~finished => notes = <<>>
  BY <1>1, Running
<1>3. /\ F("refused", m) \in Frame /\ F("refused", m).kind = "refused"
      /\ F("dropped", m) \in Frame /\ F("dropped", m).kind = "dropped"
  BY FrameType DEF Kind
<1>4. /\ "view" \notin dangling
      /\ out_queue \in Seq(Msgs) /\ (call = "gone" => out_queue = <<>>)
      /\ read_finished \in BOOLEAN /\ read_cb \in BOOLEAN
  BY DEF LifeInv, ContextAlive, Types, Bounded
<1>5. CASE Call("refused", m) /\ UNCHANGED <<stateVars, outVars, dangling>>
  <2>1. stack' = <<F("refused", m)>> \o stack
    BY <1>5 DEF Call
  <2> QED
    BY <1>1, <1>2, <1>3, <1>4, <1>5, <2>1, EnterLife
<1>6. CASE ~finished /\ UseCtx /\ WriteMessage(m) /\ UNCHANGED <<finished, handler_returned>>
  <2>1. call = "live" /\ dangling' = dangling
    BY <1>2, <1>6 DEF UseCtx, LifeInv, Types
  <2>2. CASE Call("dropped", m) /\ UNCHANGED outVars
    <3>1. stack' = <<F("dropped", m)>> \o stack
      BY <2>2 DEF Call
    <3> QED
      BY <1>1, <1>2, <1>3, <1>4, <1>6, <2>1, <2>2, <3>1, EnterLife
  <2>3. CASE PumpOut(Append(out_queue, m)) /\ UNCHANGED <<stack, told>>
    <3>1. Append(out_queue, m) \in Seq(Msgs)
      BY <1>4, AppendProperties
    <3> QED
      BY ZenonT(30), <1>1, <1>4, <1>6, <2>1, <2>3, <3>1, PumpLife
  <2> QED
    BY <1>6, <2>2, <2>3 DEF WriteMessage
<1> QED
  BY <1>5, <1>6 DEF Write

(* The service finishes its stream through a view, or by `done`.             *)
LEMMA FinishesLife ==
    ASSUME LifeInv, Finish \/ \E m \in Msgs : Done(m)
    PROVE  LifeInv'
<1> USE DEF outVars, inVars
<1>1. /\ stack # <<>> /\ ~finished /\ finished' = TRUE /\ UseCtx
      /\ UNCHANGED <<notes, peer, call, read_cb, out_queue>>
      /\ out_inflight' \in Msgs \cup {NoMsg}
      /\ \E st, fl : FinishStream(st, fl, stack)
  <2>1. CASE Finish
    BY <2>1 DEF Finish, UserRuns, LifeInv, Types
  <2>2. ASSUME NEW m \in Msgs, Done(m)
        PROVE  /\ stack # <<>> /\ ~finished /\ finished' = TRUE /\ UseCtx
               /\ UNCHANGED <<notes, peer, call, read_cb, out_queue>>
               /\ out_inflight' \in Msgs \cup {NoMsg}
               /\ FinishStream("Ok", out_inflight', stack)
    <3>1. out_inflight' \in Msgs \cup {NoMsg}
      BY <2>2 DEF Done, LifeInv, Types
    <3> QED
      BY <2>2, <3>1 DEF Done, UserRuns
  <2> QED
    BY ZenonT(30), <2>1, <2>2
<1>2. PICK st, fl : FinishStream(st, fl, stack)
  BY <1>1
<1>3. call # "new" /\ call # "gone"
  BY <1>1, Running
<1>4. "view" \notin dangling'
  BY <1>1, <1>3 DEF UseCtx, LifeInv, ContextAlive
<1> QED
  BY ZenonT(30), <1>1, <1>2, <1>3, <1>4, FinishLife DEF LifeInv, Types

(* StreamReader::Read.                                                       *)
LEMMA ReadLife ==
    ASSUME LifeInv, ReadMessage
    PROVE  LifeInv'
<1> USE DEF stateVars, outVars
<1>1. /\ stack # <<>> /\ ~finished /\ UseCtx /\ CoreReadMessage
      /\ UNCHANGED <<finished, out_queue, out_inflight, notes, responded, finish_pending,
                     peer, call>>
  BY DEF ReadMessage, UserRuns
<1>2. /\ call # "new" /\ call # "gone"
      /\ responded /\ ~finished => notes = <<>>
  BY <1>1, Running
<1>3. "view" \notin dangling'
  BY <1>1, <1>2 DEF UseCtx, LifeInv, ContextAlive
<1>4. F("read", NoMsg) \in Frame /\ F("read", NoMsg).kind = "read"
  BY FrameType DEF Kind
<1>5. /\ read_finished' \in BOOLEAN /\ (read_finished => read_finished')
      /\ read_cb' \in BOOLEAN
      /\ \/ stack' = <<F("read", NoMsg)>> \o stack /\ read_cb' = read_cb
         \/ stack' = stack /\ ~read_finished /\ read_finished' = read_finished
  BY <1>1 DEF CoreReadMessage, Enter, LifeInv, Types
<1>6. CASE stack' = <<F("read", NoMsg)>> \o stack /\ read_cb' = read_cb
  BY ZenonT(30), <1>1, <1>2, <1>3, <1>4, <1>5, <1>6, EnterLife DEF LifeInv, Types
<1>7. CASE stack' = stack /\ ~read_finished /\ read_finished' = read_finished
  <2>1. Types'
    BY <1>1, <1>5, <1>7 DEF LifeInv, Types
  <2>2. Answered(stack', read_finished', read_cb', call')
    BY <1>1, <1>7 DEF LifeInv, Answered, Ends
  <2>3. Bounded' /\ Nested(stack', finished', responded', notes', peer', call')
    BY <1>1, <1>7 DEF LifeInv, Bounded
  <2> QED
    BY <1>3, <2>1, <2>2, <2>3 DEF LifeInv, ContextAlive
<1> QED
  BY <1>5, <1>6, <1>7

(* MaybeAutoFinish, on its way back to stk.                                 *)
LEMMA AutoFinishLife ==
    ASSUME LifeInv, stack # <<>>, NEW stk \in Seq(Frame), NEW n, NEW returned,
           MaybeAutoFinish(n, returned, stk),
           Nested(stk, finished, responded, notes, peer, call),
           Answered(stk, read_finished, read_cb, call),
           UNCHANGED <<notes, peer, call, read_cb, out_queue, out_inflight>>
    PROVE  LifeInv'
<1>1. /\ call # "new" /\ (call = "gone" => finished)
      /\ responded /\ ~finished => notes = <<>>
  BY Running
<1>2. CASE ~finished /\ finished' = TRUE /\ UseCtx /\ FinishStream("Ok", out_inflight, stk)
  <2>1. "view" \notin dangling'
    BY <1>1, <1>2 DEF UseCtx, LifeInv, ContextAlive
  <2> QED
    BY ZenonT(30), <1>1, <1>2, <2>1, FinishLife DEF LifeInv, Types
<1>3. CASE UNCHANGED <<finished, endVars, dangling>> /\ stack' = stk
  <2>1. Types'
    BY <1>3 DEF LifeInv, Types, endVars
  <2>2. Bounded'
    BY <1>1, <1>3 DEF LifeInv, Bounded, endVars
  <2> QED
    BY <1>3, <2>1, <2>2 DEF LifeInv, ContextAlive, endVars
<1> QED
  BY ZenonT(30), <1>2, <1>3 DEF MaybeAutoFinish

(* The handler returns, or throws.                                           *)
LEMMA HandlerReturnsLife ==
    ASSUME LifeInv, UserRuns, HandlerReturns \/ HandlerThrows,
           UNCHANGED <<notes, peer, call, read_cb, out_queue, out_inflight>>
    PROVE  LifeInv'
<1>1. stack \in Seq(Frame) /\ stack # <<>> /\ Head(stack).kind = "handler"
  BY ZenonT(30) DEF UserRuns, LifeInv, Types, HandlerReturns, HandlerThrows
<1>2. Tail(stack) = <<>> /\ notes = <<>>
  BY <1>1, AtBottom
<1>3. call # "new" /\ call # "gone"
  <2>1. 1 \in 1..Len(stack) /\ Head(stack) = stack[1]
    BY <1>1, PopFrame
  <2>2. call # "gone"
    BY <1>1, <2>1 DEF LifeInv, Nested
  <2> QED
    BY <1>1, <2>2, Running
<1>4. /\ Tail(stack) \in Seq(Frame)
      /\ Nested(Tail(stack), finished, responded, notes, peer, call)
      /\ Answered(Tail(stack), read_finished, read_cb, call)
  BY <1>1, Beneath
<1>5. ASSUME NEW st, FinishStream(st, out_inflight, Tail(stack)), UseCtx,
             UNCHANGED finished
      PROVE  LifeInv'
  <2>1. "view" \notin dangling'
    BY <1>3, <1>5 DEF UseCtx, LifeInv, ContextAlive
  <2> QED
    BY ZenonT(30), <1>2, <1>3, <1>4, <1>5, <2>1, FinishLife DEF LifeInv, Types
<1>6. CASE HandlerThrows
  BY <1>5, <1>6 DEF HandlerThrows, stateVars
<1>7. CASE HandlerReturns
  <2>1. CASE stack' = Tail(stack) /\ UNCHANGED <<finished, endVars, dangling>>
    BY <1>1, <2>1, ReturnLife DEF endVars
  <2>2. CASE /\ UseCtx /\ FinishStream("Unimplemented", out_inflight, Tail(stack))
             /\ UNCHANGED finished
    BY <1>5, <2>2
  <2>3. CASE MaybeAutoFinish(in_flight, TRUE, Tail(stack))
    BY ZenonT(30), <1>1, <1>4, <2>3, AutoFinishLife
  <2>4. \/ form # "server" \/ finished
        \/ form = "server" /\ ~finished /\ ~wrote
        \/ form = "server" /\ ~finished /\ wrote
    OBVIOUS
  <2> QED
    BY ZenonT(30), <1>7, <2>1, <2>2, <2>3, <2>4 DEF HandlerReturns
<1> QED
  BY <1>6, <1>7

(* A `delivered` callback returns, perhaps into the automatic finish.        *)
LEMMA DeliveredLife ==
    ASSUME LifeInv, UserRuns, DeliveredReturns,
           UNCHANGED <<notes, peer, call, read_cb, out_queue, out_inflight>>
    PROVE  LifeInv'
<1> DEFINE rest == Tail(stack)
           done == F("notified", NoMsg)
<1>1. stack \in Seq(Frame) /\ stack # <<>>
  BY DEF UserRuns, LifeInv, Types
<1>2. /\ rest \in Seq(Frame)
      /\ Nested(rest, finished, responded, notes, peer, call)
      /\ Answered(rest, read_finished, read_cb, call)
      /\ Head(stack).kind \in Notes /\ responded => finished \/ rest = <<>>
  BY <1>1, Beneath
<1>3. done \in Frame /\ done.kind = "notified"
  BY FrameType DEF Kind
<1> HIDE DEF rest, done
<1>4. CASE Head(stack).kind = "sent" /\ OnDelivered(<<done>> \o rest)
  <2>1. <<done>> \o rest \in Seq(Frame)
    BY <1>2, <1>3, PushFrame
  <2>2. Nested(<<done>> \o rest, finished, responded, notes, peer, call)
    BY ZenonT(30), <1>2, <1>3, <1>4, PushNested DEF Notes, Ends, LifeInv, Types
  <2>3. Answered(<<done>> \o rest, read_finished, read_cb, call)
    BY <1>2, <1>3, PushAnswered DEF Ends
  <2> QED
    BY ZenonT(30), <1>1, <1>4, <2>1, <2>2, <2>3, AutoFinishLife DEF OnDelivered
<1>5. CASE Head(stack).kind = "dropped" /\ OnDelivered(rest)
  BY <1>1, <1>2, <1>5, AutoFinishLife DEF OnDelivered
<1> QED
  BY <1>4, <1>5 DEF DeliveredReturns, rest, done

(* The cancel callbacks of a deadline return into OnDeadline.                *)
LEMMA DeadlineReturnsLife ==
    ASSUME LifeInv, UserRuns, DeadlineReturns,
           UNCHANGED <<notes, peer, call, read_cb, out_queue, out_inflight>>
    PROVE  LifeInv'
<1> DEFINE c == F("closing", NoMsg)
<1>1. stack \in Seq(Frame) /\ stack # <<>> /\ Head(stack).kind = "deadline"
  BY DEF UserRuns, LifeInv, Types, DeadlineReturns
<1>2. Tail(stack) = <<>> /\ notes = <<>>
  BY <1>1, AtBottom
<1>3. call # "new" /\ (call = "gone" => finished)
  BY <1>1, Running
<1>4. c \in Frame /\ c.kind = "closing"
  BY FrameType DEF Kind
<1>5. \/ stack' = <<>>
      \/ /\ stack' = <<c>> \o <<>>
         /\ peer = "ended" /\ read_finished' = TRUE
  BY ZenonT(30), <1>2 DEF DeadlineReturns, TrailersSent
<1> HIDE DEF c
<1>6. /\ <<>> \in Seq(Frame)
      /\ Answered(<<>>, read_finished', read_cb, call)
  <2>1. read_finished => read_finished'
    BY ZenonT(30) DEF DeadlineReturns
  <2> QED
    BY <2>1 DEF LifeInv, Answered
<1>7. Types'
  <2>1. stack' \in Seq(Frame)
    BY ZenonT(30), <1>4, <1>5, <1>6, PushFrame
  <2> QED
    BY <2>1 DEF DeadlineReturns, LifeInv, Types, stateVars
<1>8. Nested(stack', finished, TRUE, notes, peer, call)
  <2>1. CASE stack' = <<>>
    BY ZenonT(30), <2>1, EmptyNested
  <2>2. CASE stack' = <<c>> \o <<>> /\ peer = "ended"
    BY ZenonT(30), <2>2, <1>2, <1>4, <1>6, PushNested, EmptyNested DEF Notes, LifeInv, Types
  <2> QED
    BY ZenonT(30), <1>5, <2>1, <2>2
<1>9. Answered(stack', read_finished', read_cb, call)
  <2>1. CASE stack' = <<>>
    BY <2>1, <1>6
  <2>2. CASE stack' = <<c>> \o <<>> /\ read_finished' = TRUE
    BY ZenonT(30), <2>2, <1>4, <1>6, PushAnswered
  <2> QED
    BY ZenonT(30), <1>5, <2>1, <2>2
<1>10. Bounded'
  BY ZenonT(30), <1>2, <1>3 DEF DeadlineReturns, LifeInv, Bounded, stateVars
<1> QED
  BY ZenonT(30), <1>7, <1>8, <1>9, <1>10 DEF DeadlineReturns, LifeInv, ContextAlive, stateVars

(* Any activation of user code returns.                                      *)
LEMMA ReturnsLife ==
    ASSUME LifeInv, Return
    PROVE  LifeInv'
<1>1. /\ UserRuns
      /\ UNCHANGED <<notes, peer, call, read_cb, out_queue, out_inflight>>
  BY DEF Return, outVars, inVars
<1>2. CASE OtherReturns
  BY <1>1, <1>2, ReturnLife DEF OtherReturns, UserRuns, stateVars, endVars
<1> QED
  BY <1>1, <1>2, HandlerReturnsLife, DeliveredLife, DeadlineReturnsLife DEF Return

-----------------------------------------------------------------------------
(* Library code *)

(* on_consumed of the message in flight runs.                                *)
LEMMA NotifyLife ==
    ASSUME LifeInv, Notify
    PROVE  LifeInv'
<1> USE DEF stateVars, endVars, inVars
<1>1. /\ notes # <<>> /\ notes' = Tail(notes) /\ out_inflight' = NoMsg
      /\ UNCHANGED <<finished, responded, finish_pending, read_finished, read_cb, peer, call,
                     out_queue, dangling>>
  BY DEF Notify, MustNotify
<1>2. Head(notes) \in Msgs /\ notes' \in Seq(Msgs) /\ Len(notes') = Len(notes) - 1
  BY <1>1, HeadTailProperties DEF LifeInv, Types
<1>3. PICK f \in Frame : f.kind \in Notes /\ stack' = <<f>> \o stack
  <2>1. /\ F("notified", NoMsg) \in Frame /\ F("notified", NoMsg).kind = "notified"
        /\ F("sent", Head(notes)) \in Frame /\ F("sent", Head(notes)).kind = "sent"
    BY <1>2, FrameType DEF Kind
  <2> QED
    BY ZenonT(30), <2>1 DEF Notify, Enter, Call, Notes
<1>4. call # "new" /\ (call = "gone" => finished) /\ (responded => finished \/ stack = <<>>)
  BY <1>1 DEF LifeInv, Bounded, Types
<1>5. ~finished => notes' = <<>>
  <2>1. notes' # <<>> => Len(notes') \in Nat \ {0}
    BY <1>2, EmptySeq
  <2>2. ~finished => Len(notes) <= 1
    BY DEF LifeInv, Bounded
  <2>3. Len(notes) \in Nat
    BY LenProperties DEF LifeInv, Types
  <2> QED
    BY <1>2, <2>1, <2>2, <2>3
<1>6. f.kind \notin {"handler", "deadline"} /\ f.kind \notin Ends
  BY <1>3 DEF Notes, Ends
<1>7. Types'
  BY <1>1, <1>2, <1>3, PushFrame DEF LifeInv, Types
<1>8. Nested(stack, finished, responded, notes', peer, call)
  BY <1>1 DEF LifeInv, Nested
<1>9. Nested(stack', finished, responded, notes', peer, call)
  BY <1>3, <1>4, <1>6, <1>8, PushNested DEF LifeInv, Types
<1>10. Answered(stack', read_finished, read_cb, call)
  BY <1>3, <1>6, PushAnswered DEF LifeInv, Types, Ends
<1>11. Bounded'
  <2>1. ~finished => Len(notes') <= 1
    BY <1>5
  <2> QED
    BY <1>1, <1>4, <1>5, <2>1 DEF LifeInv, Bounded
<1> QED
  BY <1>1, <1>7, <1>9, <1>10, <1>11 DEF LifeInv, ContextAlive

(* The rest of on_consumed, after `delivered` has returned.                  *)
LEMMA NotifiedLife ==
    ASSUME LifeInv, Notified
    PROVE  LifeInv'
<1> USE DEF stateVars, outVars, inVars, histVars
<1> DEFINE c == F("closing", NoMsg)
           rest == Tail(stack)
<1>1. /\ stack \in Seq(Frame) /\ stack # <<>> /\ Head(stack).kind \in Notes
      /\ UNCHANGED <<finished, responded, read_finished, read_cb, peer, call, out_queue,
                     out_inflight, notes, dangling>>
  BY ZenonT(30) DEF Notified, LifeInv, Types, Notes
<1>2. /\ rest \in Seq(Frame)
      /\ Nested(rest, finished, responded, notes, peer, call)
      /\ Answered(rest, read_finished, read_cb, call)
      /\ responded => finished \/ rest = <<>>
  BY <1>1, Beneath
<1>3. /\ call # "new" /\ (call = "gone" => finished)
      /\ responded /\ ~finished => notes = <<>>
  BY <1>1, Running
<1>4. c \in Frame /\ c.kind = "closing"
  BY FrameType DEF Kind
<1>5. /\ finish_pending' \in BOOLEAN /\ (finish_pending' => finish_pending)
      /\ \/ stack' = rest
         \/ stack' = <<c>> \o rest /\ peer = "ended" /\ finish_pending
  BY ZenonT(30) DEF Notified, MaybeSendDeferredFinish, TrailersSent, LifeInv, Types
<1> HIDE DEF c, rest
<1>6. stack' \in Seq(Frame)
  BY ZenonT(30), <1>2, <1>4, <1>5, PushFrame
<1>7. Types'
  BY <1>1, <1>5, <1>6 DEF LifeInv, Types
<1>8. finish_pending => responded /\ read_finished
  BY DEF LifeInv, Bounded
<1>9. /\ Nested(stack', finished, responded, notes, peer, call)
      /\ Answered(stack', read_finished, read_cb, call)
  <2>1. CASE stack' = <<c>> \o rest /\ peer = "ended" /\ finish_pending
    <3>1. finished \/ (rest = <<>> /\ notes = <<>>)
      BY <2>1, <1>2, <1>3, <1>8
    <3>2. Nested(stack', finished, responded, notes, peer, call)
      BY <2>1, <3>1, <1>2, <1>4, PushNested DEF LifeInv, Types, Notes
    <3>3. Answered(stack', read_finished, read_cb, call)
      BY ZenonT(30), <2>1, <1>2, <1>4, <1>8, PushAnswered
    <3> QED
      BY <3>2, <3>3
  <2> QED
    BY <1>2, <1>5, <2>1
<1>10. Bounded'
  BY <1>1, <1>3, <1>5 DEF LifeInv, Bounded
<1> QED
  BY <1>1, <1>7, <1>9, <1>10 DEF LifeInv, ContextAlive

(* OnStreamClose fails the reader and the queued writers.                    *)
LEMMA CancelStreamIoLife ==
    ASSUME LifeInv, CancelStreamIo
    PROVE  LifeInv'
<1> USE DEF stateVars, endVars
<1>1. /\ stack # <<>>
      /\ UNCHANGED <<finished, responded, finish_pending, read_finished, peer, call,
                     out_inflight, notes, dangling>>
  BY DEF CancelStreamIo
<1>2. /\ call # "new" /\ (call = "gone" => finished)
      /\ responded /\ ~finished => notes = <<>>
  BY <1>1, Running
<1>3. /\ "view" \notin dangling'
      /\ out_queue \in Seq(Msgs) /\ (call = "gone" => out_queue = <<>>)
      /\ read_finished' \in BOOLEAN /\ (read_finished => read_finished') /\ read_cb \in BOOLEAN
  BY <1>1 DEF LifeInv, ContextAlive, Types, Bounded
<1>4. CASE read_cb' = FALSE /\ Enter("read") /\ UNCHANGED <<out_queue, told>>
  <2>1. F("read", NoMsg) \in Frame /\ F("read", NoMsg).kind = "read"
    BY FrameType DEF Kind
  <2>2. stack' = <<F("read", NoMsg)>> \o stack
    BY <1>4 DEF Enter
  <2> QED
    BY ZenonT(30), <1>1, <1>2, <1>3, <1>4, <2>1, <2>2, EnterLife
<1>5. CASE /\ out_queue # <<>> /\ out_queue' = Tail(out_queue)
           /\ Call("dropped", Head(out_queue)) /\ UNCHANGED read_cb
  <2>1. Head(out_queue) \in Msgs /\ out_queue' \in Seq(Msgs)
    BY <1>3, <1>5, HeadTailProperties
  <2>2. /\ F("dropped", Head(out_queue)) \in Frame
        /\ F("dropped", Head(out_queue)).kind = "dropped"
    BY <2>1, FrameType DEF Kind
  <2>3. stack' = <<F("dropped", Head(out_queue))>> \o stack
    BY <1>5 DEF Call
  <2> QED
    BY <1>1, <1>2, <1>3, <1>5, <2>1, <2>2, <2>3, EnterLife
<1> QED
  BY ZenonT(30), <1>4, <1>5 DEF CancelStreamIo

(* OnStreamClose runs the cancel callbacks.                                  *)
LEMMA FireCancelLife ==
    ASSUME LifeInv, FireCancel
    PROVE  LifeInv'
<1> USE DEF stateVars, endVars, outVars, inVars, histVars
<1> DEFINE c == F("cancelled", NoMsg)
           rest == Tail(stack)
<1>1. /\ stack \in Seq(Frame) /\ stack # <<>> /\ Head(stack).kind = "closing" /\ ~read_cb
      /\ stack' = <<c>> \o rest
      /\ UNCHANGED <<finished, responded, finish_pending, read_finished, read_cb, peer, call,
                     out_queue, out_inflight, notes, dangling>>
  BY ZenonT(30) DEF FireCancel, LifeInv, Types
<1>2. /\ rest \in Seq(Frame)
      /\ Nested(rest, finished, responded, notes, peer, call)
      /\ Answered(rest, read_finished, read_cb, call) /\ read_finished
      /\ peer # "ending"
      /\ finished \/ (rest = <<>> /\ notes = <<>>)
      /\ \A i \in 1..Len(rest) : rest[i].kind # "handler"
  BY <1>1, Beneath DEF Ends
<1>3. c \in Frame /\ c.kind = "cancelled"
  BY FrameType DEF Kind
<1>4. call # "new" /\ (call = "gone" => finished) /\ (responded /\ ~finished => notes = <<>>)
  BY <1>1, Running
<1> HIDE DEF c, rest
<1>5. stack' \in Seq(Frame)
  BY <1>1, <1>2, <1>3, PushFrame
<1>6. Types'
  BY <1>1, <1>5 DEF LifeInv, Types
<1>7. Nested(stack', finished, responded, notes, peer, call)
  <2>1. finished \in BOOLEAN /\ responded \in BOOLEAN
    BY DEF LifeInv, Types
  <2>2. c.kind \notin {"handler", "deadline"} /\ c.kind \notin Notes
    BY <1>3 DEF Notes
  <2> QED
    BY <1>1, <1>2, <1>3, <2>1, <2>2, PushNested
<1>8. Answered(stack', read_finished, read_cb, call)
  BY ZenonT(30), <1>1, <1>2, <1>3, PushAnswered
<1>9. Bounded'
  BY <1>1, <1>4 DEF LifeInv, Bounded
<1> QED
  BY <1>1, <1>6, <1>7, <1>8, <1>9 DEF LifeInv, ContextAlive

(* OnStreamClose erases the call, and with it the StreamCtx.                 *)
LEMMA EraseLife ==
    ASSUME LifeInv, Erase
    PROVE  LifeInv'
<1> USE DEF stateVars, endVars, inVars, histVars
<1> DEFINE rest == Tail(stack)
<1>1. /\ stack \in Seq(Frame) /\ stack # <<>> /\ Head(stack).kind \in Ends
      /\ Head(stack).kind = "cancelled" \/ ~read_cb
      /\ stack' = rest /\ call' = "gone" /\ out_queue' = <<>> /\ out_inflight' = NoMsg
      /\ UNCHANGED <<finished, responded, finish_pending, read_finished, read_cb, peer, notes,
                     dangling>>
  BY DEF Erase, LifeInv, Types, Ends
<1>2. /\ rest \in Seq(Frame)
      /\ Nested(rest, finished, responded, notes, peer, call)
      /\ Answered(rest, read_finished, read_cb, call) /\ read_finished /\ ~read_cb
      /\ peer # "ending"
      /\ finished \/ (rest = <<>> /\ notes = <<>>)
      /\ \A i \in 1..Len(rest) : rest[i].kind # "handler"
  BY ZenonT(30), <1>1, Beneath
<1> HIDE DEF rest
<1>3. Nested(rest, finished, responded, notes, peer, "gone")
  BY <1>2 DEF Nested
<1>4. Answered(rest, read_finished, read_cb, "gone")
  BY <1>2 DEF Answered
<1>5. Types'
  BY <1>1, <1>2 DEF LifeInv, Types
<1>6. Bounded'
  <2>1. ~finished => Len(notes) <= 1 /\ notes = <<>> /\ rest = <<>>
    BY <1>2 DEF LifeInv, Bounded
  <2> QED
    BY ZenonT(30), <1>1, <1>2, <2>1 DEF LifeInv, Bounded
<1> QED
  BY <1>1, <1>3, <1>4, <1>5, <1>6 DEF LifeInv, ContextAlive

-----------------------------------------------------------------------------
(* Events of the loop *)

(* An event enters at most one activation, on an empty stack.               *)
LEMMA EventLife ==
    ASSUME LifeInv, stack = <<>>, notes = <<>>,
           call' = "live", peer' \in {"open", "ending", "ended"},
           \/ stack' = <<>>
           \/ \E f \in Frame :
                /\ stack' = <<f>> \o <<>>
                /\ f.kind \in Notes \cup Ends \cup {"read", "task", "deadline", "handler"}
                /\ f.kind = "handler" => peer' # "ended"
                /\ f.kind \in Ends => peer' # "ending" /\ read_finished' = TRUE
                /\ f.kind # "cancelled",
           responded' \in BOOLEAN, responded => responded',
           finish_pending' = finish_pending,
           read_finished' \in BOOLEAN, read_finished => read_finished',
           read_cb' \in BOOLEAN,
           UNCHANGED <<finished, out_queue, out_inflight, notes, dangling>>
    PROVE  LifeInv'
<1>1. <<>> \in Seq(Frame)
  OBVIOUS
<1>2. /\ stack' \in Seq(Frame)
      /\ Nested(stack', finished, responded', notes, peer', call')
      /\ Answered(stack', read_finished', read_cb', call')
  <2>1. /\ Nested(<<>>, finished, responded', notes, peer', call')
        /\ Answered(<<>>, read_finished', read_cb', call')
    BY EmptyNested DEF Answered
  <2>2. ASSUME NEW f \in Frame, stack' = <<f>> \o <<>>,
               f.kind = "handler" => peer' # "ended",
               f.kind \in Ends => peer' # "ending" /\ read_finished' = TRUE,
               f.kind # "cancelled"
        PROVE  /\ stack' \in Seq(Frame)
               /\ Nested(stack', finished, responded', notes, peer', call')
               /\ Answered(stack', read_finished', read_cb', call')
    <3>1. stack' \in Seq(Frame)
      BY <1>1, <2>2, PushFrame
    <3>2. Nested(stack', finished, responded', notes, peer', call')
      <4>1. finished \in BOOLEAN /\ \A i \in 1..Len(<<>>) : <<>>[i].kind # "handler"
        BY DEF LifeInv, Types
      <4> QED
        BY ZenonT(30), <1>1, <2>1, <2>2, <4>1, PushNested
    <3>3. Answered(stack', read_finished', read_cb', call')
      BY ZenonT(30), <1>1, <2>1, <2>2, PushAnswered
    <3> QED
      BY <3>1, <3>2, <3>3
  <2> QED
    BY ZenonT(30), <1>1, <2>1, <2>2
<1>3. Types'
  BY <1>2 DEF LifeInv, Types
<1>4. Bounded'
  BY DEF LifeInv, Bounded
<1> QED
  BY <1>2, <1>3, <1>4 DEF LifeInv, ContextAlive

(* FinishStream while the stack is empty and the peer may still send: the   *)
(* stream stays open.                                                       *)
LEMMA FinishIdle ==
    ASSUME LifeInv, stack = <<>>, notes = <<>>, call = "live", peer = "open",
           NEW st, FinishStream(st, out_inflight, stack),
           UNCHANGED <<finished, out_inflight, notes, peer, call, read_cb, out_queue, dangling>>
    PROVE  LifeInv'
    BY ZenonT(30), FinishLife DEF LifeInv, Types, ContextAlive

(* A request message arrives.                                                *)
LEMMA OnMessageLife ==
    ASSUME LifeInv, OnMessage
    PROVE  LifeInv'
<1> USE DEF stateVars, outVars
<1>1. /\ stack = <<>> /\ notes = <<>> /\ call = "live" /\ peer = "open"
      /\ UNCHANGED <<finished, out_queue, out_inflight, notes, peer, call, dangling>>
  BY DEF OnMessage, Idle
<1>2. /\ responded \in BOOLEAN /\ read_finished \in BOOLEAN /\ read_cb \in BOOLEAN
  BY DEF LifeInv, Types
<1>3. /\ F("handler", NoMsg) \in Frame /\ F("handler", NoMsg).kind = "handler"
      /\ F("read", NoMsg) \in Frame /\ F("read", NoMsg).kind = "read"
  BY FrameType DEF Kind
<1>4. ASSUME NEW st, FinishStream(st, out_inflight, stack), UNCHANGED read_cb
      PROVE  LifeInv'
  BY <1>1, <1>4, FinishIdle
<1>5. ASSUME NEW f \in Frame, f.kind \in {"handler", "read"}, stack' = <<f>> \o <<>>,
             UNCHANGED endVars, read_cb' \in BOOLEAN
      PROVE  LifeInv'
  <2>1. f.kind \notin Ends
    BY <1>5 DEF Ends
  <2> QED
    BY ZenonT(30), <1>1, <1>2, <1>5, <2>1, EventLife DEF endVars
<1>6. CASE Dispatch /\ UNCHANGED <<read_cb, pending_msgs>>
  <2>1. CASE Enter("handler") /\ UNCHANGED endVars
    <3>1. stack' = <<F("handler", NoMsg)>> \o <<>>
      BY <1>1, <2>1 DEF Enter
    <3> QED
      BY <1>2, <1>3, <1>5, <1>6, <2>1, <3>1
  <2> QED
    BY <1>4, <1>6, <2>1 DEF Dispatch
<1>7. CASE DeliverRead
  <2>1. CASE UNCHANGED <<read_cb, stack, endVars>>
    BY <1>1, <1>2, <2>1, EventLife DEF endVars
  <2>2. CASE read_cb' = FALSE /\ Enter("read") /\ UNCHANGED <<pending_msgs, endVars>>
    <3>1. stack' = <<F("read", NoMsg)>> \o <<>>
      BY <1>1, <2>2 DEF Enter
    <3> QED
      BY ZenonT(30), <1>2, <1>3, <1>5, <2>2, <3>1
  <2>3. CASE /\ FinishStream("ResourceExhausted", out_inflight, stack)
             /\ UNCHANGED <<read_cb, pending_msgs>>
    BY <1>4, <2>3
  <2> QED
    BY ZenonT(30), <1>2, <1>7, <2>1, <2>2, <2>3 DEF DeliverRead
<1> QED
  BY <1>4, <1>6, <1>7 DEF OnMessage

(* END_STREAM arrives.                                                       *)
LEMMA FinishRequestLife ==
    ASSUME LifeInv, FinishRequest
    PROVE  LifeInv'
<1> USE DEF stateVars, outVars, histVars
<1>1. /\ stack = <<>> /\ notes = <<>> /\ call' = "live" /\ peer' = "ending"
      /\ UNCHANGED <<finished, finish_pending, out_queue, out_inflight, notes, dangling>>
  BY DEF FinishRequest, Idle
<1>2. F("read", NoMsg) \in Frame /\ F("read", NoMsg).kind = "read"
  BY FrameType DEF Kind
<1>3. /\ responded' \in BOOLEAN /\ (responded => responded')
      /\ read_finished' \in BOOLEAN /\ (read_finished => read_finished')
      /\ read_cb' \in BOOLEAN
  BY ZenonT(30) DEF FinishRequest, LifeInv, Types
<1>4. stack' = <<>> \/ stack' = <<F("read", NoMsg)>> \o <<>>
  BY <1>1 DEF FinishRequest, Enter
<1>5. "read" \notin Ends
  BY DEF Ends
<1> QED
  BY <1>1, <1>2, <1>3, <1>4, <1>5, EventLife

(* The callback of END_STREAM has returned.                                  *)
LEMMA EndStreamLife ==
    ASSUME LifeInv, EndStream
    PROVE  LifeInv'
<1> USE DEF stateVars, outVars, histVars
<1>1. /\ stack = <<>> /\ notes = <<>> /\ peer = "ending" /\ peer' = "ended"
      /\ UNCHANGED <<finished, responded, finish_pending, out_queue, out_inflight, notes,
                     dangling, read_cb, call>>
  BY DEF EndStream
<1>2. call' = "live"
  BY <1>1 DEF LifeInv, Bounded
<1>3. F("closing", NoMsg) \in Frame /\ F("closing", NoMsg).kind = "closing" /\ "closing" \in Ends
  BY FrameType DEF Kind, Ends
<1>4. /\ responded' \in BOOLEAN /\ read_cb' \in BOOLEAN
      /\ read_finished' \in BOOLEAN /\ (read_finished => read_finished')
  BY ZenonT(30), <1>1 DEF EndStream, LifeInv, Types
<1>5. \/ stack' = <<>>
      \/ stack' = <<F("closing", NoMsg)>> \o <<>> /\ read_finished' = TRUE
  BY <1>1 DEF EndStream, Enter
<1> QED
  BY ZenonT(30), <1>1, <1>2, <1>3, <1>4, <1>5, EventLife

(* Headers, bad data, a task of the service, the deadline, a closed stream.  *)
LEMMA OtherEventsLife ==
    ASSUME LifeInv, OnHeaders \/ OnBadData \/ UserTask \/ OnDeadline \/ OnStreamClose
    PROVE  LifeInv'
<1> USE DEF stateVars, outVars, endVars, inVars, histVars
<1>1. /\ stack = <<>> /\ notes = <<>> /\ call' = "live" /\ peer # "ending"
      /\ UNCHANGED <<finished, finish_pending, out_queue, out_inflight, notes, dangling,
                     read_cb, peer>>
  BY DEF OnHeaders, OnBadData, UserTask, OnDeadline, OnStreamClose, Idle
<1>2. /\ responded' \in BOOLEAN /\ (responded => responded') /\ read_cb' \in BOOLEAN
      /\ read_finished' \in BOOLEAN /\ (read_finished => read_finished')
      /\ peer' \in {"open", "ending", "ended"}
  BY ZenonT(30), <1>1 DEF OnHeaders, OnBadData, UserTask, OnDeadline, OnStreamClose, LifeInv, Types
<1>3. ASSUME NEW k \in {"task", "deadline", "handler", "closing"}, Enter(k),
             k = "handler" => peer # "ended",
             k = "closing" => read_finished' = TRUE
      PROVE  LifeInv'
  <2>1. F(k, NoMsg) \in Frame /\ F(k, NoMsg).kind = k
    BY FrameType DEF Kind
  <2>2. stack' = <<F(k, NoMsg)>> \o <<>>
    BY <1>1, <1>3 DEF Enter
  <2>3. k \in Ends => k = "closing"
    BY <1>3 DEF Ends
  <2> QED
    BY ZenonT(30), <1>1, <1>2, <1>3, <2>1, <2>2, <2>3, EventLife DEF Ends
<1>4. CASE stack' = stack
  BY ZenonT(30), <1>1, <1>2, <1>4, EventLife
<1>5. CASE OnHeaders /\ Enter("handler")
  BY <1>3, <1>5 DEF OnHeaders, LifeInv, Bounded
<1>6. CASE UserTask
  BY <1>3, <1>6 DEF UserTask
<1>7. CASE OnDeadline
  BY <1>3, <1>7 DEF OnDeadline
<1>8. CASE OnStreamClose
  BY <1>3, <1>8 DEF OnStreamClose
<1> QED
  BY <1>4, <1>5, <1>6, <1>7, <1>8 DEF OnHeaders, OnBadData

(* The peer grants window.                                                   *)
LEMMA UnblockLife ==
    ASSUME LifeInv, Unblock
    PROVE  LifeInv'
<1> USE DEF stateVars, endVars, inVars, histVars
<1>1. /\ stack = <<>> /\ call = "live" /\ out_inflight # NoMsg /\ notes' = <<out_inflight>>
      /\ UNCHANGED <<stack, finished, responded, finish_pending, read_finished, read_cb, peer,
                     call, out_queue, out_inflight, dangling>>
  BY DEF Unblock, Idle
<1>2. notes' \in Seq(Msgs) /\ Len(notes') = 1
  BY <1>1 DEF LifeInv, Types
<1>3. Types'
  BY <1>1, <1>2 DEF LifeInv, Types
<1>4. Nested(stack', finished', responded', notes', peer', call')
  BY <1>1, EmptyNested
<1>5. Answered(stack', read_finished', read_cb', call')
  BY <1>1 DEF LifeInv
<1>6. Bounded'
  <2>1. Len(notes') <= 1
    BY <1>2
  <2> QED
    BY <1>1, <2>1 DEF LifeInv, Bounded
<1> QED
  BY <1>1, <1>3, <1>4, <1>5, <1>6 DEF LifeInv, ContextAlive

(* The posted PumpOut runs.                                                  *)
LEMMA RunPumpLife ==
    ASSUME LifeInv, RunPump
    PROVE  LifeInv'
<1>1. /\ PumpOut(out_queue)
      /\ UNCHANGED <<stack, finished, responded, finish_pending, peer, call, read_finished,
                     read_cb, dangling>>
  BY DEF RunPump, stateVars, endVars, inVars, histVars
<1>2. out_queue \in Seq(Msgs) /\ (call # "live" => out_queue = <<>>) /\ "view" \notin dangling
  BY DEF LifeInv, Types, Bounded, ContextAlive
<1> QED
  BY <1>1, <1>2, PumpLife

-----------------------------------------------------------------------------
(* The invariant, and what it is for *)

(* Every step keeps the invariant.                                           *)
LEMMA NextLife ==
    ASSUME LifeInv, [Next]_vars
    PROVE  LifeInv'
<1>1. CASE UNCHANGED vars
  BY <1>1 DEF vars, stateVars, outVars, endVars, inVars, histVars, LifeInv, Types, Bounded,
              ContextAlive
<1>2. CASE Next
  BY <1>2, WriteLife, FinishesLife, ReadLife, ReturnsLife, NotifyLife, NotifiedLife,
     CancelStreamIoLife, FireCancelLife, EraseLife, OnMessageLife, FinishRequestLife,
     EndStreamLife, OtherEventsLife, UnblockLife, RunPumpLife DEF Next
<1> QED
  BY ZenonT(30), <1>1, <1>2

(* The invariant holds in every reachable state.                            *)
THEOREM LifeInvariant == Spec => []LifeInv
<1>1. ASSUME Init
      PROVE  LifeInv
  <2>1. Types
    <3>1. stack \in Seq(Frame) /\ notes \in Seq(Msgs) /\ out_queue \in Seq(Msgs)
      BY <1>1, EmptySeq DEF Init
    <3> QED
      BY ZenonT(30), <1>1, <3>1 DEF Init, Types
  <2>2. Nested(stack, finished, responded, notes, peer, call)
    BY <1>1, EmptyNested DEF Init
  <2>3. Answered(stack, read_finished, read_cb, call)
    BY <1>1 DEF Init, Answered
  <2>4. Bounded /\ ContextAlive
    <3>1. Len(notes) <= 1
      BY <1>1 DEF Init
    <3> QED
      BY <1>1, <3>1 DEF Init, Bounded, ContextAlive
  <2> QED
    BY <2>1, <2>2, <2>3, <2>4 DEF LifeInv
<1> QED
  BY <1>1, NextLife, PTL DEF Spec

(* No view and no wrapper touches the StreamCtx after OnStreamClose has     *)
(* destroyed it, however deep user code and library code call each other.   *)
THEOREM ContextStaysAlive == Spec => []ContextAlive
<1>1. LifeInv => ContextAlive
  BY DEF LifeInv
<1> QED
  BY <1>1, LifeInvariant, PTL

(* A stream that is gone has no reader waiting: OnStreamClose has answered  *)
(* the last one, and refused those its answers made.                        *)
THEOREM ReadersAnswered == Spec => []ReadsAnswered
<1>1. LifeInv => ReadsAnswered
  BY DEF LifeInv, Answered, ReadsAnswered
<1> QED
  BY <1>1, LifeInvariant, PTL
-----------------------------------------------------------------------------
(* The writes of a stream and its OK.  Every message the service has handed  *)
(* to WriteMessage is unsettled until its `delivered` callback has returned: *)
(* it waits in the queue, inside nghttp2 or for its notification, was left   *)
(* behind by a close, or its callback is on the stack.  in_flight counts at  *)
(* least those, so it is 0 only when nothing can follow the OK.              *)

Callbacks == {"sent", "dropped"}

\* An activation of one of the kinds is on the stack.
Has(stk, kinds) == \E i \in 1..Len(stk) : stk[i].kind \in kinds

\* The messages whose `delivered` callback runs, each in one activation.
Calling(stk) == {stk[i].msg : i \in {j \in 1..Len(stk) : stk[j].kind \in Callbacks}}
OneEach(stk) ==
    \A i, j \in 1..Len(stk) :
        /\ stk[i].kind \in Callbacks /\ stk[j].kind \in Callbacks
        /\ stk[i].msg = stk[j].msg
        => i = j

Unsettled(wr, td, stk) == {m \in wr : td[m] = 0} \cup Calling(stk)

\* S has at most n elements.
Counted(S, n) == \E f \in [S -> 1..n] : \A a, b \in S : f[a] = f[b] => a = b

\* The queue q and the message fl in nghttp2 are written, untold and apart.
Waits(q, fl, wr, td) ==
    /\ \A i \in 1..Len(q) : q[i] \in wr /\ td[q[i]] = 0 /\ q[i] # fl
    /\ \A i, j \in 1..Len(q) : q[i] = q[j] => i = j
    /\ fl # NoMsg => fl \in wr /\ td[fl] = 0

Tellings ==
    /\ form \in AllForms
    /\ written \subseteq Msgs /\ told \in [Msgs -> 0..1] /\ in_flight \in Nat
    /\ \A m \in Msgs : told[m] = 1 => m \in written
    /\ OneEach(stack)
    /\ \A m \in Calling(stack) : m \in Msgs /\ told[m] = 1

Counts ==
    IF form = "client" THEN out_queue = <<>> /\ Calling(stack) = {}
    ELSE /\ Counted(Unsettled(written, told, stack), in_flight)
         /\ Waits(out_queue, out_inflight, written, told)

Notices ==
    form # "client" =>
        /\ notes = <<>> \/ (notes = <<out_inflight>> /\ out_inflight # NoMsg)
        /\ Has(stack, Ends) => notes = <<>>

Returned ==
    /\ handler_returned \in BOOLEAN
    /\ handler_returned => form = "server" /\ dispatched # "no" /\ ~Has(stack, {"handler"})
    /\ Has(stack, {"handler"}) => dispatched # "no"

OkIsLast ==
    /\ ended # "none" => responded
    /\ ended = "Ok" =>
          /\ responded /\ finished /\ out_queue = <<>>
          /\ \/ form = "client" /\ (finish_pending \/ out_inflight = NoMsg)
             \/ /\ form = "server" /\ handler_returned /\ ~finish_pending
                /\ out_inflight = NoMsg /\ Unsettled(written, told, stack) = {}

(* The inductive invariant of the writes.                                   *)
WriteInv == Tellings /\ Counts /\ Notices /\ Returned /\ OkIsLast

-----------------------------------------------------------------------------
(* Counting without a cardinality *)

(* One more element needs one more number.                                  *)
LEMMA CountOneMore ==
    ASSUME NEW S, NEW n \in Nat, NEW m, Counted(S, n)
    PROVE  Counted(S \cup {m}, n + 1)
<1>1. PICK f \in [S -> 1..n] : \A a, b \in S : f[a] = f[b] => a = b
  BY DEF Counted
<1> DEFINE g == [x \in S \cup {m} |-> IF x \in S THEN f[x] ELSE n + 1]
<1>2. g \in [S \cup {m} -> 1..(n + 1)]
  OBVIOUS
<1>3. ASSUME NEW a \in S \cup {m}, NEW b \in S \cup {m}, g[a] = g[b]
      PROVE  a = b
  <2>1. \A x \in S : f[x] \in 1..n /\ f[x] # n + 1
    OBVIOUS
  <2> QED
    BY <1>1, <1>3, <2>1
<1> HIDE DEF g
<1> QED
  BY <1>2, <1>3 DEF Counted

(* One element less gives a number back: the last one, which the element    *)
(* that had it exchanges for that of the element taken out.                 *)
LEMMA CountOneLess ==
    ASSUME NEW S, NEW n \in Nat, NEW m \in S, Counted(S, n)
    PROVE  n # 0 /\ n - 1 \in Nat /\ Counted(S \ {m}, n - 1)
<1>1. PICK f \in [S -> 1..n] : \A a, b \in S : f[a] = f[b] => a = b
  BY DEF Counted
<1>2. f[m] \in 1..n
  BY <1>1
<1>3. n # 0 /\ n - 1 \in Nat
  BY <1>2
<1> DEFINE g == [x \in S \ {m} |-> IF f[x] = n THEN f[m] ELSE f[x]]
<1>4. ASSUME NEW x \in S \ {m}
      PROVE  g[x] \in 1..(n - 1)
  <2>1. f[x] \in 1..n /\ f[x] # f[m]
    BY <1>1
  <2> QED
    BY <1>2, <2>1
<1>5. g \in [S \ {m} -> 1..(n - 1)]
  BY <1>4
<1>6. ASSUME NEW a \in S \ {m}, NEW b \in S \ {m}, g[a] = g[b]
      PROVE  a = b
  <2>1. f[a] # f[m] /\ f[b] # f[m]
    BY <1>1
  <2>2. f[a] = f[b]
    BY <1>6, <2>1
  <2> QED
    BY <1>1, <2>2
<1> HIDE DEF g
<1>7. Counted(S \ {m}, n - 1)
  BY <1>5, <1>6 DEF Counted
<1> QED
  BY <1>3, <1>7

(* Nothing is left when the count is 0.                                     *)
LEMMA CountZero ==
    ASSUME NEW S, Counted(S, 0)
    PROVE  S = {}
<1>1. PICK f \in [S -> 1..0] : TRUE
  BY DEF Counted
<1> QED
  BY <1>1

(* A set that is empty needs no number.                                     *)
LEMMA CountEmpty ==
    ASSUME NEW n \in Nat
    PROVE  Counted({}, n)
<1> DEFINE f == [x \in {} |-> 1]
<1>1. f \in [{} -> 1..n]
  OBVIOUS
<1> QED
  BY ZenonT(30), <1>1 DEF Counted

(* What an activation on top of a stack adds to the callbacks that run.     *)
LEMMA OnTop ==
    ASSUME NEW stk \in Seq(Frame), NEW f \in Frame
    PROVE  /\ \A kinds : Has(<<f>> \o stk, kinds) <=> f.kind \in kinds \/ Has(stk, kinds)
           /\ Calling(<<f>> \o stk) = Calling(stk) \cup {m \in {f.msg} : f.kind \in Callbacks}
           /\ OneEach(<<f>> \o stk) <=>
                 OneEach(stk) /\ (f.kind \in Callbacks => f.msg \notin Calling(stk))
<1> DEFINE new == <<f>> \o stk
<1>1. /\ Len(stk) \in Nat /\ Len(new) = Len(stk) + 1 /\ new[1] = f
      /\ \A i \in 1..Len(new) : i # 1 => new[i] = stk[i - 1]
  BY PushFrame, LenProperties
<1> HIDE DEF new
<1>2. /\ 1 \in 1..Len(new)
      /\ \A i \in 1..Len(stk) : i + 1 \in 1..Len(new) /\ i + 1 # 1 /\ new[i + 1] = stk[i]
      /\ \A i \in 1..Len(new) : i # 1 => i - 1 \in 1..Len(stk)
  BY <1>1
<1>3. \A kinds : Has(new, kinds) <=> f.kind \in kinds \/ Has(stk, kinds)
  <2> TAKE kinds
  <2>1. Has(stk, kinds) => Has(new, kinds)
    BY ZenonT(30), <1>2 DEF Has
  <2>2. f.kind \in kinds => Has(new, kinds)
    BY <1>1, <1>2 DEF Has
  <2>3. Has(new, kinds) => f.kind \in kinds \/ Has(stk, kinds)
    BY <1>1, <1>2 DEF Has
  <2> QED
    BY <2>1, <2>2, <2>3
<1>4. \A m : m \in Calling(new) <=> m \in Calling(stk) \/ (f.kind \in Callbacks /\ m = f.msg)
  <2> TAKE m
  <2>1. m \in Calling(stk) => m \in Calling(new)
    BY <1>2 DEF Calling
  <2>2. f.kind \in Callbacks /\ m = f.msg => m \in Calling(new)
    BY <1>1, <1>2 DEF Calling
  <2>3. m \in Calling(new) => m \in Calling(stk) \/ (f.kind \in Callbacks /\ m = f.msg)
    BY <1>1, <1>2 DEF Calling
  <2> QED
    BY <2>1, <2>2, <2>3
<1>5. ASSUME OneEach(stk), f.kind \in Callbacks => f.msg \notin Calling(stk)
      PROVE  OneEach(new)
  <2> SUFFICES ASSUME NEW i \in 1..Len(new), NEW j \in 1..Len(new),
                      new[i].kind \in Callbacks, new[j].kind \in Callbacks,
                      new[i].msg = new[j].msg
               PROVE  i = j
    BY DEF OneEach
  <2>1. CASE i # 1 /\ j # 1
    <3>1. i - 1 \in 1..Len(stk) /\ j - 1 \in 1..Len(stk)
      BY <2>1, <1>2
    <3>2. i - 1 = j - 1
      BY <1>1, <2>1, <3>1, <1>5 DEF OneEach
    <3> QED
      BY <3>2
  <2>2. CASE i = 1 /\ j # 1
    BY <2>2, <1>1, <1>2, <1>5 DEF Calling
  <2>3. CASE i # 1 /\ j = 1
    BY <2>3, <1>1, <1>2, <1>5 DEF Calling
  <2> QED
    BY <2>1, <2>2, <2>3
<1>6. ASSUME OneEach(new)
      PROVE  OneEach(stk)
  <2> SUFFICES ASSUME NEW i \in 1..Len(stk), NEW j \in 1..Len(stk),
                      stk[i].kind \in Callbacks, stk[j].kind \in Callbacks,
                      stk[i].msg = stk[j].msg
               PROVE  i = j
    BY DEF OneEach
  <2>1. i + 1 = j + 1
    BY ZenonT(30), <1>2, <1>6 DEF OneEach
  <2> QED
    BY <2>1
<1>7. ASSUME OneEach(new), f.kind \in Callbacks, f.msg \in Calling(stk)
      PROVE  FALSE
  <2>1. PICK i \in 1..Len(stk) : stk[i].kind \in Callbacks /\ stk[i].msg = f.msg
    BY <1>7 DEF Calling
  <2>2. i + 1 = 1
    BY <1>1, <1>2, <1>7, <2>1 DEF OneEach
  <2> QED
    BY <2>2
<1> QED
  BY <1>3, <1>4, <1>5, <1>6, <1>7 DEF new

(* The innermost activation is on top of the ones beneath it.               *)
LEMMA TopOff ==
    ASSUME NEW stk \in Seq(Frame), stk # <<>>
    PROVE  /\ Head(stk) \in Frame /\ Tail(stk) \in Seq(Frame)
           /\ \A kinds : Has(stk, kinds) <=> Head(stk).kind \in kinds \/ Has(Tail(stk), kinds)
           /\ Calling(stk) =
                 Calling(Tail(stk)) \cup {m \in {Head(stk).msg} : Head(stk).kind \in Callbacks}
           /\ OneEach(stk) <=>
                 /\ OneEach(Tail(stk))
                 /\ Head(stk).kind \in Callbacks => Head(stk).msg \notin Calling(Tail(stk))
<1>1. Head(stk) \in Frame /\ Tail(stk) \in Seq(Frame)
  BY PopFrame
<1>2. stk = <<Head(stk)>> \o Tail(stk)
  OBVIOUS
<1> DEFINE h == Head(stk)
           t == Tail(stk)
<1>3. /\ \A kinds : Has(<<h>> \o t, kinds) <=> h.kind \in kinds \/ Has(t, kinds)
      /\ Calling(<<h>> \o t) = Calling(t) \cup {m \in {h.msg} : h.kind \in Callbacks}
      /\ OneEach(<<h>> \o t) <=> OneEach(t) /\ (h.kind \in Callbacks => h.msg \notin Calling(t))
  <2> HIDE DEF h, t
  <2> QED
    BY ZenonT(30), <1>1, OnTop DEF h, t
<1> QED
  BY ZenonT(30), <1>1, <1>2, <1>3

-----------------------------------------------------------------------------
(* Steps that leave the writes alone *)

(* How such a step may end the stream: not at all, by trailers that were     *)
(* waiting for a message that has gone, or with a status other than OK.      *)
EndsQuietly ==
    /\ responded => responded'
    /\ \/ UNCHANGED <<ended, finish_pending>>
       \/ ended' = ended /\ finish_pending' = FALSE /\ out_inflight = NoMsg
       \/ ~responded /\ responded' /\ ended' # "Ok"

(* A step that returns from an activation, or enters one, but not that of a *)
(* `delivered` callback, and touches neither the messages nor the count.    *)
LEMMA QuietWrite ==
    ASSUME LifeInv, WriteInv, NEW stk, NEW f \in Frame,
           stk = stack \/ (stack # <<>> /\ stk = Tail(stack) /\ Head(stack).kind \notin Callbacks),
           stack' = stk \/ stack' = <<f>> \o stk,
           f.kind \notin Callbacks,
           f.kind \in Ends => form = "client" \/ notes = <<>>,
           f.kind = "handler" => ~handler_returned /\ dispatched' # "no",
           dispatched # "no" => dispatched' # "no",
           UNCHANGED <<form, in_flight, handler_returned, out_queue, out_inflight, notes,
                       written, told>>,
           finished => finished',
           EndsQuietly
    PROVE  WriteInv'
<1>1. stack \in Seq(Frame)
  BY DEF LifeInv, Types
<1>2. /\ stk \in Seq(Frame)
      /\ Calling(stk) = Calling(stack) /\ (OneEach(stack) => OneEach(stk))
      /\ \A kinds : Has(stk, kinds) => Has(stack, kinds)
  <2>1. CASE stk = stack
    BY <1>1, <2>1
  <2>2. CASE stack # <<>> /\ stk = Tail(stack) /\ Head(stack).kind \notin Callbacks
    BY ZenonT(30), <1>1, <2>2, TopOff
  <2> QED
    BY <2>1, <2>2
<1>3. /\ Calling(stack') = Calling(stack) /\ (OneEach(stack) => OneEach(stack'))
      /\ \A kinds : Has(stack', kinds) => Has(stack, kinds) \/ f.kind \in kinds
  <2>1. CASE stack' = stk
    BY <1>2, <2>1
  <2>2. CASE stack' = <<f>> \o stk
    <3>1. /\ \A kinds : Has(stack', kinds) => Has(stk, kinds) \/ f.kind \in kinds
          /\ Calling(stack') = Calling(stk)
          /\ OneEach(stk) => OneEach(stack')
      <4>1. /\ \A kinds : Has(<<f>> \o stk, kinds) <=> f.kind \in kinds \/ Has(stk, kinds)
            /\ Calling(<<f>> \o stk) = Calling(stk) \cup {m \in {f.msg} : f.kind \in Callbacks}
            /\ OneEach(<<f>> \o stk) <=>
                  OneEach(stk) /\ (f.kind \in Callbacks => f.msg \notin Calling(stk))
        BY <1>2, OnTop
      <4>2. {m \in {f.msg} : f.kind \in Callbacks} = {}
        OBVIOUS
      <4> QED
        BY ZenonT(30), <4>1, <4>2, <2>2
    <3> QED
      BY <1>2, <3>1
  <2> QED
    BY <2>1, <2>2
<1>4. Tellings'
  BY <1>3 DEF WriteInv, Tellings
<1>5. Unsettled(written, told, stack)' = Unsettled(written, told, stack)
  BY <1>3 DEF Unsettled
<1>6. Counts'
  <2>1. CASE form = "client"
    BY <2>1, <1>3 DEF WriteInv, Counts
  <2>2. CASE form # "client"
    <3>1. /\ Counted(Unsettled(written, told, stack), in_flight)
          /\ Waits(out_queue, out_inflight, written, told)
      BY <2>2 DEF WriteInv, Counts
    <3>2. Counted(Unsettled(written, told, stack), in_flight)'
      BY SMTT(30), <3>1, <1>5 DEF Counted
    <3>3. Waits(out_queue, out_inflight, written, told)'
      BY <3>1 DEF Waits
    <3> QED
      BY <2>2, <3>2, <3>3 DEF Counts
  <2> QED
    BY <2>1, <2>2
<1>7. Notices'
  BY <1>3 DEF WriteInv, Notices
<1>8. Returned'
  BY <1>3 DEF WriteInv, Returned
<1>9. OkIsLast'
  BY <1>5 DEF WriteInv, OkIsLast, EndsQuietly
<1> QED
  BY <1>4, <1>6, <1>7, <1>8, <1>9 DEF WriteInv

(* The same for a step that enters none.                                    *)
LEMMA StayWrite ==
    ASSUME LifeInv, WriteInv,
           \/ stack' = stack
           \/ stack # <<>> /\ stack' = Tail(stack) /\ Head(stack).kind \notin Callbacks,
           dispatched # "no" => dispatched' # "no",
           UNCHANGED <<form, in_flight, handler_returned, out_queue, out_inflight, notes,
                       written, told>>,
           finished => finished',
           EndsQuietly
    PROVE  WriteInv'
<1> DEFINE r == F("read", NoMsg)
<1>1. r \in Frame /\ r.kind = "read"
  BY FrameType DEF Kind
<1>2. r.kind \notin Callbacks /\ r.kind # "handler" /\ r.kind \notin Ends
  BY <1>1 DEF Callbacks, Ends
<1> HIDE DEF r
<1> QED
  BY ZenonT(30), <1>1, <1>2, QuietWrite

(* Steps that enter an activation of the user or of the library.            *)
LEMMA EnterWrite ==
    ASSUME LifeInv, WriteInv, NEW k \in Kind, k \notin Callbacks, Enter(k),
           k \in Ends => form = "client" \/ notes = <<>>,
           k = "handler" => ~handler_returned /\ dispatched' # "no",
           dispatched # "no" => dispatched' # "no",
           UNCHANGED <<form, in_flight, handler_returned, out_queue, out_inflight, notes,
                       written, told>>,
           finished => finished',
           EndsQuietly
    PROVE  WriteInv'
<1> DEFINE f == F(k, NoMsg)
<1>1. f \in Frame /\ f.kind = k
  BY FrameType
<1>2. stack' = <<f>> \o stack
  BY DEF Enter
<1> HIDE DEF f
<1> QED
  BY ZenonT(30), <1>1, <1>2, QuietWrite

(* FinishStream with a status other than OK, and from OnStreamClose when    *)
(* the trailers go at once: then no notification is due.                    *)
LEMMA FinishWrite ==
    ASSUME LifeInv, WriteInv, NEW stk, NEW st \in Status \ {"Ok"},
           FinishStream(st, out_inflight, stk),
           stk = stack \/ (stack # <<>> /\ stk = Tail(stack) /\ Head(stack).kind \notin Callbacks),
           dispatched # "no" => dispatched' # "no",
           UNCHANGED <<form, in_flight, handler_returned, out_queue, out_inflight, notes,
                       written, told>>,
           finished => finished'
    PROVE  WriteInv'
<1> DEFINE c == F("closing", NoMsg)
<1>1. c \in Frame /\ c.kind = "closing"
  BY FrameType DEF Kind
<1>2. c.kind \notin Callbacks /\ c.kind # "handler"
  BY <1>1 DEF Callbacks
<1>3. CASE UNCHANGED endVars /\ stack' = stk
  <2>1. EndsQuietly
    BY <1>3 DEF EndsQuietly, endVars
  <2> QED
    BY <1>3, <2>1, StayWrite
<1>4. CASE /\ ~responded /\ responded' = TRUE /\ ended' = st
           /\ finish_pending' = (out_inflight # NoMsg \/ out_queue # <<>>)
           /\ IF finish_pending' THEN stack' = stk ELSE TrailersSent(stk)
  <2>1. EndsQuietly
    BY <1>4 DEF EndsQuietly
  <2>2. stack' = stk \/ stack' = <<c>> \o stk
    BY <1>4 DEF TrailersSent
  <2>3. CASE stack' = stk
    BY <2>3, <2>1, StayWrite
  <2>4. CASE stack' = <<c>> \o stk /\ ~finish_pending'
    <3>1. form = "client" \/ notes = <<>>
      BY ZenonT(30), <1>4, <2>4 DEF WriteInv, Notices
    <3> HIDE DEF c
    <3> QED
      BY ZenonT(30), <2>4, <2>1, <3>1, <1>1, <1>2, QuietWrite
  <2>5. stack' = stk \/ ~finish_pending'
    BY <1>4
  <2> QED
    BY <2>2, <2>3, <2>4, <2>5
<1> QED
  BY ZenonT(30), <1>3, <1>4 DEF FinishStream

(* Finish and ReadMessage of the user.                                      *)
LEMMA UserQuietWrite ==
    ASSUME LifeInv, WriteInv, Finish \/ ReadMessage
    PROVE  WriteInv'
<1>1. CASE Finish
  <2>1. "User" \in Status \ {"Ok"}
    BY DEF Status
  <2> QED
    BY <1>1, <2>1, FinishWrite DEF Finish, outVars, inVars
<1>2. CASE ReadMessage
  <2>1. EndsQuietly
    BY ZenonT(30), <1>2 DEF ReadMessage, EndsQuietly
  <2>2. /\ UNCHANGED <<form, in_flight, handler_returned, out_queue, out_inflight, notes,
                       written, told, finished, dispatched>>
        /\ UNCHANGED stack \/ Enter("read")
    BY <1>2 DEF ReadMessage, CoreReadMessage, stateVars, outVars
  <2>3. "read" \in Kind /\ "read" \notin Callbacks /\ "read" \notin Ends
    BY DEF Kind, Callbacks, Ends
  <2>4. CASE UNCHANGED stack
    BY <2>1, <2>2, <2>4, StayWrite
  <2>5. CASE Enter("read")
    BY <2>1, <2>2, <2>3, <2>5, EnterWrite
  <2> QED
    BY <2>2, <2>4, <2>5
<1> QED
  BY <1>1, <1>2

(* An activation that is neither a `delivered` callback nor the last of the *)
(* handler's returns.                                                       *)
LEMMA OthersReturnWrite ==
    ASSUME LifeInv, WriteInv, stack # <<>>, HandlerThrows \/ OtherReturns,
           UNCHANGED <<form, outVars, inVars, pumps, call, cancel_fired, written, told,
                       requests, reads>>
    PROVE  WriteInv'
<1>1. CASE HandlerThrows
  <2>1. "Internal" \in Status \ {"Ok"} /\ "handler" \notin Callbacks
    BY DEF Status, Callbacks
  <2> QED
    BY ZenonT(30), <1>1, <2>1, FinishWrite DEF HandlerThrows, stateVars, outVars, inVars
<1>2. CASE OtherReturns
  <2>1. EndsQuietly
    BY <1>2 DEF OtherReturns, EndsQuietly, endVars
  <2>2. Head(stack).kind \notin Callbacks
    BY <1>2 DEF OtherReturns, Callbacks
  <2> QED
    BY <1>2, <2>1, <2>2, StayWrite DEF OtherReturns, stateVars, outVars, inVars
<1> QED
  BY <1>1, <1>2

(* OnDeadline goes on beneath no other activation, so FlushOut has run what *)
(* notification was due.                                                    *)
LEMMA DeadlineReturnsWrite ==
    ASSUME LifeInv, WriteInv, UserRuns, DeadlineReturns,
           UNCHANGED <<form, outVars, inVars, pumps, call, cancel_fired, written, told,
                       requests, reads>>
    PROVE  WriteInv'
<1> DEFINE c == F("closing", NoMsg)
<1>1. c \in Frame /\ c.kind = "closing"
  BY FrameType DEF Kind
<1>2. c.kind \notin Callbacks /\ c.kind # "handler"
  BY <1>1 DEF Callbacks
<1>3. stack # <<>> /\ Head(stack).kind = "deadline" /\ Head(stack).kind \notin Callbacks
  BY DEF UserRuns, DeadlineReturns, Callbacks
<1>4. EndsQuietly
  <2>1. responded \/ "DeadlineExceeded" # "Ok"
    OBVIOUS
  <2> QED
    BY DEF DeadlineReturns, EndsQuietly, LifeInv, Types
<1>5. stack' = Tail(stack) \/ stack' = <<c>> \o Tail(stack)
  BY DEF DeadlineReturns, TrailersSent
<1>6. notes = <<>>
  <2>1. stack \in Seq(Frame) /\ Len(stack) = 1 /\ stack[1].kind = "deadline"
    BY <1>3, PopNested, PopFrame DEF LifeInv, Types
  <2>2. DOMAIN stack = 1..1
    BY <2>1, LenProperties
  <2>3. ~Active("sent") /\ ~Active("notified")
    BY <2>1, <2>2 DEF Active
  <2> QED
    BY ZenonT(30), <2>3 DEF UserRuns, MustNotify
<1> HIDE DEF c
<1>7. /\ UNCHANGED <<form, in_flight, handler_returned, out_queue, out_inflight, notes,
                     written, told, finished, dispatched>>
  BY DEF DeadlineReturns, stateVars, outVars, inVars
<1> QED
  BY ZenonT(30), <1>1, <1>2, <1>3, <1>4, <1>5, <1>6, <1>7, QuietWrite

(* The end of a notification sends the deferred trailers only when no       *)
(* message is left in nghttp2, hence no other notification.                 *)
LEMMA NotifiedWrite ==
    ASSUME LifeInv, WriteInv, Notified
    PROVE  WriteInv'
<1> DEFINE c == F("closing", NoMsg)
<1>1. c \in Frame /\ c.kind = "closing"
  BY FrameType DEF Kind
<1>2. c.kind \notin Callbacks /\ c.kind # "handler"
  BY <1>1 DEF Callbacks
<1>3. stack # <<>> /\ Head(stack).kind = "notified" /\ Head(stack).kind \notin Callbacks
  BY DEF Notified, Callbacks
<1>4. /\ UNCHANGED <<form, in_flight, handler_returned, out_queue, out_inflight, notes,
                     written, told, finished, dispatched, responded, ended>>
  BY DEF Notified, stateVars, outVars, inVars, histVars
<1>5. CASE finish_pending' = FALSE /\ out_inflight = NoMsg /\ TrailersSent(Tail(stack))
  <2>1. EndsQuietly
    BY <1>4, <1>5 DEF EndsQuietly
  <2>2. stack' = Tail(stack) \/ stack' = <<c>> \o Tail(stack)
    BY <1>5 DEF TrailersSent
  <2>3. form = "client" \/ notes = <<>>
    BY <1>5 DEF WriteInv, Notices
  <2> HIDE DEF c
  <2> QED
    BY ZenonT(30), <1>1, <1>2, <1>3, <1>4, <2>1, <2>2, <2>3, QuietWrite
<1>6. CASE UNCHANGED finish_pending /\ stack' = Tail(stack)
  <2>1. EndsQuietly
    BY <1>4, <1>6 DEF EndsQuietly
  <2> QED
    BY <1>3, <1>4, <1>6, <2>1, StayWrite
<1> QED
  BY ZenonT(30), <1>5, <1>6 DEF Notified, MaybeSendDeferredFinish

(* The cancel callbacks run where OnStreamClose was.                        *)
LEMMA FireCancelWrite ==
    ASSUME LifeInv, WriteInv, FireCancel
    PROVE  WriteInv'
<1> DEFINE c == F("cancelled", NoMsg)
<1>1. c \in Frame /\ c.kind = "cancelled"
  BY FrameType DEF Kind
<1>2. c.kind \notin Callbacks /\ c.kind # "handler"
  BY <1>1 DEF Callbacks
<1>3. stack # <<>> /\ Head(stack).kind = "closing" /\ Head(stack).kind \notin Callbacks
  BY DEF FireCancel, Callbacks
<1>4. /\ UNCHANGED <<form, in_flight, handler_returned, out_queue, out_inflight, notes,
                     written, told, finished, dispatched>>
      /\ stack' = <<c>> \o Tail(stack)
  BY DEF FireCancel, stateVars, outVars, inVars, histVars
<1>5. EndsQuietly
  BY DEF FireCancel, EndsQuietly, endVars
<1>6. form = "client" \/ notes = <<>>
  <2>1. Has(stack, Ends)
    BY <1>3, TopOff DEF LifeInv, Types, Ends
  <2> QED
    BY <2>1 DEF WriteInv, Notices
<1> HIDE DEF c
<1> QED
  BY ZenonT(30), <1>1, <1>2, <1>3, <1>4, <1>5, <1>6, QuietWrite

(* The events of the loop that enter an activation or none.                 *)
LEMMA EventsWrite ==
    ASSUME LifeInv, WriteInv,
           OnHeaders \/ OnBadData \/ UserTask \/ OnDeadline \/ OnStreamClose \/ EndStream
    PROVE  WriteInv'
<1>1. {"handler", "task", "deadline", "closing", "read"} \subseteq Kind \ Callbacks
  BY DEF Kind, Callbacks
<1>2. {"handler", "task", "deadline", "read"} \cap Ends = {}
  BY ZenonT(30) DEF Ends
<1>3. /\ UNCHANGED <<form, in_flight, handler_returned, out_queue, out_inflight, notes,
                     written, told, finished>>
      /\ dispatched # "no" => dispatched' # "no"
  BY ZenonT(30) DEF OnHeaders, OnBadData, UserTask, OnDeadline, OnStreamClose, EndStream, stateVars,
         outVars, inVars, histVars
<1>4. EndsQuietly
  <2>1. CASE OnHeaders
    BY <2>1 DEF OnHeaders, EndsQuietly, endVars
  <2>2. CASE OnBadData
    BY <2>2 DEF OnBadData, EndsQuietly, endVars
  <2>3. CASE UserTask \/ OnDeadline
    BY <2>3 DEF UserTask, OnDeadline, EndsQuietly, endVars
  <2>4. CASE OnStreamClose \/ EndStream
    <3>1. UNCHANGED <<responded, ended, finish_pending>>
      BY Zenon, <2>4 DEF OnStreamClose, EndStream
    <3> QED
      BY Zenon, <3>1 DEF EndsQuietly
  <2> QED
    BY Zenon, <2>1, <2>2, <2>3, <2>4
<1>5. CASE OnHeaders
  <2>1. CASE UNCHANGED stack
    BY <2>1, <1>3, <1>4, StayWrite
  <2>2. CASE Enter("handler") /\ form # "server" /\ dispatched' = "run"
    <3>1. ~handler_returned
      BY <2>2 DEF WriteInv, Returned
    <3> QED
      BY <2>2, <3>1, <1>1, <1>2, <1>3, <1>4, EnterWrite
  <2> QED
    BY <1>5, <2>1, <2>2 DEF OnHeaders
<1>6. CASE UNCHANGED stack
  BY <1>6, <1>3, <1>4, StayWrite
<1>7. CASE Enter("task") \/ Enter("deadline")
  BY <1>7, <1>1, <1>2, <1>3, <1>4, EnterWrite
<1>8. CASE Enter("closing") /\ notes = <<>>
  BY <1>8, <1>1, <1>3, <1>4, EnterWrite
<1> QED
  BY <1>5, <1>6, <1>7, <1>8
     DEF OnBadData, UserTask, OnDeadline, OnStreamClose, EndStream, Idle

(* The events of the request side.                                          *)
LEMMA RequestWrite ==
    ASSUME LifeInv, WriteInv, OnMessage \/ FinishRequest
    PROVE  WriteInv'
<1>1. {"handler", "read"} \subseteq Kind \ Callbacks /\ {"handler", "read"} \cap Ends = {}
  BY ZenonT(30) DEF Kind, Callbacks, Ends
<1>2. /\ UNCHANGED <<form, in_flight, handler_returned, out_queue, out_inflight, notes,
                     written, told, finished>>
  BY ZenonT(30) DEF OnMessage, FinishRequest, stateVars, outVars, histVars
<1>3. CASE OnMessage
  <2>1. CASE form = "server" /\ dispatched = "no" /\ Dispatch
    <3>1. CASE dispatched' = "run" /\ Enter("handler") /\ UNCHANGED endVars
      <4>1. ~handler_returned
        BY <2>1 DEF WriteInv, Returned
      <4>2. EndsQuietly
        BY <3>1 DEF EndsQuietly, endVars
      <4> QED
        BY <3>1, <4>1, <4>2, <1>1, <1>2, EnterWrite
    <3>2. CASE dispatched' = "failed" /\ FinishStream("DataLoss", out_inflight, stack)
      <4>1. "DataLoss" \in Status \ {"Ok"}
        BY DEF Status
      <4> QED
        BY <3>2, <4>1, <1>2, FinishWrite
    <3> QED
      BY <2>1, <3>1, <3>2 DEF Dispatch
  <2>2. CASE FinishStream("Internal", out_inflight, stack) /\ UNCHANGED dispatched
    <3>1. "Internal" \in Status \ {"Ok"}
      BY DEF Status
    <3> QED
      BY <2>2, <3>1, <1>2, FinishWrite
  <2>3. CASE FinishStream("ResourceExhausted", out_inflight, stack) /\ UNCHANGED dispatched
    <3>1. "ResourceExhausted" \in Status \ {"Ok"}
      BY DEF Status
    <3> QED
      BY <2>3, <3>1, <1>2, FinishWrite
  <2>4. CASE UNCHANGED <<stack, endVars, dispatched>>
    <3>1. EndsQuietly
      BY <2>4 DEF EndsQuietly, endVars
    <3> QED
      BY <2>4, <3>1, <1>2, StayWrite
  <2>5. CASE Enter("read") /\ UNCHANGED <<endVars, dispatched>>
    <3>1. EndsQuietly
      BY <2>5 DEF EndsQuietly, endVars
    <3> QED
      BY <2>5, <3>1, <1>1, <1>2, EnterWrite
  <2>6. DeliverRead =>
           \/ UNCHANGED <<stack, endVars>>
           \/ Enter("read") /\ UNCHANGED endVars
           \/ FinishStream("ResourceExhausted", out_inflight, stack)
    BY DEF DeliverRead, LifeInv, Types
  <2> QED
    BY <1>3, <2>1, <2>2, <2>3, <2>4, <2>5, <2>6 DEF OnMessage
<1>4. CASE FinishRequest
  <2>1. EndsQuietly
    BY ZenonT(30), <1>4 DEF FinishRequest, EndsQuietly, LifeInv, Types
  <2>2. UNCHANGED dispatched /\ (UNCHANGED stack \/ Enter("read"))
    BY <1>4 DEF FinishRequest
  <2>3. CASE UNCHANGED stack
    BY <2>1, <2>2, <2>3, <1>2, StayWrite
  <2>4. CASE Enter("read")
    BY ZenonT(30), <2>1, <2>2, <2>4, <1>1, <1>2, EnterWrite
  <2> QED
    BY ZenonT(30), <2>2, <2>3, <2>4
<1> QED
  BY <1>3, <1>4

-----------------------------------------------------------------------------
(* Steps that move a message *)

(* A `delivered` callback is entered for a message that was told nothing:   *)
(* it stays unsettled, or becomes so.                                       *)
LEMMA CallTells ==
    ASSUME LifeInv, WriteInv, NEW m \in Msgs, NEW k \in Callbacks, Call(k, m),
           told[m] = 0, written' = written \cup {m}, in_flight' \in Nat, form' = form
    PROVE  /\ Tellings'
           /\ Unsettled(written, told, stack)' = Unsettled(written, told, stack) \cup {m}
           /\ told'[m] = 1 /\ \A x \in Msgs \ {m} : told'[x] = told[x]
           /\ Has(stack', Ends) <=> Has(stack, Ends)
           /\ Has(stack', {"handler"}) <=> Has(stack, {"handler"})
<1> DEFINE f == F(k, m)
<1>1. f \in Frame /\ f.kind = k /\ f.msg = m
  BY FrameType DEF Callbacks, Kind, F
<1>2. stack' = <<f>> \o stack
  BY DEF Call
<1>3. k \notin Ends /\ k \notin {"handler"}
  BY DEF Callbacks, Ends
<1> HIDE DEF f
<1>4. stack \in Seq(Frame)
  BY ZenonT(30) DEF LifeInv, Types
<1>5. /\ \A kinds : Has(stack', kinds) <=> k \in kinds \/ Has(stack, kinds)
      /\ Calling(stack') = Calling(stack) \cup {x \in {m} : k \in Callbacks}
      /\ OneEach(stack') <=> OneEach(stack) /\ (k \in Callbacks => m \notin Calling(stack))
  BY ZenonT(30), <1>1, <1>2, <1>4, OnTop
<1>6. Calling(stack') = Calling(stack) \cup {m}
  BY <1>5
<1>7. /\ told' \in [Msgs -> 0..1] /\ told'[m] = 1
      /\ \A x \in Msgs \ {m} : told'[x] = told[x]
  <2>1. told \in [Msgs -> 0..1] /\ told' = [told EXCEPT ![m] = told[m] + 1]
    BY DEF WriteInv, Tellings, Call
  <2> QED
    BY <2>1
<1>8. m \notin Calling(stack)
  BY DEF WriteInv, Tellings
<1>9. Tellings'
  <2>1. written' \subseteq Msgs
    BY DEF WriteInv, Tellings
  <2>2. \A x \in Msgs : told'[x] = 1 => x \in written'
    BY <1>7 DEF WriteInv, Tellings
  <2>3. \A x \in Calling(stack') : x \in Msgs /\ told'[x] = 1
    BY ZenonT(30), <1>6, <1>7 DEF WriteInv, Tellings
  <2>4. OneEach(stack') /\ form' \in AllForms
    BY ZenonT(30), <1>5, <1>8 DEF WriteInv, Tellings
  <2> QED
    BY <1>7, <2>1, <2>2, <2>3, <2>4 DEF Tellings
<1>10. Unsettled(written, told, stack)' = Unsettled(written, told, stack) \cup {m}
  <2>1. \A x \in written' : told'[x] = 0 <=> x # m /\ told[x] = 0
    BY SMTT(30), <1>7 DEF WriteInv, Tellings
  <2> QED
    BY ZenonT(30), <1>6, <2>1 DEF Unsettled
<1> QED
  BY ZenonT(30), <1>3, <1>5, <1>7, <1>9, <1>10

(* A message that is told, or taken from its place, leaves the others where *)
(* they wait.                                                               *)
LEMMA WaitsOn ==
    ASSUME NEW q \in Seq(Msgs), NEW fl, NEW wr \in SUBSET Msgs, NEW td, Waits(q, fl, wr, td),
           NEW fl2, fl2 = fl \/ fl2 = NoMsg, NEW wr2, wr \subseteq wr2, NEW td2,
           \A x \in wr : (\E i \in 1..Len(q) : q[i] = x) \/ x = fl2 => td2[x] = td[x]
    PROVE  Waits(q, fl2, wr2, td2)
<1>1. \A i \in 1..Len(q) : q[i] \in Msgs /\ q[i] # NoMsg
  <2>1. \A i \in 1..Len(q) : q[i] \in Msgs
    BY LenProperties
  <2> QED
    BY Zenon, <2>1, ConstantsAssumption
<1>2. \A i \in 1..Len(q) : q[i] \in wr2 /\ td2[q[i]] = 0 /\ q[i] # fl2
  <2> SUFFICES ASSUME NEW i \in 1..Len(q)
               PROVE  q[i] \in wr2 /\ td2[q[i]] = 0 /\ q[i] # fl2
    OBVIOUS
  <2>1. q[i] \in wr /\ td[q[i]] = 0 /\ q[i] # fl
    BY Zenon DEF Waits
  <2>2. td2[q[i]] = td[q[i]]
    BY Zenon, <2>1
  <2> QED
    BY Zenon, <1>1, <2>1, <2>2
<1>3. \A i, j \in 1..Len(q) : q[i] = q[j] => i = j
  BY Zenon DEF Waits
<1>4. fl2 # NoMsg => fl2 \in wr2 /\ td2[fl2] = 0
  <2>1. ASSUME fl2 # NoMsg
        PROVE  fl2 \in wr /\ td[fl2] = 0
    BY Zenon, <2>1 DEF Waits
  <2> QED
    BY Zenon, <2>1
<1> QED
  BY Zenon, <1>2, <1>3, <1>4 DEF Waits

(* Taking the head off the queue.                                           *)
LEMMA WaitsTail ==
    ASSUME NEW q \in Seq(Msgs), q # <<>>, NEW fl, NEW wr, NEW td, Waits(q, fl, wr, td)
    PROVE  /\ Head(q) \in Msgs /\ Tail(q) \in Seq(Msgs)
           /\ Head(q) \in wr /\ td[Head(q)] = 0 /\ Head(q) # fl
           /\ Waits(Tail(q), fl, wr, td)
           /\ \A i \in 1..Len(Tail(q)) : Tail(q)[i] # Head(q)
<1>1. /\ Head(q) \in Msgs /\ Head(q) = q[1] /\ Tail(q) \in Seq(Msgs)
      /\ Len(q) \in Nat \ {0} /\ Len(Tail(q)) = Len(q) - 1
      /\ \A k \in 1..(Len(q) - 1) : Tail(q)[k] = q[k + 1]
  BY HeadTailProperties
<1> DEFINE t == Tail(q)
<1> HIDE DEF t
<1>2. \A k \in 1..Len(t) : k + 1 \in 1..Len(q) /\ k + 1 # 1 /\ t[k] = q[k + 1]
  BY <1>1 DEF t
<1>3. 1 \in 1..Len(q)
  BY <1>1
<1>4. \A i, j \in 1..Len(t) : t[i] = t[j] => i = j
  <2> TAKE i, j \in 1..Len(t)
  <2> HAVE t[i] = t[j]
  <2>1. i + 1 = j + 1
    BY SMTT(30), <1>2 DEF Waits
  <2> QED
    BY <2>1
<1>5. Waits(t, fl, wr, td)
  BY SMTT(30), <1>2, <1>4 DEF Waits
<1>6. \A i \in 1..Len(t) : t[i] # q[1]
  BY <1>2, <1>3 DEF Waits
<1>7. q[1] \in wr /\ td[q[1]] = 0 /\ q[1] # fl
  BY ZenonT(30), <1>3 DEF Waits
<1> QED
  BY <1>1, <1>5, <1>6, <1>7 DEF t

(* Adding a message that has just been written.                             *)
LEMMA WaitsAppend ==
    ASSUME NEW q \in Seq(Msgs), NEW m \in Msgs, NEW fl, NEW wr \in SUBSET Msgs, NEW td,
           Waits(q, fl, wr, td), m \notin wr, td[m] = 0
    PROVE  Waits(Append(q, m), fl, wr \cup {m}, td)
<1> DEFINE a == Append(q, m)
<1>1. /\ Len(q) \in Nat /\ Len(a) = Len(q) + 1
      /\ \A k \in 1..Len(q) : a[k] = q[k]
      /\ a[Len(q) + 1] = m
  <2>1. Len(q) \in Nat
    BY Zenon, LenProperties
  <2> QED
    BY <2>1, AppendProperties
<1> HIDE DEF a
<1>2. \A k \in 1..Len(a) : k \in 1..Len(q) \/ k = Len(q) + 1
  BY <1>1
<1>3. \A k \in 1..Len(q) : q[k] # m
  BY Zenon DEF Waits
<1>4. m # fl
  <2>1. m # NoMsg
    BY ZenonT(30), ConstantsAssumption
  <2> QED
    BY <2>1 DEF Waits
<1>5. \A i, j \in 1..Len(a) : a[i] = a[j] => i = j
  <2>1. \A i, j \in 1..Len(q) : q[i] = q[j] => i = j
    BY Zenon DEF Waits
  <2> QED
    BY ZenonT(30), <1>1, <1>2, <1>3, <2>1
<1>6. \A i \in 1..Len(a) : a[i] \in wr \cup {m} /\ td[a[i]] = 0 /\ a[i] # fl
  <2>1. \A i \in 1..Len(q) : q[i] \in wr /\ td[q[i]] = 0 /\ q[i] # fl
    BY Zenon DEF Waits
  <2> QED
    BY ZenonT(30), <1>1, <1>2, <1>4, <2>1
<1> QED
  BY ZenonT(30), <1>5, <1>6 DEF Waits, a

(* PumpOut: the head of the queue becomes the message in nghttp2, and its   *)
(* notification the only one.                                               *)
LEMMA PumpWaits ==
    ASSUME LifeInv, WriteInv, form # "client", NEW q \in Seq(Msgs), NEW wr, PumpOut(q),
           Waits(q, out_inflight, wr, told), UNCHANGED <<form, stack>>
    PROVE  Waits(out_queue', out_inflight', wr, told) /\ Notices'
<1>1. CASE out_queue' = q /\ UNCHANGED <<out_inflight, notes>>
  BY <1>1 DEF WriteInv, Notices
<1>2. CASE out_inflight = NoMsg /\ q # <<>> /\ SendData(Head(q), Tail(q))
  <2>1. /\ Head(q) \in Msgs /\ Head(q) \in wr /\ told[Head(q)] = 0
        /\ Waits(Tail(q), NoMsg, wr, told)
        /\ \A i \in 1..Len(Tail(q)) : Tail(q)[i] # Head(q)
    BY ZenonT(30), <1>2, WaitsTail
  <2>2. Waits(Tail(q), Head(q), wr, told)
    BY <2>1 DEF Waits
  <2>3. notes = <<>> /\ Head(q) # NoMsg
    BY <1>2, <2>1, ConstantsAssumption DEF WriteInv, Notices
  <2>4. notes' = <<>> \/ (notes' = <<Head(q)>> /\ ~Closing)
    BY <1>2, <2>3 DEF SendData
  <2>5. DOMAIN stack = 1..Len(stack)
    BY LenProperties DEF LifeInv, Types
  <2>6. ~Closing => ~Has(stack, Ends)
    BY <2>5 DEF Closing, Active, Has, Ends
  <2>7. Notices'
    BY <1>2, <2>3, <2>4, <2>6 DEF Notices, SendData
  <2> QED
    BY <1>2, <2>2, <2>7 DEF SendData
<1> QED
  BY <1>1, <1>2 DEF PumpOut

(* Write: a refused message is settled at once, any other is counted.       *)
LEMMA WriteWrite ==
    ASSUME LifeInv, WriteInv, NEW m \in Msgs, Write(m)
    PROVE  WriteInv'
<1>1. /\ form # "client" /\ m \notin written /\ written' = written \cup {m}
      /\ UNCHANGED <<form, responded, finish_pending, ended, dispatched, handler_returned,
                     finished>>
  BY DEF Write, endVars, inVars, stateVars
<1>2. told \in [Msgs -> 0..1] /\ told[m] = 0
  BY <1>1 DEF WriteInv, Tellings
<1>3. stack \in Seq(Frame) /\ out_queue \in Seq(Msgs)
  BY DEF LifeInv, Types
<1>4. /\ Counted(Unsettled(written, told, stack), in_flight)
      /\ Waits(out_queue, out_inflight, written, told)
      /\ in_flight \in Nat /\ written \in SUBSET Msgs
  BY ZenonT(30), <1>1 DEF WriteInv, Counts, Tellings
<1>5. /\ m # out_inflight
      /\ \A i \in 1..Len(out_queue) : out_queue[i] # m
  <2>1. m # NoMsg
    BY ConstantsAssumption
  <2> QED
    BY ZenonT(30), <1>1, <1>4, <2>1 DEF Waits
<1>6. CASE Call("refused", m) /\ UNCHANGED <<stateVars, outVars, dangling>>
  <2> DEFINE f == F("refused", m)
  <2>1. f \in Frame /\ f.kind = "refused"
    BY FrameType DEF Kind
  <2>2. f.kind \notin Callbacks /\ f.kind \notin Ends /\ f.kind # "handler"
    BY <2>1 DEF Callbacks, Ends
  <2>3. stack' = <<f>> \o stack
    BY <1>6 DEF Call
  <2> HIDE DEF f
  <2>4. /\ \A kinds : Has(stack', kinds) <=> f.kind \in kinds \/ Has(stack, kinds)
        /\ Calling(stack') = Calling(stack) \cup {x \in {f.msg} : f.kind \in Callbacks}
        /\ OneEach(stack') <=>
              OneEach(stack) /\ (f.kind \in Callbacks => f.msg \notin Calling(stack))
    BY <1>3, <2>1, <2>3, OnTop
  <2>5. Calling(stack') = Calling(stack)
    BY <2>2, <2>4
  <2>6. /\ told' \in [Msgs -> 0..1] /\ told'[m] = 1
        /\ \A x \in Msgs \ {m} : told'[x] = told[x]
    BY SMTT(30), <1>2, <1>6 DEF Call
  <2>7. Tellings'
    <3>1. in_flight' = in_flight
      BY <1>6 DEF stateVars
    <3>2. \A x \in Calling(stack') : x \in Msgs /\ told'[x] = 1
      BY ZenonT(30), <2>5, <2>6 DEF WriteInv, Tellings
    <3>3. \A x \in Msgs : told'[x] = 1 => x \in written'
      BY ZenonT(30), <1>1, <2>6 DEF WriteInv, Tellings
    <3> QED
      BY <1>1, <2>2, <2>4, <2>6, <3>1, <3>2, <3>3 DEF WriteInv, Tellings
  <2>8. Unsettled(written, told, stack)' = Unsettled(written, told, stack)
    <3>1. \A x \in written' : told'[x] = 0 <=> x \in written /\ told[x] = 0
      BY <1>1, <2>6, <1>4
    <3> QED
      BY <1>1, <2>5, <3>1 DEF Unsettled
  <2>9. UNCHANGED <<in_flight, out_queue, out_inflight, notes>>
    BY ZenonT(30), <1>6 DEF stateVars, outVars
  <2>10. Waits(out_queue, out_inflight, written', told')
    BY ZenonT(30), <1>1, <1>3, <1>4, <1>5, <2>6, WaitsOn
  <2>11. Counts'
    BY <1>1, <1>4, <2>8, <2>9, <2>10 DEF Counts
  <2>12. Notices' /\ Returned'
    BY <1>1, <2>2, <2>4, <2>9 DEF WriteInv, Notices, Returned
  <2>13. OkIsLast'
    BY <1>1, <2>8, <2>9 DEF WriteInv, OkIsLast
  <2> QED
    BY <2>7, <2>11, <2>12, <2>13 DEF WriteInv
<1>7. CASE /\ ~finished /\ in_flight' = in_flight + 1
           /\ WriteMessage(m)
  <2>1. OkIsLast'
    BY <1>1, <1>7 DEF WriteInv, OkIsLast
  <2>2. in_flight' \in Nat
    BY <1>4, <1>7
  <2>3. Counted(Unsettled(written, told, stack) \cup {m}, in_flight')
    BY ZenonT(30), <1>4, <1>7, CountOneMore
  <2>4. CASE Call("dropped", m) /\ UNCHANGED outVars
    <3>0. "dropped" \in Callbacks
      BY DEF Callbacks
    <3>1. /\ Tellings'
          /\ Unsettled(written, told, stack)' = Unsettled(written, told, stack) \cup {m}
          /\ told'[m] = 1 /\ \A x \in Msgs \ {m} : told'[x] = told[x]
          /\ Has(stack', Ends) <=> Has(stack, Ends)
          /\ Has(stack', {"handler"}) <=> Has(stack, {"handler"})
      BY ZenonT(30), <1>1, <1>2, <2>2, <2>4, <3>0, CallTells
    <3>2. UNCHANGED <<out_queue, out_inflight, notes>>
      BY <2>4 DEF outVars
    <3>3. Waits(out_queue, out_inflight, written', told')
      <4>1. \A x \in written : told'[x] = told[x]
        BY <1>1, <1>4, <3>1
      <4>2. written \subseteq written'
        BY <1>1
      <4> QED
        BY ZenonT(30), <1>3, <1>4, <1>5, <4>1, <4>2, WaitsOn
    <3>4. Counts'
      BY ZenonT(30), <1>1, <2>3, <3>1, <3>2, <3>3 DEF Counts
    <3>5. Notices' /\ Returned'
      BY <1>1, <3>1, <3>2 DEF WriteInv, Notices, Returned
    <3> QED
      BY <2>1, <3>1, <3>4, <3>5 DEF WriteInv
  <2>5. CASE PumpOut(Append(out_queue, m)) /\ UNCHANGED <<stack, told>>
    <3>1. Append(out_queue, m) \in Seq(Msgs)
      BY <1>3, AppendProperties
    <3>2. Waits(Append(out_queue, m), out_inflight, written', told)
      BY ZenonT(30), <1>1, <1>2, <1>3, <1>4, WaitsAppend
    <3>3. Waits(out_queue', out_inflight', written', told) /\ Notices'
      BY ZenonT(30), <1>1, <2>5, <3>1, <3>2, PumpWaits
    <3>4. Tellings' /\ Returned'
      BY <1>1, <2>2, <2>5 DEF WriteInv, Tellings, Returned
    <3>5. Unsettled(written, told, stack)' = Unsettled(written, told, stack) \cup {m}
      BY <1>1, <1>2, <2>5 DEF Unsettled
    <3>6. Counts'
      BY ZenonT(30), <1>1, <2>3, <2>5, <3>3, <3>5 DEF Counts
    <3> QED
      BY <2>1, <3>3, <3>4, <3>6 DEF WriteInv
  <2> QED
    BY <1>7, <2>4, <2>5 DEF WriteMessage
<1> QED
  BY <1>6, <1>7 DEF Write

(* Done of a client-streaming handler: the OK waits for its one message.    *)
LEMMA DoneWrite ==
    ASSUME LifeInv, WriteInv, NEW m \in Msgs, Done(m)
    PROVE  WriteInv'
<1>1. /\ form = "client" /\ ~finished /\ finished' /\ written' = written \cup {m}
      /\ UNCHANGED <<form, in_flight, handler_returned, out_queue, notes, dispatched, told>>
      /\ FinishStream("Ok", out_inflight', stack)
  BY DEF Done, inVars
<1>2. ended # "Ok" /\ out_queue = <<>>
  BY <1>1 DEF WriteInv, OkIsLast, Counts
<1> DEFINE c == F("closing", NoMsg)
<1>3. c \in Frame /\ c.kind = "closing"
  BY FrameType DEF Kind
<1>4. c.kind \notin Callbacks /\ c.kind # "handler"
  BY <1>3 DEF Callbacks
<1>5. stack' = stack \/ stack' = <<c>> \o stack
  BY <1>1 DEF FinishStream, TrailersSent
<1> HIDE DEF c
<1>6. /\ Calling(stack') = Calling(stack) /\ (OneEach(stack) => OneEach(stack'))
      /\ Has(stack', {"handler"}) => Has(stack, {"handler"})
  <2>1. /\ \A kinds : Has(<<c>> \o stack, kinds) <=> c.kind \in kinds \/ Has(stack, kinds)
        /\ Calling(<<c>> \o stack) = Calling(stack) \cup {x \in {c.msg} : c.kind \in Callbacks}
        /\ OneEach(<<c>> \o stack) <=>
              OneEach(stack) /\ (c.kind \in Callbacks => c.msg \notin Calling(stack))
    BY <1>3, OnTop DEF LifeInv, Types
  <2>2. {x \in {c.msg} : c.kind \in Callbacks} = {}
    BY <1>4
  <2> QED
    BY ZenonT(30), <1>4, <1>5, <2>1, <2>2
<1>7. Tellings' /\ Counts' /\ Notices' /\ Returned'
  BY <1>1, <1>6 DEF WriteInv, Tellings, Counts, Notices, Returned
<1>8. OkIsLast'
  <2>1. CASE UNCHANGED endVars
    BY <1>2, <2>1 DEF WriteInv, OkIsLast, endVars
  <2>2. CASE responded' = TRUE /\ finish_pending' = (out_inflight' # NoMsg \/ out_queue # <<>>)
    BY ZenonT(30), <1>1, <1>2, <2>2 DEF OkIsLast
  <2> QED
    BY ZenonT(30), <1>1, <2>1, <2>2 DEF FinishStream
<1> QED
  BY <1>7, <1>8 DEF WriteInv

(* The stream finishes by itself when the count has become 0: no message is *)
(* unsettled then, so none waits anywhere.                                  *)
LEMMA AutoFinishWrite ==
    ASSUME LifeInv, WriteInv, NEW stk \in Seq(Frame), NEW n \in Nat, NEW returned \in BOOLEAN,
           MaybeAutoFinish(n, returned, stk),
           in_flight' = n, handler_returned' = returned, handler_returned => returned,
           returned =>
              form = "server" /\ dispatched # "no" /\ ~Has(stk, {"handler"}),
           OneEach(stk), Calling(stk) \subseteq Calling(stack),
           form # "client" => Counted(Unsettled(written, told, stk), n),
           \A kinds : Has(stk, kinds) => Has(stack, kinds) \/ "notified" \in kinds,
           UNCHANGED <<form, out_queue, out_inflight, notes, written, told, dispatched>>
    PROVE  WriteInv'
<1> DEFINE c == F("closing", NoMsg)
<1>1. c \in Frame /\ c.kind = "closing"
  BY FrameType DEF Kind
<1>2. c.kind \notin Callbacks /\ c.kind # "handler"
  BY <1>1 DEF Callbacks
<1>3. \/ stack' = stk
      \/ stack' = <<c>> \o stk /\ out_inflight = NoMsg
  BY ZenonT(30) DEF MaybeAutoFinish, FinishStream, TrailersSent
<1> HIDE DEF c
<1>4. /\ Calling(stack') = Calling(stk) /\ OneEach(stack')
      /\ Has(stack', {"handler"}) => Has(stk, {"handler"})
      /\ Has(stack', Ends) => Has(stk, Ends) \/ out_inflight = NoMsg
  <2>1. /\ \A kinds : Has(<<c>> \o stk, kinds) <=> c.kind \in kinds \/ Has(stk, kinds)
        /\ Calling(<<c>> \o stk) = Calling(stk) \cup {x \in {c.msg} : c.kind \in Callbacks}
        /\ OneEach(<<c>> \o stk) <=>
              OneEach(stk) /\ (c.kind \in Callbacks => c.msg \notin Calling(stk))
    BY <1>1, OnTop
  <2>2. {x \in {c.msg} : c.kind \in Callbacks} = {}
    BY <1>2
  <2> QED
    BY ZenonT(30), <1>2, <1>3, <2>1, <2>2
<1>5. Tellings'
  BY <1>4 DEF WriteInv, Tellings
<1>6. Unsettled(written, told, stack)' = Unsettled(written, told, stk)
  BY <1>4 DEF Unsettled
<1>7. Counts'
  <2>1. CASE form = "client"
    BY ZenonT(30), <2>1, <1>4 DEF WriteInv, Counts
  <2>2. CASE form # "client"
    BY <2>2, <1>6 DEF WriteInv, Counts
  <2> QED
    BY ZenonT(30), <2>1, <2>2
<1>8. Notices'
  <2>1. "notified" \notin Ends
    BY DEF Ends
  <2>2. Has(stack', Ends) => Has(stack, Ends) \/ out_inflight = NoMsg
    BY <1>4, <2>1
  <2> QED
    BY <2>2 DEF WriteInv, Notices
<1>9. Returned'
  <2>1. Has(stk, {"handler"}) => Has(stack, {"handler"})
    BY ZenonT(30)
  <2> QED
    BY <1>4, <2>1 DEF WriteInv, Returned
<1>10. OkIsLast'
  <2>1. CASE n = 0 /\ returned /\ ~finished /\ ~responded /\ finished' /\ responded' /\
             finish_pending' = (out_inflight # NoMsg \/ out_queue # <<>>)
    <3>1. form = "server" /\ Unsettled(written, told, stk) = {}
      <4>1. Counted(Unsettled(written, told, stk), 0)
        BY <2>1
      <4> QED
        BY <2>1, <4>1, CountZero
    <3>2. Waits(out_queue, out_inflight, written, told)
      BY <3>1 DEF WriteInv, Counts
    <3>3. \A m \in written : told[m] # 0
      BY ZenonT(30), <3>1 DEF Unsettled
    <3>4. out_inflight = NoMsg
      BY ZenonT(30), <3>2, <3>3 DEF Waits
    <3>5. out_queue = <<>>
      <4>1. out_queue \in Seq(Msgs)
        BY DEF LifeInv, Types
      <4>2. out_queue # <<>> => 1 \in 1..Len(out_queue)
        BY SMTT(30), <4>1, HeadTailProperties
      <4> QED
        BY <4>2, <3>2, <3>3 DEF Waits
    <3> QED
      BY ZenonT(30), <2>1, <3>1, <3>4, <3>5, <1>6 DEF OkIsLast
  <2>2. CASE UNCHANGED endVars /\ (finished => finished')
    <3>1. Unsettled(written, told, stk) \subseteq Unsettled(written, told, stack)
      BY DEF Unsettled
    <3> QED
      BY <2>2, <3>1, <1>6 DEF WriteInv, OkIsLast, endVars
  <2> QED
    BY <2>1, <2>2 DEF MaybeAutoFinish, FinishStream
<1> QED
  BY <1>5, <1>7, <1>8, <1>9, <1>10 DEF WriteInv

(* The handler returns; it is the outermost activation.                     *)
LEMMA HandlerReturnsWrite ==
    ASSUME LifeInv, WriteInv, stack # <<>>, HandlerReturns,
           UNCHANGED <<form, outVars, inVars, pumps, call, cancel_fired, written, told,
                       requests, reads>>
    PROVE  WriteInv'
<1>1. /\ Head(stack).kind = "handler" /\ Head(stack).kind \notin Callbacks
      /\ UNCHANGED <<in_flight, form, out_queue, out_inflight, notes, written, told, dispatched>>
  BY DEF HandlerReturns, Callbacks, outVars, inVars
<1>2. stack \in Seq(Frame) /\ finished \in BOOLEAN
  BY DEF LifeInv, Types
<1>3. CASE stack' = Tail(stack) /\ UNCHANGED <<finished, handler_returned, endVars, dangling>>
  <2>1. EndsQuietly
    BY <1>3 DEF EndsQuietly, endVars
  <2> QED
    BY <1>1, <1>3, <2>1, StayWrite
<1>4. CASE /\ FinishStream("Unimplemented", out_inflight, Tail(stack))
           /\ UNCHANGED <<finished, handler_returned>>
  <2>1. "Unimplemented" \in Status \ {"Ok"}
    BY DEF Status
  <2> QED
    BY ZenonT(30), <1>1, <1>4, <2>1, FinishWrite
<1>5. CASE /\ form = "server" /\ handler_returned' = TRUE
           /\ MaybeAutoFinish(in_flight, TRUE, Tail(stack))
  <2>1. /\ Tail(stack) \in Seq(Frame)
        /\ \A kinds : Has(stack, kinds) <=>
              Head(stack).kind \in kinds \/ Has(Tail(stack), kinds)
        /\ Calling(stack) =
              Calling(Tail(stack)) \cup {m \in {Head(stack).msg} : Head(stack).kind \in Callbacks}
        /\ OneEach(stack) <=>
              /\ OneEach(Tail(stack))
              /\ Head(stack).kind \in Callbacks => Head(stack).msg \notin Calling(Tail(stack))
    BY ZenonT(30), <1>2, TopOff
  <2>2. Calling(Tail(stack)) = Calling(stack)
    BY <1>1, <2>1
  <2>3. Unsettled(written, told, Tail(stack)) = Unsettled(written, told, stack)
    BY ZenonT(30), <2>2 DEF Unsettled
  <2>4. in_flight \in Nat /\ OneEach(Tail(stack))
    BY <2>1 DEF WriteInv, Tellings
  <2>5. Counted(Unsettled(written, told, Tail(stack)), in_flight)
    BY <1>5, <2>3 DEF WriteInv, Counts
  <2>6. dispatched # "no"
    <3>1. Has(stack, {"handler"})
      BY <1>1, <2>1
    <3> QED
      BY <3>1 DEF WriteInv, Returned
  <2>7. ~Has(Tail(stack), {"handler"})
    <3>1. Len(stack) = 1
      BY <1>1, <1>2, PopNested DEF LifeInv
    <3> DEFINE t == Tail(stack)
    <3>2. Len(t) = Len(stack) - 1
      BY <1>2, PopFrame
    <3> HIDE DEF t
    <3>3. Len(t) = 0
      BY <3>1, <3>2
    <3>4. ~Has(t, {"handler"})
      BY <3>3 DEF Has
    <3> QED
      BY ZenonT(30), <3>4 DEF t
  <2> DEFINE stk == Tail(stack)
  <2> HIDE DEF stk
  <2>8. \A kinds : Has(stk, kinds) => Has(stack, kinds) \/ "notified" \in kinds
    BY ZenonT(30), <2>1 DEF stk
  <2> QED
    BY ZenonT(30), <1>1, <1>5, <2>1, <2>2, <2>4, <2>5, <2>6, <2>7, <2>8, AutoFinishWrite DEF stk
<1> QED
  BY ZenonT(30), <1>1, <1>2, <1>3, <1>4, <1>5 DEF HandlerReturns

(* A `delivered` callback returns: its message is settled.                  *)
LEMMA DeliveredWrite ==
    ASSUME LifeInv, WriteInv, stack # <<>>, DeliveredReturns,
           UNCHANGED <<form, outVars, inVars, pumps, call, cancel_fired, written, told,
                       requests, reads>>
    PROVE  WriteInv'
<1> DEFINE h == Head(stack)
           t == Tail(stack)
           g == F("notified", NoMsg)
<1>1. stack \in Seq(Frame)
  BY ZenonT(30) DEF LifeInv, Types
<1>2. /\ t \in Seq(Frame)
      /\ \A kinds : Has(stack, kinds) <=> h.kind \in kinds \/ Has(t, kinds)
      /\ Calling(stack) = Calling(t) \cup {m \in {h.msg} : h.kind \in Callbacks}
      /\ OneEach(stack) <=> OneEach(t) /\ (h.kind \in Callbacks => h.msg \notin Calling(t))
  BY ZenonT(30), <1>1, TopOff
<1>3. h.kind \in Callbacks
  BY DEF DeliveredReturns, Callbacks
<1>4. g \in Frame /\ g.kind = "notified"
  BY FrameType DEF Kind
<1>5. g.kind \notin Callbacks /\ g.kind # "handler"
  BY <1>4 DEF Callbacks
<1>6. OnDelivered(t) \/ OnDelivered(<<g>> \o t)
  BY ZenonT(30) DEF DeliveredReturns
<1> HIDE DEF h, t, g
<1>7. Calling(stack) = Calling(t) \cup {h.msg} /\ h.msg \notin Calling(t) /\ OneEach(t)
  BY <1>2, <1>3 DEF WriteInv, Tellings
<1>8. form # "client"
  BY <1>7 DEF WriteInv, Counts
<1>9. PICK stk \in {t, <<g>> \o t} : OnDelivered(stk)
  BY <1>6
<1>10. /\ stk \in Seq(Frame) /\ Calling(stk) = Calling(t) /\ OneEach(stk)
       /\ \A kinds : Has(stk, kinds) => Has(t, kinds) \/ "notified" \in kinds
  <2>1. CASE stk = t
    BY ZenonT(30), <2>1, <1>2, <1>7
  <2>2. CASE stk = <<g>> \o t
    <3>1. /\ \A kinds : Has(<<g>> \o t, kinds) <=> g.kind \in kinds \/ Has(t, kinds)
          /\ Calling(<<g>> \o t) = Calling(t) \cup {m \in {g.msg} : g.kind \in Callbacks}
          /\ OneEach(<<g>> \o t) <=>
                OneEach(t) /\ (g.kind \in Callbacks => g.msg \notin Calling(t))
      BY <1>2, <1>4, OnTop
    <3>2. {m \in {g.msg} : g.kind \in Callbacks} = {}
      BY <1>5
    <3>3. stk \in Seq(Frame)
      BY ZenonT(30), <2>2, <1>2, <1>4, PushFrame
    <3> QED
      BY ZenonT(30), <2>2, <1>4, <1>5, <1>7, <3>1, <3>2, <3>3
  <2> QED
    BY <1>9, <2>1, <2>2
<1>11. /\ Unsettled(written, told, stk) = Unsettled(written, told, stack) \ {h.msg}
       /\ h.msg \in Unsettled(written, told, stack)
  <2>1. told[h.msg] = 1
    BY <1>7 DEF WriteInv, Tellings
  <2> QED
    <3> DEFINE U == {m \in written : told[m] = 0}
    <3>1. h.msg \notin U
      BY <2>1
    <3>2. /\ Unsettled(written, told, stk) = U \cup Calling(t)
          /\ Unsettled(written, told, stack) = U \cup (Calling(t) \cup {h.msg})
      BY Zenon, <1>7, <1>10 DEF Unsettled
    <3> HIDE DEF U
    <3> QED
      BY Zenon, <1>7, <3>1, <3>2
<1>12. /\ Counted(Unsettled(written, told, stack), in_flight) /\ in_flight \in Nat
  BY <1>8 DEF WriteInv, Counts, Tellings
<1>13. in_flight - 1 \in Nat /\ Counted(Unsettled(written, told, stk), in_flight - 1)
  BY SMTT(30), <1>11, <1>12, CountOneLess
<1>14. /\ handler_returned \in BOOLEAN
       /\ handler_returned => form = "server" /\ dispatched # "no" /\ ~Has(stk, {"handler"})
  <2>1. "notified" \notin {"handler"}
    OBVIOUS
  <2> QED
    BY <1>2, <1>10, <2>1 DEF WriteInv, Returned
<1>15. /\ in_flight' = in_flight - 1 /\ UNCHANGED handler_returned
       /\ MaybeAutoFinish(in_flight - 1, handler_returned, stk)
       /\ UNCHANGED <<form, out_queue, out_inflight, notes, written, told, dispatched>>
  BY ZenonT(30), <1>9 DEF OnDelivered, outVars, inVars
<1>16. \A kinds : Has(stk, kinds) => Has(stack, kinds) \/ "notified" \in kinds
  BY <1>2, <1>10
<1>17. Calling(stk) \subseteq Calling(stack)
  BY ZenonT(30), <1>7, <1>10
<1> DEFINE n == in_flight - 1
<1> HIDE DEF n
<1>18. n \in Nat /\ in_flight' = n /\ MaybeAutoFinish(n, handler_returned, stk)
       /\ Counted(Unsettled(written, told, stk), n)
  BY ZenonT(30), <1>13, <1>15 DEF n
<1> QED
  BY <1>10, <1>14, <1>15, <1>16, <1>17, <1>18, AutoFinishWrite

(* Returns of activations of the user.                                      *)
LEMMA ReturnWrite ==
    ASSUME LifeInv, WriteInv, Return
    PROVE  WriteInv'
<1>1. stack # <<>>
  BY DEF Return, UserRuns
<1> QED
  BY <1>1, HandlerReturnsWrite, OthersReturnWrite, DeliveredWrite, DeadlineReturnsWrite DEF Return

(* FlushOut tells the message that was inside nghttp2.                      *)
LEMMA NotifyWrite ==
    ASSUME LifeInv, WriteInv, Notify
    PROVE  WriteInv'
<1>1. /\ notes # <<>> /\ notes' = Tail(notes) /\ out_inflight' = NoMsg
      /\ UNCHANGED <<form, in_flight, handler_returned, finished, out_queue, responded,
                     finish_pending, ended, dispatched, written>>
  BY ZenonT(30) DEF Notify, MustNotify, stateVars, endVars, inVars
<1>2. CASE form = "client"
  <2> DEFINE f == F("notified", NoMsg)
  <2>1. f \in Frame /\ f.kind = "notified"
    BY FrameType DEF Kind
  <2>2. f.kind \notin Callbacks /\ f.kind # "handler"
    BY <2>1 DEF Callbacks
  <2>3. stack' = <<f>> \o stack /\ told' = told
    BY ZenonT(30), <1>2 DEF Notify, Enter
  <2> HIDE DEF f
  <2>4. /\ Calling(stack') = Calling(stack) /\ (OneEach(stack) => OneEach(stack'))
        /\ Has(stack', {"handler"}) => Has(stack, {"handler"})
    <3>1. /\ \A kinds : Has(stack', kinds) <=> f.kind \in kinds \/ Has(stack, kinds)
          /\ Calling(stack') = Calling(stack) \cup {x \in {f.msg} : f.kind \in Callbacks}
          /\ OneEach(stack') <=>
                OneEach(stack) /\ (f.kind \in Callbacks => f.msg \notin Calling(stack))
      BY <2>1, <2>3, OnTop DEF LifeInv, Types
    <3>2. {x \in {f.msg} : f.kind \in Callbacks} = {}
      BY <2>2
    <3> QED
      BY ZenonT(30), <2>2, <3>1, <3>2
  <2> QED
    BY <1>1, <1>2, <2>3, <2>4
       DEF WriteInv, Tellings, Counts, Notices, Returned, OkIsLast
<1>3. CASE form # "client"
  <2>1. notes = <<out_inflight>> /\ out_inflight # NoMsg /\ ~Has(stack, Ends)
    BY ZenonT(30), <1>1, <1>3 DEF WriteInv, Notices
  <2>2. /\ Waits(out_queue, out_inflight, written, told)
        /\ Counted(Unsettled(written, told, stack), in_flight)
        /\ written \in SUBSET Msgs /\ in_flight \in Nat /\ out_queue \in Seq(Msgs)
    BY ZenonT(30), <1>3 DEF WriteInv, Counts, Tellings, LifeInv, Types
  <2> DEFINE m == out_inflight
  <2>3. m \in Msgs /\ m \in written /\ told[m] = 0 /\ \A i \in 1..Len(out_queue) : out_queue[i] # m
    BY ZenonT(30), <2>1, <2>2 DEF Waits
  <2>4. notes' = <<>> /\ Call("sent", m)
    BY SMTT(30), <1>1, <1>3, <2>1 DEF Notify
  <2> HIDE DEF m
  <2>5. "sent" \in Callbacks /\ written' = written \cup {m} /\ in_flight' \in Nat
    <3>1. "sent" \in Callbacks
      BY Zenon DEF Callbacks
    <3>2. written \cup {m} = written
      BY Zenon, <2>3
    <3> QED
      BY Zenon, <1>1, <2>2, <3>1, <3>2
  <2>6. /\ Tellings'
        /\ Unsettled(written, told, stack)' = Unsettled(written, told, stack) \cup {m}
        /\ told'[m] = 1 /\ \A x \in Msgs \ {m} : told'[x] = told[x]
        /\ Has(stack', {"handler"}) <=> Has(stack, {"handler"})
    BY ZenonT(30), <1>1, <2>3, <2>4, <2>5, CallTells
  <2>7. Unsettled(written, told, stack)' = Unsettled(written, told, stack)
    <3>1. m \in Unsettled(written, told, stack)
      BY Zenon, <2>3 DEF Unsettled
    <3> QED
      BY Zenon, <2>6, <3>1
  <2>8. Waits(out_queue, NoMsg, written, told')
    <3>1. NoMsg \notin Msgs
      BY ZenonT(30), ConstantsAssumption
    <3>2. \A x \in written : (\E i \in 1..Len(out_queue) : out_queue[i] = x) \/ x = NoMsg
                                => told'[x] = told[x]
      BY ZenonT(30), <2>2, <2>3, <2>6, <3>1
    <3> QED
      BY ZenonT(30), <2>2, <3>2, WaitsOn
  <2>9. Counts'
    BY ZenonT(30), <1>1, <1>3, <2>2, <2>7, <2>8 DEF Counts
  <2>10. Notices' /\ Returned'
    BY ZenonT(30), <1>1, <2>4, <2>6 DEF WriteInv, Notices, Returned
  <2>11. OkIsLast'
    BY ZenonT(30), <1>1, <2>7 DEF WriteInv, OkIsLast
  <2> QED
    BY ZenonT(30), <2>6, <2>9, <2>10, <2>11 DEF WriteInv
<1> QED
  BY <1>2, <1>3

(* CancelStreamIo answers the reader, or tells the head of the queue.       *)
LEMMA CancelStreamIoWrite ==
    ASSUME LifeInv, WriteInv, CancelStreamIo
    PROVE  WriteInv'
<1>1. /\ UNCHANGED <<form, in_flight, handler_returned, finished, out_inflight, notes,
                     responded, finish_pending, ended, dispatched, written>>
  BY ZenonT(30) DEF CancelStreamIo, stateVars, endVars
<1>2. CASE Enter("read") /\ UNCHANGED <<out_queue, told>>
  <2>1. EndsQuietly
    BY <1>1 DEF EndsQuietly
  <2>2. "read" \in Kind /\ "read" \notin Callbacks /\ "read" \notin Ends
    BY ZenonT(30) DEF Kind, Callbacks, Ends
  <2> QED
    BY <1>1, <1>2, <2>1, <2>2, EnterWrite
<1>3. CASE /\ out_queue # <<>> /\ out_queue' = Tail(out_queue)
           /\ Call("dropped", Head(out_queue))
  <2>1. form # "client"
    BY ZenonT(30), <1>3 DEF WriteInv, Counts
  <2>2. /\ Waits(out_queue, out_inflight, written, told)
        /\ Counted(Unsettled(written, told, stack), in_flight)
        /\ written \in SUBSET Msgs /\ in_flight \in Nat /\ out_queue \in Seq(Msgs)
    BY <2>1 DEF WriteInv, Counts, Tellings, LifeInv, Types
  <2> DEFINE m == Head(out_queue)
             q == Tail(out_queue)
  <2>3. /\ m \in Msgs /\ q \in Seq(Msgs) /\ m \in written /\ told[m] = 0 /\ m # out_inflight
        /\ Waits(q, out_inflight, written, told)
        /\ \A i \in 1..Len(q) : q[i] # m
    BY <1>3, <2>2, WaitsTail
  <2>4. out_queue' = q /\ Call("dropped", m)
    BY ZenonT(30), <1>3
  <2> HIDE DEF m, q
  <2>5. "dropped" \in Callbacks /\ written' = written \cup {m} /\ in_flight' \in Nat
    BY ZenonT(30), <1>1, <2>2, <2>3 DEF Callbacks
  <2>6. /\ Tellings'
        /\ Unsettled(written, told, stack)' = Unsettled(written, told, stack) \cup {m}
        /\ told'[m] = 1 /\ \A x \in Msgs \ {m} : told'[x] = told[x]
        /\ Has(stack', Ends) <=> Has(stack, Ends)
        /\ Has(stack', {"handler"}) <=> Has(stack, {"handler"})
    BY ZenonT(30), <1>1, <2>3, <2>4, <2>5, CallTells
  <2>7. Unsettled(written, told, stack)' = Unsettled(written, told, stack)
    BY ZenonT(30), <2>3, <2>6 DEF Unsettled
  <2>8. Waits(q, out_inflight, written, told')
    <3>1. \A x \in written : (\E i \in 1..Len(q) : q[i] = x) \/ x = out_inflight
                                => told'[x] = told[x]
      BY ZenonT(30), <2>2, <2>3, <2>6
    <3> QED
      BY ZenonT(30), <2>2, <2>3, <3>1, WaitsOn
  <2>9. Counts'
    BY ZenonT(30), <1>1, <2>1, <2>2, <2>4, <2>7, <2>8 DEF Counts
  <2>10. Notices' /\ Returned'
    BY ZenonT(30), <1>1, <2>6 DEF WriteInv, Notices, Returned
  <2>11. OkIsLast'
    BY <1>1, <1>3, <2>7 DEF WriteInv, OkIsLast
  <2> QED
    BY <2>6, <2>9, <2>10, <2>11 DEF WriteInv
<1> QED
  BY ZenonT(30), <1>2, <1>3 DEF CancelStreamIo

(* The erased call drops what it held; its messages stay unsettled.         *)
LEMMA EraseWrite ==
    ASSUME LifeInv, WriteInv, Erase
    PROVE  WriteInv'
<1>1. /\ stack # <<>> /\ Head(stack).kind \in Ends /\ stack' = Tail(stack)
      /\ out_queue' = <<>> /\ out_inflight' = NoMsg
      /\ UNCHANGED <<form, in_flight, handler_returned, finished, notes, responded,
                     finish_pending, ended, dispatched, written, told>>
  BY DEF Erase, Ends, stateVars, endVars, inVars, histVars
<1>2. Head(stack).kind \notin Callbacks
  BY <1>1 DEF Ends, Callbacks
<1>3. stack \in Seq(Frame)
  BY ZenonT(30) DEF LifeInv, Types
<1>4. /\ Calling(stack') = Calling(stack) /\ (OneEach(stack) => OneEach(stack'))
      /\ Has(stack', {"handler"}) => Has(stack, {"handler"})
      /\ Has(stack, Ends)
  <2>1. /\ \A kinds : Has(stack, kinds) <=>
              Head(stack).kind \in kinds \/ Has(Tail(stack), kinds)
        /\ Calling(stack) =
              Calling(Tail(stack)) \cup {m \in {Head(stack).msg} : Head(stack).kind \in Callbacks}
        /\ OneEach(stack) => OneEach(Tail(stack))
    BY <1>1, <1>3, TopOff
  <2>2. {m \in {Head(stack).msg} : Head(stack).kind \in Callbacks} = {}
    BY ZenonT(30), <1>2
  <2>3. Calling(stack') = Calling(stack) /\ (OneEach(stack) => OneEach(stack'))
    BY Zenon, <1>1, <2>1, <2>2
  <2>4. (Has(stack', {"handler"}) => Has(stack, {"handler"})) /\ Has(stack, Ends)
    BY Zenon, <1>1, <2>1
  <2> QED
    BY Zenon, <2>3, <2>4
<1>5. Tellings' /\ Returned'
  BY <1>1, <1>4 DEF WriteInv, Tellings, Returned
<1>6. Unsettled(written, told, stack)' = Unsettled(written, told, stack)
  BY <1>1, <1>4 DEF Unsettled
<1>7. Waits(<<>>, NoMsg, written, told)
  <2>1. Len(<<>>) = 0
    OBVIOUS
  <2> QED
    BY <2>1 DEF Waits
<1>8. Counts'
  <2>1. CASE form = "client"
    BY ZenonT(30), <1>1, <1>4, <2>1 DEF WriteInv, Counts
  <2>2. CASE form # "client"
    BY ZenonT(30), <1>1, <1>6, <1>7, <2>2 DEF WriteInv, Counts
  <2> QED
    BY <2>1, <2>2
<1>9. Notices'
  BY ZenonT(30), <1>1, <1>4 DEF WriteInv, Notices
<1>10. OkIsLast'
  BY <1>1, <1>6 DEF WriteInv, OkIsLast
<1> QED
  BY ZenonT(30), <1>5, <1>8, <1>9, <1>10 DEF WriteInv

(* A posted PumpOut, and nghttp2 consuming the body it held.                *)
LEMMA PumpWrite ==
    ASSUME LifeInv, WriteInv, RunPump \/ Unblock
    PROVE  WriteInv'
<1>1. /\ UNCHANGED <<form, in_flight, handler_returned, finished, responded, finish_pending,
                     ended, dispatched, written, told, stack>>
      /\ stack = <<>> /\ notes = <<>>
  BY ZenonT(30) DEF RunPump, Unblock, Idle, stateVars, endVars, inVars, histVars
<1>2. Tellings' /\ Returned'
  BY <1>1 DEF WriteInv, Tellings, Returned
<1>3. Unsettled(written, told, stack)' = Unsettled(written, told, stack)
  BY <1>1 DEF Unsettled
<1>4. CASE RunPump
  <2>1. PumpOut(out_queue) /\ out_queue \in Seq(Msgs)
    BY ZenonT(30), <1>4 DEF RunPump, LifeInv, Types
  <2>2. CASE form = "client"
    <3>1. out_queue' = <<>> /\ UNCHANGED <<out_inflight, notes>>
      BY <2>1, <2>2 DEF PumpOut, WriteInv, Counts
    <3> QED
      BY <1>1, <1>2, <1>3, <2>2, <3>1 DEF WriteInv, Counts, Notices, OkIsLast
  <2>3. CASE form # "client"
    <3>1. /\ Waits(out_queue, out_inflight, written, told)
          /\ Counted(Unsettled(written, told, stack), in_flight)
      BY <2>3 DEF WriteInv, Counts
    <3>2. Waits(out_queue', out_inflight', written, told) /\ Notices'
      BY ZenonT(30), <1>1, <2>1, <2>3, <3>1, PumpWaits
    <3>3. Counts'
      BY ZenonT(30), <1>1, <1>3, <2>3, <3>1, <3>2 DEF Counts
    <3>4. OkIsLast'
      <4>1. responded => UNCHANGED <<out_queue, out_inflight>>
        BY <2>1 DEF PumpOut
      <4> QED
        BY <1>1, <1>3, <4>1 DEF WriteInv, OkIsLast
    <3> QED
      BY <1>2, <3>2, <3>3, <3>4 DEF WriteInv
  <2> QED
    BY ZenonT(30), <2>2, <2>3
<1>5. CASE Unblock
  <2>1. /\ notes' = <<out_inflight>> /\ out_inflight # NoMsg
        /\ UNCHANGED <<out_queue, out_inflight>>
    BY <1>5 DEF Unblock
  <2>2. Counts'
    BY <1>1, <1>3, <2>1 DEF WriteInv, Counts
  <2>3. Notices'
    <3>1. Len(stack) = 0
      BY <1>1
    <3>2. ~Has(stack, Ends)
      BY SMTT(30), <3>1 DEF Has
    <3> QED
      BY <1>1, <2>1, <3>2 DEF Notices
  <2>4. OkIsLast'
    BY <1>1, <1>3, <2>1 DEF WriteInv, OkIsLast
  <2> QED
    BY <1>2, <2>2, <2>3, <2>4 DEF WriteInv
<1> QED
  BY ZenonT(30), <1>4, <1>5

(* Every step keeps the invariant of the writes.                            *)
LEMMA NextWrite ==
    ASSUME LifeInv, WriteInv, [Next]_vars
    PROVE  WriteInv'
<1>1. CASE UNCHANGED vars
  <2>1. EndsQuietly
    BY <1>1 DEF vars, endVars, EndsQuietly
  <2> QED
    BY ZenonT(30), <1>1, <2>1, StayWrite DEF vars, stateVars, outVars, inVars, histVars
<1>2. CASE Next
  BY <1>2, WriteWrite, DoneWrite, UserQuietWrite, ReturnWrite, NotifyWrite, NotifiedWrite,
     CancelStreamIoWrite, FireCancelWrite, EraseWrite, EventsWrite, RequestWrite, PumpWrite
     DEF Next
<1> QED
  BY ZenonT(30), <1>1, <1>2

(* The invariant of the writes holds in every reachable state.              *)
THEOREM WriteInvariant == Spec => []WriteInv
<1>1. ASSUME Init
      PROVE  WriteInv
  <2>1. Len(stack) = 0 /\ Len(out_queue) = 0
    BY <1>1 DEF Init
  <2>2. Calling(stack) = {} /\ OneEach(stack) /\ \A kinds : ~Has(stack, kinds)
    BY <2>1 DEF Calling, OneEach, Has
  <2>3. Tellings
    <3>1. form \in AllForms
      BY <1>1, ConstantsAssumption DEF Init
    <3> QED
      BY <1>1, <2>2, <3>1 DEF Init, Tellings
  <2>4. Unsettled(written, told, stack) = {} /\ in_flight = 0
    BY ZenonT(30), <1>1, <2>2 DEF Init, Unsettled
  <2>5. Counts
    <3>1. Counted({}, 0)
      BY CountEmpty
    <3>2. Waits(out_queue, out_inflight, written, told)
      BY <1>1, <2>1 DEF Init, Waits
    <3> QED
      BY ZenonT(30), <1>1, <2>2, <2>4, <3>1, <3>2 DEF Init, Counts
  <2>6. Notices /\ Returned /\ OkIsLast
    BY ZenonT(30), <1>1, <2>2 DEF Init, Notices, Returned, OkIsLast
  <2> QED
    BY <2>3, <2>5, <2>6 DEF WriteInv
<1> QED
  BY <1>1, NextWrite, LifeInvariant, PTL DEF Spec

(* An OK is the last thing on a server stream, for any number of messages   *)
(* and any nesting: the queue and nghttp2 hold nothing that it could cut    *)
(* off, and the automatic OK follows every `delivered` callback.            *)
THEOREM OkComesLastCorrect == Spec => []OkComesLast
<1>1. LifeInv /\ WriteInv => OkComesLast
  <2> SUFFICES ASSUME LifeInv, WriteInv, ended = "Ok"
               PROVE  /\ out_queue = <<>>
                      /\ finish_pending \/ out_inflight = NoMsg
                      /\ form = "server" =>
                            /\ ~finish_pending
                            /\ \A m \in written : told[m] = 1
                            /\ ~Active("handler") /\ ~Active("sent") /\ ~Active("dropped")
    BY DEF OkComesLast
  <2>1. /\ out_queue = <<>> /\ (finish_pending \/ out_inflight = NoMsg)
        /\ form = "server" => /\ ~finish_pending /\ handler_returned
                              /\ Unsettled(written, told, stack) = {}
    BY DEF WriteInv, OkIsLast
  <2>2. ASSUME form = "server"
        PROVE  /\ \A m \in written : told[m] = 1
               /\ ~Active("handler") /\ ~Active("sent") /\ ~Active("dropped")
    <3>1. Calling(stack) = {} /\ \A m \in written : told[m] # 0
      BY <2>1, <2>2 DEF Unsettled
    <3>2. \A m \in written : told[m] = 1
      BY <3>1 DEF WriteInv, Tellings
    <3>3. ~Has(stack, {"handler"})
      BY <2>1, <2>2 DEF WriteInv, Returned
    <3>4. DOMAIN stack = 1..Len(stack)
      BY ZenonT(30), LenProperties DEF LifeInv, Types
    <3>5. ~Active("handler")
      BY ZenonT(30), <3>3, <3>4 DEF Active, Has
    <3>6. ~Active("sent") /\ ~Active("dropped")
      BY ZenonT(30), <3>1, <3>4 DEF Active, Calling, Callbacks
    <3> QED
      BY <3>2, <3>5, <3>6
  <2> QED
    BY <2>1, <2>2
<1> QED
  BY <1>1, LifeInvariant, WriteInvariant, PTL
=============================================================================
