--------------------------- MODULE H2SessionProofs ---------------------------
(***************************************************************************)
(* Proofs about H2Session, for any number of streams and bodies, any sizes *)
(* and windows, and calls that nest to any depth.                          *)
(***************************************************************************)
EXTENDS H2Session, TLAPS

-----------------------------------------------------------------------------
(* Sequences.  These few facts stand in for the library of sequence          *)
(* theorems, which every obligation would otherwise carry along.             *)

(* The elements of a sequence. *)
LEMMA ElementOfSeq ==
    ASSUME NEW V, NEW q \in Seq(V), NEW n \in 1..Len(q)
    PROVE  q[n] \in V
OBVIOUS

(* The empty sequence is the one of length 0. *)
LEMMA EmptySeq ==
    ASSUME NEW V
    PROVE  /\ <<>> \in Seq(V) /\ Len(<<>>) = 0
           /\ \A q \in Seq(V) : (q = <<>>) <=> (Len(q) = 0)
OBVIOUS

(* A sequence is a function on 1..Len(q). *)
LEMMA LenProperties ==
    ASSUME NEW V, NEW q \in Seq(V)
    PROVE  /\ Len(q) \in Nat /\ DOMAIN q = 1..Len(q)
           /\ q \in [1..Len(q) -> V]
OBVIOUS

(* What Append returns. *)
LEMMA AppendProperties ==
    ASSUME NEW V, NEW q \in Seq(V), NEW e \in V
    PROVE  /\ Append(q, e) \in Seq(V) /\ Append(q, e) # <<>>
           /\ Len(q) \in Nat /\ DOMAIN q = 1..Len(q)
           /\ Len(Append(q, e)) = Len(q) + 1 /\ DOMAIN Append(q, e) = 1..(Len(q) + 1)
           /\ \A k \in 1..Len(q) : Append(q, e)[k] = q[k]
           /\ Append(q, e)[Len(q) + 1] = e
OBVIOUS

(* What Head and Tail return. *)
LEMMA HeadTailProperties ==
    ASSUME NEW V, NEW q \in Seq(V), q # <<>>
    PROVE  /\ Head(q) \in V /\ Head(q) = q[1]
           /\ Tail(q) \in Seq(V)
           /\ Len(q) \in Nat \ {0} /\ Len(Tail(q)) = Len(q) - 1
           /\ \A k \in 1..(Len(q) - 1) : Tail(q)[k] = q[k + 1]
OBVIOUS

(* What concatenation returns. *)
LEMMA ConcatProperties ==
    ASSUME NEW V, NEW p \in Seq(V), NEW q \in Seq(V)
    PROVE  /\ p \o q \in Seq(V)
           /\ Len(p) \in Nat /\ DOMAIN p = 1..Len(p)
           /\ Len(q) \in Nat /\ DOMAIN q = 1..Len(q)
           /\ Len(p \o q) = Len(p) + Len(q) /\ DOMAIN (p \o q) = 1..(Len(p) + Len(q))
           /\ \A k \in 1..(Len(p) + Len(q)) :
                 (p \o q)[k] = IF k <= Len(p) THEN p[k] ELSE q[k - Len(p)]
OBVIOUS

(* Sequences are equal if they agree everywhere. *)
LEMMA SeqEqual ==
    ASSUME NEW V, NEW p \in Seq(V), NEW q \in Seq(V), Len(p) = Len(q),
           \A k \in 1..Len(p) : p[k] = q[k]
    PROVE  p = q
OBVIOUS

-----------------------------------------------------------------------------
(* The call stack, element by element *)

Frames == FlushFrame \cup OwnerFrame \cup RecvFrame \cup AfterFrame

(* What is left of a sequence without its last element. *)
LEMMA PrefixProperties ==
    ASSUME NEW V, NEW q \in Seq(V), q # <<>>, NEW n \in Nat, n = Len(q) - 1
    PROVE  /\ SubSeq(q, 1, n) \in Seq(V)
           /\ Len(SubSeq(q, 1, n)) = n
           /\ \A i \in 1..n : SubSeq(q, 1, n)[i] = q[i]
<1>1. SubSeq(q, 1, n) \in Seq(V)
  OBVIOUS
<1>2. Len(SubSeq(q, 1, n)) = n
  OBVIOUS
<1>3. \A i \in 1..n : SubSeq(q, 1, n)[i] = q[i]
  OBVIOUS
<1>. QED
  BY <1>1, <1>2, <1>3

(* What Front returns: all but the last element. *)
LEMMA FrontProperties ==
    ASSUME NEW S, NEW q \in Seq(S), q # <<>>
    PROVE  /\ Front(q) \in Seq(S)
           /\ Len(Front(q)) = Len(q) - 1
           /\ \A i \in 1..Len(q) - 1 : Front(q)[i] = q[i]
           /\ Len(q) \in Nat /\ Len(q) > 0
<1>1. Len(q) \in Nat /\ Len(q) > 0 /\ Len(q) - 1 \in Nat
  BY EmptySeq, LenProperties
<1>. QED
  BY ZenonT(30), <1>1, PrefixProperties DEF Front

(* Goto replaces the frame on top. *)
LEMMA GotoProperties ==
    ASSUME stack \in Seq(Frames), stack # <<>>, NEW f \in Frames, Goto(f)
    PROVE  /\ stack' \in Seq(Frames) /\ Len(stack') = Len(stack)
           /\ Len(stack) \in Nat /\ Len(stack) > 0
           /\ \A i \in 1..Len(stack) - 1 : stack'[i] = stack[i]
           /\ stack'[Len(stack)] = f
<1>1. /\ Front(stack) \in Seq(Frames) /\ Len(Front(stack)) = Len(stack) - 1
      /\ \A i \in 1..Len(stack) - 1 : Front(stack)[i] = stack[i]
      /\ Len(stack) \in Nat /\ Len(stack) > 0
  BY FrontProperties
<1>2. stack' = Append(Front(stack), f)
  BY DEF Goto
<1>. QED
  BY <1>1, <1>2, AppendProperties

(* Return removes it. *)
LEMMA ReturnProperties ==
    ASSUME stack \in Seq(Frames), stack # <<>>, Return
    PROVE  /\ stack' \in Seq(Frames) /\ Len(stack') = Len(stack) - 1
           /\ Len(stack) \in Nat /\ Len(stack) > 0
           /\ \A i \in 1..Len(stack) - 1 : stack'[i] = stack[i]
  BY FrontProperties DEF Return

(* A call puts its frames on top. *)
LEMMA CallProperties ==
    ASSUME stack \in Seq(Frames), NEW fs \in Seq(Frames), Call(fs)
    PROVE  /\ stack' \in Seq(Frames) /\ Len(stack') = Len(stack) + Len(fs)
           /\ Len(stack) \in Nat /\ Len(fs) \in Nat
           /\ \A i \in 1..Len(stack) : stack'[i] = stack[i]
           /\ \A i \in 1..Len(fs) : stack'[Len(stack) + i] = fs[i]
<1>1. stack' = stack \o fs /\ Len(stack) \in Nat /\ Len(fs) \in Nat
  BY LenProperties DEF Call
<1>2. /\ stack' \in Seq(Frames) /\ Len(stack') = Len(stack) + Len(fs)
      /\ \A i \in 1..Len(stack) + Len(fs) :
            stack'[i] = IF i <= Len(stack) THEN stack[i] ELSE fs[i - Len(stack)]
  BY <1>1, ConcatProperties
<1>. QED
  BY <1>1, <1>2

(* Recv takes one from the frame on top, and puts frames on it. *)
LEMMA RecvProperties ==
    ASSUME stack \in Seq(Frames), NEW fs \in Seq(Frames), Recv(fs)
    PROVE  /\ stack' \in Seq(Frames) /\ Len(stack') = Len(stack) + Len(fs)
           /\ Len(stack) \in Nat /\ Len(stack) > 0 /\ Len(fs) \in Nat
           /\ \A i \in 1..Len(stack) : stack'[i].at = stack[i].at
           /\ \A i \in 1..Len(stack) - 1 : stack'[i] = stack[i]
           /\ stack[Len(stack)].at = "recv"
           /\ \A i \in 1..Len(fs) : stack'[Len(stack) + i] = fs[i]
<1>. DEFINE top == [Last(stack) EXCEPT !.left = @ - 1]
<1>0. stack # <<>> /\ Last(stack).at = "recv" /\ Last(stack).left > 0
  BY DEF Recv, At
<1>1. /\ Front(stack) \in Seq(Frames) /\ Len(Front(stack)) = Len(stack) - 1
      /\ \A i \in 1..Len(stack) - 1 : Front(stack)[i] = stack[i]
      /\ Len(stack) \in Nat /\ Len(stack) > 0
  BY <1>0, FrontProperties
<1>2. Last(stack) \in Frames
  BY <1>1, ElementOfSeq DEF Last
<1>3. Last(stack) \in RecvFrame
  BY <1>0, <1>2 DEF Frames, FlushFrame, OwnerFrame, RecvFrame, AfterFrame, Flushing
<1>4. top \in RecvFrame /\ top.at = "recv"
  BY <1>0, <1>3, ConstantsAssumption DEF RecvFrame
<1>5. <<top>> \in Seq(Frames) /\ Len(<<top>>) = 1 /\ <<top>>[1] = top
  BY <1>4 DEF Frames
<1>. HIDE DEF top
<1>6. /\ Front(stack) \o <<top>> \in Seq(Frames)
      /\ Len(Front(stack) \o <<top>>) = Len(stack)
      /\ \A i \in 1..Len(stack) : (Front(stack) \o <<top>>)[i] =
            IF i <= Len(stack) - 1 THEN stack[i] ELSE top
  <2>1. /\ Front(stack) \o <<top>> \in Seq(Frames)
        /\ Len(Front(stack) \o <<top>>) = Len(Front(stack)) + Len(<<top>>)
        /\ \A i \in 1..Len(Front(stack)) + Len(<<top>>) : (Front(stack) \o <<top>>)[i] =
              IF i <= Len(Front(stack)) THEN Front(stack)[i] ELSE <<top>>[i - Len(Front(stack))]
    BY <1>1, <1>5, ConcatProperties
  <2>. QED
    BY <1>1, <1>5, <2>1
<1>7. stack' = (Front(stack) \o <<top>>) \o fs
  BY DEF Recv, top
<1>8. Len(fs) \in Nat
  BY LenProperties
<1>. DEFINE base == Front(stack) \o <<top>>
<1>9. base \in Seq(Frames) /\ Len(base) = Len(stack) /\ stack' = base \o fs
  BY <1>6, <1>7
<1>10. \A i \in 1..Len(stack) : base[i] = IF i <= Len(stack) - 1 THEN stack[i] ELSE top
  BY <1>6
<1>. HIDE DEF base
<1>11. /\ stack' \in Seq(Frames) /\ Len(stack') = Len(stack) + Len(fs)
       /\ \A i \in 1..Len(stack) + Len(fs) :
             stack'[i] = IF i <= Len(stack) THEN base[i] ELSE fs[i - Len(stack)]
  BY <1>9, ConcatProperties
<1>12. stack[Len(stack)].at = "recv"
  BY <1>0 DEF Last
<1>13. \A i \in 1..Len(stack) : stack'[i].at = stack[i].at
  <2>. TAKE i \in 1..Len(stack)
  <2>1. stack'[i] = IF i <= Len(stack) - 1 THEN stack[i] ELSE top
    <3>1. i \in 1..Len(stack) + Len(fs) /\ i <= Len(stack)
      BY <1>1, <1>8
    <3>. QED
      BY ZenonT(30), <1>10, <1>11, <3>1
  <2>2. i <= Len(stack) - 1 \/ i = Len(stack)
    BY <1>1
  <2>. QED
    BY <1>1, <1>4, <1>12, <2>1, <2>2
<1>15. \A i \in 1..Len(stack) - 1 : stack'[i] = stack[i]
  <2>. TAKE i \in 1..Len(stack) - 1
  <2>1. i \in 1..Len(stack) + Len(fs) /\ i <= Len(stack) /\ i \in 1..Len(stack) /\ i <= Len(stack) - 1
    BY <1>1, <1>8
  <2>. QED
    BY ZenonT(30), <1>10, <1>11, <2>1
<1>14. \A i \in 1..Len(fs) : stack'[Len(stack) + i] = fs[i]
  <2>. TAKE i \in 1..Len(fs)
  <2>1. /\ Len(stack) + i \in 1..Len(stack) + Len(fs)
        /\ ~(Len(stack) + i <= Len(stack)) /\ Len(stack) + i - Len(stack) = i
    BY <1>1, <1>8
  <2>. QED
    BY <1>11, <2>1
<1>. QED
  BY <1>1, <1>8, <1>11, <1>12, <1>13, <1>14, <1>15

-----------------------------------------------------------------------------
(* Notifications do not nest *)

InLoop(f) == f.at \in {"drain", "notes", "resend"}

(* At most one FlushOut is in its loop, and then flush_depth_ says so; a     *)
(* notification runs right above it.                                         *)
NestInv ==
    /\ stack \in Seq(Frames)
    /\ flush_depth \in 0..1
    /\ consumed_notifications \in Seq(Bodies)
    /\ \A i \in 1..Len(stack) : InLoop(stack[i]) => flush_depth = 1
    /\ \A i, j \in 1..Len(stack) : InLoop(stack[i]) /\ InLoop(stack[j]) => i = j
    /\ \A i \in 1..Len(stack) : stack[i].at = "note" => i > 1 /\ InLoop(stack[i - 1])

(* Frames that are neither in the loop nor notifications may come and go. *)
LEMMA NestCall ==
    ASSUME NestInv, NEW fs \in Seq(Frames),
           \A i \in 1..Len(fs) : ~InLoop(fs[i]) /\ fs[i].at # "note",
           stack' \in Seq(Frames), Len(stack') = Len(stack) + Len(fs),
           Len(stack) \in Nat, Len(fs) \in Nat,
           \A i \in 1..Len(stack) : stack'[i].at = stack[i].at,
           \A i \in 1..Len(fs) : stack'[Len(stack) + i] = fs[i],
           consumed_notifications' \in Seq(Bodies), flush_depth' = flush_depth
    PROVE  NestInv'
<1>1. \A i \in 1..Len(stack') : i \in 1..Len(stack) \/ i - Len(stack) \in 1..Len(fs)
  OBVIOUS
<1>2. \A i \in 1..Len(stack') : i \notin 1..Len(stack) => ~InLoop(stack'[i]) /\ stack'[i].at # "note"
  <2>. TAKE i \in 1..Len(stack')
  <2>. HAVE i \notin 1..Len(stack)
  <2>1. i - Len(stack) \in 1..Len(fs) /\ Len(stack) + (i - Len(stack)) = i
    BY <1>1
  <2>. QED
    BY ZenonT(30), <2>1
<1>3. \A i \in 1..Len(stack) : InLoop(stack'[i]) <=> InLoop(stack[i])
  BY DEF InLoop
<1>4. \A i \in 1..Len(stack') : (InLoop(stack'[i]) \/ stack'[i].at = "note") => i \in 1..Len(stack)
  BY <1>2
<1>5. \A i \in 1..Len(stack) : i \in 1..Len(stack') /\ (i > 1 => i - 1 \in 1..Len(stack))
  OBVIOUS
<1>6. \A i \in 1..Len(stack') : InLoop(stack'[i]) => flush_depth' = 1
  BY <1>3, <1>4 DEF NestInv
<1>7. \A i, j \in 1..Len(stack') : InLoop(stack'[i]) /\ InLoop(stack'[j]) => i = j
  BY <1>3, <1>4 DEF NestInv
<1>8. \A i \in 1..Len(stack') : stack'[i].at = "note" => i > 1 /\ InLoop(stack'[i - 1])
  BY ZenonT(30), <1>3, <1>4, <1>5 DEF NestInv
<1>. QED
  BY <1>6, <1>7, <1>8 DEF NestInv

(* An activation returns and the others stay as they were.                   *)
LEMMA NestReturn ==
    ASSUME NestInv, stack # <<>>, Return,
           consumed_notifications' = consumed_notifications, flush_depth' = flush_depth
    PROVE  NestInv'
<1>1. /\ stack' \in Seq(Frames) /\ Len(stack') = Len(stack) - 1
      /\ Len(stack) \in Nat /\ Len(stack) > 0
      /\ \A i \in 1..Len(stack) - 1 : stack'[i] = stack[i]
  BY ReturnProperties DEF NestInv
<1>2. \A i \in 1..Len(stack') : /\ i \in 1..Len(stack) /\ stack'[i] = stack[i]
                                /\ i > 1 => i - 1 \in 1..Len(stack')
  BY <1>1
<1>. QED
  BY ZenonT(30), <1>1, <1>2 DEF NestInv

(* FlushOut's own moves, and Consume's into its flush. *)
LEMMA NestGoto ==
    ASSUME NestInv, stack # <<>>, NEW f \in Frames, Goto(f), f.at # "note",
           Last(stack).at # "note",
           consumed_notifications' \in Seq(Bodies),
           \/ InLoop(f) /\ flush_depth' = 1 /\ (InLoop(Last(stack)) \/ flush_depth = 0)
           \/ ~InLoop(f) /\ ~InLoop(Last(stack)) /\ flush_depth' = flush_depth
           \/ ~InLoop(f) /\ InLoop(Last(stack)) /\ flush_depth' = 0
    PROVE  NestInv'
<1>. DEFINE n == Len(stack)
<1>1. /\ stack' \in Seq(Frames) /\ Len(stack') = n
      /\ n \in Nat /\ n > 0
      /\ \A i \in 1..n - 1 : stack'[i] = stack[i]
      /\ stack'[n] = f
  BY GotoProperties DEF NestInv
<1>2. Last(stack) = stack[n]
  BY DEF Last
<1>. HIDE DEF n
<1>3. \A i \in 1..n : (i = n \/ i \in 1..n - 1) /\ (i > 1 => i - 1 \in 1..n - 1)
  BY <1>1
<1>4. n \in 1..n /\ \A i \in 1..n - 1 : i \in 1..n /\ i # n
  BY <1>1
<1>5. /\ \A i \in 1..n : InLoop(stack[i]) => flush_depth = 1
      /\ \A i, j \in 1..n : InLoop(stack[i]) /\ InLoop(stack[j]) => i = j
      /\ \A i \in 1..n : stack[i].at = "note" => i > 1 /\ InLoop(stack[i - 1])
  BY DEF NestInv, n
<1>6. \A i \in 1..n : stack'[i].at = "note" => i > 1 /\ InLoop(stack'[i - 1])
  BY <1>1, <1>3, <1>4, <1>5
<1>7. \A i \in 1..n - 1 : InLoop(stack'[i]) => InLoop(stack[i]) /\ ~InLoop(Last(stack)) /\ flush_depth = 1
  BY <1>1, <1>2, <1>4, <1>5
<1>8. \A i \in 1..n : InLoop(stack'[i]) => flush_depth' = 1
  BY <1>1, <1>3, <1>7
<1>9. \A i, j \in 1..n : InLoop(stack'[i]) /\ InLoop(stack'[j]) => i = j
  BY <1>1, <1>3, <1>4, <1>5, <1>7
<1>10. flush_depth' \in 0..1
  BY DEF NestInv
<1>. QED
  BY <1>1, <1>6, <1>8, <1>9, <1>10 DEF NestInv

(* The innermost activation is one of the known kinds.                       *)
LEMMA TopFrame ==
    ASSUME stack \in Seq(Frames), stack # <<>>
    PROVE  Last(stack) \in Frames
  BY EmptySeq, LenProperties, ElementOfSeq DEF Last

(* FlushOut's activation carries the notifications it took.                  *)
LEMMA TopFlush ==
    ASSUME stack \in Seq(Frames), At(Flushing)
    PROVE  stack # <<>> /\ Last(stack) \in FlushFrame /\ Last(stack).notes \in Seq(Bodies)
<1>1. stack # <<>> /\ Last(stack).at \in Flushing
  BY DEF At
<1>2. Last(stack) \in FlushFrame
  BY <1>1, TopFrame DEF Frames, FlushFrame, OwnerFrame, RecvFrame, AfterFrame, Flushing
<1>. QED
  BY <1>1, <1>2 DEF FlushFrame

(* The activations FlushOut goes through.                                    *)
LEMMA FlushFrames ==
    /\ Flush \in Frames
    /\ \A pc \in Flushing, q \in Seq(Bodies) :
          [at |-> pc, notes |-> q] \in Frames /\ [at |-> pc, notes |-> q].at = pc
<1>1. <<>> \in Seq(Bodies) /\ "send" \in Flushing
  BY EmptySeq DEF Flushing
<1>2. \A pc \in Flushing, q \in Seq(Bodies) :
          [at |-> pc, notes |-> q] \in Frames /\ [at |-> pc, notes |-> q].at = pc
  BY DEF Frames, FlushFrame
<1>. QED
  BY ZenonT(30), <1>1, <1>2 DEF Flush

(* The frames that calls of the owner and of nghttp2 push. *)
LEMMA PushedFrames ==
    ASSUME NEW s \in Streams
    PROVE  \A fs \in {<<Flush>>, <<[at |-> "submitted", s |-> s], Flush>>,
                      <<[at |-> "recv", left |-> MaxFrames]>>, <<>>, <<Callback>>,
                      <<[at |-> "frameEnd", s |-> s], Callback>>} :
              /\ fs \in Seq(Frames)
              /\ \A i \in 1..Len(fs) : ~InLoop(fs[i]) /\ fs[i].at # "note"
<1>1. Flush \in Frames /\ ~InLoop(Flush) /\ Flush.at # "note"
  BY FlushFrames DEF Flush, InLoop
<1>2. Callback \in Frames /\ ~InLoop(Callback) /\ Callback.at # "note"
  BY DEF Callback, InLoop, Frames, OwnerFrame
<1>3. \A a \in {"submitted", "frameEnd"} :
         LET f == [at |-> a, s |-> s] IN f \in Frames /\ ~InLoop(f) /\ f.at # "note"
  BY DEF InLoop, Frames, AfterFrame
<1>4. LET f == [at |-> "recv", left |-> MaxFrames] IN f \in Frames /\ ~InLoop(f) /\ f.at # "note"
  BY ConstantsAssumption DEF InLoop, Frames, RecvFrame
<1>5. \A f \in Frames : ~InLoop(f) /\ f.at # "note" =>
         /\ <<f>> \in Seq(Frames)
         /\ \A i \in 1..Len(<<f>>) : ~InLoop(<<f>>[i]) /\ <<f>>[i].at # "note"
  OBVIOUS
<1>6. \A f, g \in Frames : ~InLoop(f) /\ f.at # "note" /\ ~InLoop(g) /\ g.at # "note" =>
         /\ <<f, g>> \in Seq(Frames)
         /\ \A i \in 1..Len(<<f, g>>) : ~InLoop(<<f, g>>[i]) /\ <<f, g>>[i].at # "note"
  OBVIOUS
<1>7. <<>> \in Seq(Frames) /\ \A i \in 1..Len(<<>>) : FALSE
  BY EmptySeq
<1>. HIDE DEF Flush, Callback
<1>8. /\ <<Flush>> \in Seq(Frames)
      /\ \A i \in 1..Len(<<Flush>>) : ~InLoop(<<Flush>>[i]) /\ <<Flush>>[i].at # "note"
  BY <1>1, <1>5
<1>. QED
  BY ZenonT(30), <1>1, <1>2, <1>3, <1>4, <1>5, <1>6, <1>7

(* A call of the owner starts no loop over notifications.                    *)
LEMMA NestPush ==
    ASSUME NestInv, NEW fs \in Seq(Frames), Call(fs),
           \A i \in 1..Len(fs) : ~InLoop(fs[i]) /\ fs[i].at # "note",
           consumed_notifications' = consumed_notifications, flush_depth' = flush_depth
    PROVE  NestInv'
<1>1. /\ stack' \in Seq(Frames) /\ Len(stack') = Len(stack) + Len(fs)
      /\ Len(stack) \in Nat /\ Len(fs) \in Nat
      /\ \A i \in 1..Len(stack) : stack'[i] = stack[i]
      /\ \A i \in 1..Len(fs) : stack'[Len(stack) + i] = fs[i]
  BY CallProperties DEF NestInv
<1>2. consumed_notifications' \in Seq(Bodies)
  BY DEF NestInv
<1>. QED
  BY ZenonT(30), <1>1, <1>2, NestCall

(* Neither does a frame that arrives.                                        *)
LEMMA NestRecv ==
    ASSUME NestInv, NEW fs \in Seq(Frames), Recv(fs),
           \A i \in 1..Len(fs) : ~InLoop(fs[i]) /\ fs[i].at # "note",
           consumed_notifications' = consumed_notifications, flush_depth' = flush_depth
    PROVE  NestInv'
<1>1. /\ stack' \in Seq(Frames) /\ Len(stack') = Len(stack) + Len(fs)
      /\ Len(stack) \in Nat /\ Len(stack) > 0 /\ Len(fs) \in Nat
      /\ \A i \in 1..Len(stack) : stack'[i].at = stack[i].at
      /\ \A i \in 1..Len(fs) : stack'[Len(stack) + i] = fs[i]
  BY RecvProperties DEF NestInv
<1>2. consumed_notifications' \in Seq(Bodies)
  BY DEF NestInv
<1>. QED
  BY <1>1, <1>2, NestCall

(* A notification runs on top of the frame it is taken from. *)
LEMMA RunNoteProperties ==
    ASSUME stack \in Seq(Frames), RunNote
    PROVE  /\ stack' \in Seq(Frames) /\ Len(stack') = Len(stack) + 1
           /\ Len(stack) \in Nat /\ Len(stack) > 0
           /\ stack[Len(stack)].at = "notes"
           /\ stack[Len(stack)].notes \in Seq(Bodies) /\ stack[Len(stack)].notes # <<>>
           /\ \A i \in 1..Len(stack) - 1 : stack'[i] = stack[i]
           /\ stack'[Len(stack)].at = "notes"
           /\ stack'[Len(stack)].notes = Tail(stack[Len(stack)].notes)
           /\ stack'[Len(stack) + 1].at = "note"
           /\ fired' = Append(fired, Head(stack[Len(stack)].notes))
<1>. DEFINE n == Len(stack)
            f == [Last(stack) EXCEPT !.notes = Tail(@)]
            note == [at |-> "note"]
<1>1. /\ stack # <<>> /\ Last(stack) \in FlushFrame /\ Last(stack).at = "notes"
      /\ Last(stack).notes \in Seq(Bodies) /\ Last(stack).notes # <<>>
  BY TopFlush DEF RunNote, At, Flushing
<1>2. f \in Frames /\ f.at = "notes" /\ f.notes = Tail(Last(stack).notes)
  <2>1. Tail(Last(stack).notes) \in Seq(Bodies)
    BY <1>1, HeadTailProperties
  <2>. QED
    BY ZenonT(30), <1>1, <2>1 DEF FlushFrame, Frames
<1>3. note \in Frames /\ note.at = "note"
  BY DEF Frames, OwnerFrame
<1>4. stack' = Front(stack) \o <<f, note>>
  BY DEF RunNote
<1>5. /\ Front(stack) \in Seq(Frames) /\ Len(Front(stack)) = n - 1
      /\ \A i \in 1..n - 1 : Front(stack)[i] = stack[i]
      /\ n \in Nat /\ n > 0
  BY ZenonT(30), <1>1, FrontProperties
<1>6. Last(stack) = stack[n]
  BY DEF Last
<1>. HIDE DEF n, f, note
<1>. DEFINE two == <<f, note>>
<1>7. stack' = Front(stack) \o two /\ two \in Seq(Frames) /\ Len(two) = 2 /\ two[1] = f /\ two[2] = note
  BY <1>2, <1>3, <1>4
<1>. HIDE DEF two
<1>8. /\ stack' \in Seq(Frames) /\ Len(stack') = n + 1
      /\ \A i \in 1..n + 1 : stack'[i] =
            IF i <= n - 1 THEN Front(stack)[i] ELSE two[i - (n - 1)]
  <2>1. /\ stack' \in Seq(Frames) /\ Len(stack') = Len(Front(stack)) + Len(two)
        /\ \A i \in 1..Len(Front(stack)) + Len(two) : stack'[i] =
              IF i <= Len(Front(stack)) THEN Front(stack)[i]
                                        ELSE two[i - Len(Front(stack))]
    BY ZenonT(30), <1>5, <1>7, ConcatProperties
  <2>2. n - 1 + 2 = n + 1
    BY <1>5
  <2>. QED
    BY <1>5, <1>7, <2>1, <2>2
<1>9. \A i \in 1..n - 1 : stack'[i] = stack[i]
  BY <1>5, <1>8
<1>10. stack'[n] = f
  <2>1. n \in 1..n + 1 /\ ~(n <= n - 1) /\ n - (n - 1) = 1
    BY <1>5
  <2>. QED
    BY ZenonT(30), <1>7, <1>8, <2>1
<1>11. stack'[n + 1] = note
  <2>1. n + 1 \in 1..n + 1 /\ ~(n + 1 <= n - 1) /\ n + 1 - (n - 1) = 2
    BY <1>5
  <2>2. stack'[n + 1] = two[n + 1 - (n - 1)]
    BY <1>5, <1>8, <2>1
  <2>3. stack'[n + 1] = two[2]
    BY <2>1, <2>2
  <2>. QED
    BY <1>7, <2>3
<1>12. fired' = Append(fired, Head(Last(stack).notes))
  BY DEF RunNote
<1>. QED
  BY <1>1, <1>2, <1>3, <1>5, <1>6, <1>8, <1>9, <1>10, <1>11, <1>12 DEF n

(* FlushOut runs the next notification of its batch.                         *)
LEMMA NestRunNote == ASSUME NestInv, RunNote PROVE NestInv'
<1>. DEFINE n == Len(stack)
<1>1. /\ stack' \in Seq(Frames) /\ Len(stack') = n + 1 /\ n \in Nat /\ n > 0
      /\ stack[n].at = "notes"
      /\ \A i \in 1..n - 1 : stack'[i] = stack[i]
      /\ stack'[n].at = "notes" /\ stack'[n + 1].at = "note"
  BY RunNoteProperties DEF NestInv
<1>. HIDE DEF n
<1>2. InLoop(stack'[n]) /\ ~InLoop(stack'[n + 1])
  BY <1>1 DEF InLoop
<1>12. /\ \A i \in 1..n : InLoop(stack[i]) => flush_depth = 1
       /\ \A i, j \in 1..n : InLoop(stack[i]) /\ InLoop(stack[j]) => i = j
       /\ \A i \in 1..n : stack[i].at = "note" => i > 1 /\ InLoop(stack[i - 1])
  BY DEF NestInv, n
<1>13. InLoop(stack[n]) /\ flush_depth = 1 /\ n \in 1..n
  BY <1>1, <1>12 DEF InLoop
<1>14. \A i \in 1..n + 1 : (i \in 1..n - 1 \/ i = n \/ i = n + 1) /\ (i \in 1..n - 1 => i \in 1..n)
  BY <1>1
<1>15. \A i \in 1..n + 1 : InLoop(stack'[i]) => i = n
  BY <1>1, <1>2, <1>12, <1>13, <1>14
<1>16. \A i \in 1..n + 1 : stack'[i].at = "note" => i > 1 /\ InLoop(stack'[i - 1])
  <2>. TAKE i \in 1..n + 1
  <2>. HAVE stack'[i].at = "note"
  <2>1. CASE i = n + 1
    BY <1>1, <1>2, <2>1
  <2>2. CASE i = n
    BY <1>1, <2>2
  <2>3. CASE i \in 1..n - 1
    <3>1. i \in 1..n /\ (i > 1 => i - 1 \in 1..n - 1)
      BY <1>1, <2>3
    <3>. QED
      BY <1>1, <1>12, <2>3, <3>1
  <2>. QED
    BY <1>14, <2>1, <2>2, <2>3
<1>17. flush_depth' = flush_depth /\ consumed_notifications' = consumed_notifications
  BY DEF RunNote
<1>. QED
  BY <1>1, <1>13, <1>15, <1>16, <1>17 DEF NestInv, n

(* Two activations pushed one after the other.                               *)
LEMMA ConcatSingles == ASSUME NEW a, NEW b PROVE <<a>> \o <<b>> = <<a, b>>
<1>1. /\ <<a>> \in Seq({a, b}) /\ <<b>> \in Seq({a, b}) /\ <<a, b>> \in Seq({a, b})
      /\ Len(<<a>>) = 1 /\ Len(<<b>>) = 1 /\ Len(<<a, b>>) = 2
  OBVIOUS
<1>2. /\ <<a>> \o <<b>> \in Seq({a, b}) /\ Len(<<a>> \o <<b>>) = 2
      /\ \A i \in 1..2 : (<<a>> \o <<b>>)[i] = IF i <= 1 THEN <<a>>[i] ELSE <<b>>[i - 1]
  BY <1>1, ConcatProperties
<1>3. (<<a>> \o <<b>>)[1] = a /\ (<<a>> \o <<b>>)[2] = b
  BY <1>2
<1>4. \A i \in 1..2 : (<<a>> \o <<b>>)[i] = <<a, b>>[i]
  BY <1>3
<1>. QED
  BY ZenonT(30), <1>1, <1>2, <1>4, SeqEqual

(* The frames that nghttp2 pushes for a frame it reads. *)
LEMMA ReceivedFrames ==
    ASSUME NEW s \in Streams,
           \/ \E end \in BOOLEAN : RecvHeaders(s, end) \/ RecvData(s, end)
           \/ RecvWindow(s) \/ RecvReset(s)
    PROVE  \E fs \in {<<>>, <<Callback>>, <<[at |-> "frameEnd", s |-> s], Callback>>} : Recv(fs)
<1>1. <<>> \o <<Callback>> = <<Callback>>
  OBVIOUS
<1>2. <<[at |-> "frameEnd", s |-> s]>> \o <<Callback>> = <<[at |-> "frameEnd", s |-> s], Callback>>
  BY ConcatSingles
<1>. QED
  BY ZenonT(30), <1>1, <1>2 DEF RecvHeaders, RecvData, RecvWindow, RecvReset, FrameEnd

(* Every step keeps notifications from nesting.                              *)
LEMMA NextNest == ASSUME NestInv, on_consumed \subseteq Bodies, [Next]_vars PROVE NestInv'
<1>1. ASSUME UNCHANGED <<stack, flush_depth>>, consumed_notifications' \in Seq(Bodies) PROVE NestInv'
  BY <1>1 DEF NestInv
<1>2. CASE SendQueued
  BY <1>1, <1>2 DEF SendQueued, NestInv
<1>4. CASE SendDone
  <2>1. /\ stack # <<>> /\ Last(stack).at \in {"send", "resend"} /\ stack \in Seq(Frames)
        /\ consumed_notifications' = consumed_notifications
    BY <1>4 DEF SendDone, At, NestInv
  <2>2. <<>> \in Seq(Bodies)
    BY EmptySeq
  <2>3. CASE Last(stack).at = "send" /\ flush_depth # 0
    BY ZenonT(30), <1>4, <2>1, <2>2, <2>3, NestGoto, FlushFrames DEF SendDone, InLoop, Flushing, NestInv
  <2>4. CASE ~(Last(stack).at = "send" /\ flush_depth # 0)
    BY ZenonT(30), <1>4, <2>1, <2>2, <2>4, NestGoto, FlushFrames DEF SendDone, InLoop, Flushing, NestInv
  <2>. QED
    BY <2>3, <2>4
<1>5. CASE Drain
  <2>1. stack # <<>> /\ Last(stack).at = "drain" /\ stack \in Seq(Frames)
    BY <1>5 DEF Drain, At, NestInv
  <2>2. <<>> \in Seq(Bodies) /\ consumed_notifications' = <<>>
    BY <1>5, EmptySeq DEF Drain
  <2>3. flush_depth = 1
    BY <2>1, EmptySeq, LenProperties DEF NestInv, InLoop, Last
  <2>4. CASE consumed_notifications = <<>>
    <3>1. flush_depth' = 0 /\ Goto([at |-> "write", notes |-> <<>>])
      BY <1>5, <2>3, <2>4 DEF Drain
    <3>. QED
      BY ZenonT(30), <2>1, <2>2, <3>1, NestGoto, FlushFrames DEF InLoop, Flushing
  <2>5. CASE consumed_notifications # <<>>
    BY <1>5, <2>1, <2>2, <2>3, <2>5, NestGoto, FlushFrames DEF Drain, InLoop, Flushing, NestInv
  <2>. QED
    BY <2>4, <2>5
<1>6. CASE RunNote
  BY <1>6, NestRunNote
<1>7. CASE NotesRun
  <2>1. /\ stack # <<>> /\ Last(stack).at = "notes" /\ stack \in Seq(Frames)
        /\ UNCHANGED <<consumed_notifications, flush_depth>>
    BY <1>7 DEF NotesRun, At, NestInv
  <2>2. <<>> \in Seq(Bodies)
    BY EmptySeq
  <2>3. flush_depth = 1
    BY <2>1, EmptySeq, LenProperties DEF NestInv, InLoop, Last
  <2>. QED
    BY ZenonT(30), <1>7, <2>1, <2>2, <2>3, NestGoto, FlushFrames DEF NotesRun, InLoop, Flushing, NestInv
<1>8. CASE Write \/ Submitted \/ OwnerReturns \/ RecvEnd
  <2>1. stack # <<>> /\ Return /\ UNCHANGED <<consumed_notifications, flush_depth>>
    BY <1>8 DEF Write, Submitted, OwnerReturns, RecvEnd, At, othersAtRecv
  <2>. QED
    BY <2>1, NestReturn
<1>9. CASE Received
  <2>1. /\ stack # <<>> /\ Last(stack).at = "recv" /\ Goto(Flush)
        /\ UNCHANGED <<consumed_notifications, flush_depth>>
    BY <1>9 DEF Received, At, othersAtRecv
  <2>. QED
    BY ZenonT(30), <2>1, NestGoto, FlushFrames DEF InLoop, Flush, NestInv
<1>10. CASE UNCHANGED vars
  BY <1>1, <1>10 DEF vars, NestInv
<1>11. ASSUME NEW s \in Streams, SendBody(s) PROVE NestInv'
  <2>1. CASE UNCHANGED consumed_notifications
    BY <1>1, <1>11, <2>1 DEF SendBody, NestInv
  <2>2. CASE /\ item[s].body \in Bodies
             /\ consumed_notifications' = Append(consumed_notifications, item[s].body)
    BY <1>1, <1>11, <2>2, AppendProperties DEF SendBody, NestInv
  <2>. QED
    BY <1>11, <2>1, <2>2 DEF SendBody
<1>12. ASSUME NEW s \in Streams,
              \/ \E b \in Bodies, end, note \in BOOLEAN : SendData(s, b, end, note)
              \/ SendTrailers(s) \/ ResetStream(s) \/ \E end \in BOOLEAN : SendHeaders(s, end)
       PROVE  NestInv'
  <2>1. Call(<<Flush>>) /\ UNCHANGED <<consumed_notifications, flush_depth>>
    BY ZenonT(30), <1>12 DEF SendData, SendTrailers, ResetStream, SendHeaders, othersAtCall
  <2>. QED
    BY ZenonT(30), <2>1, PushedFrames, NestPush
<1>13. ASSUME NEW s \in Streams, SubmitRequestOpen(s) \/ \E b \in Bodies : SubmitRequest(s, b)
       PROVE  NestInv'
  <2>1. /\ Call(<<[at |-> "submitted", s |-> s], Flush>>)
        /\ UNCHANGED <<consumed_notifications, flush_depth>>
    BY ZenonT(30), <1>13 DEF SubmitRequestOpen, SubmitRequest, othersAtCall
  <2>. QED
    BY ZenonT(30), <2>1, PushedFrames, NestPush
<1>14. CASE Consume
  <2>1. /\ Call(<<[at |-> "recv", left |-> MaxFrames]>>)
        /\ UNCHANGED <<consumed_notifications, flush_depth>>
    BY <1>14 DEF Consume, othersAtRecv
  <2>2. LET f == [at |-> "recv", left |-> MaxFrames]
        IN  f \in Frames /\ ~InLoop(f) /\ f.at # "note"
    BY ConstantsAssumption DEF InLoop, Frames, RecvFrame
  <2>3. LET fs == <<[at |-> "recv", left |-> MaxFrames]>>
        IN  /\ fs \in Seq(Frames)
            /\ \A i \in 1..Len(fs) : ~InLoop(fs[i]) /\ fs[i].at # "note"
    BY <2>2
  <2>. QED
    BY ZenonT(30), <2>1, <2>3, NestPush
<1>15. ASSUME NEW s \in Streams,
              \/ \E end \in BOOLEAN : RecvHeaders(s, end) \/ RecvData(s, end)
              \/ RecvWindow(s) \/ RecvReset(s)
       PROVE  NestInv'
  <2>1. PICK fs \in {<<>>, <<Callback>>, <<[at |-> "frameEnd", s |-> s], Callback>>} : Recv(fs)
    BY ZenonT(30), <1>15, ReceivedFrames
  <2>2. UNCHANGED <<consumed_notifications, flush_depth>>
    BY <1>15 DEF RecvHeaders, RecvData, RecvWindow, RecvReset, othersAtRecv
  <2>. QED
    BY ZenonT(30), <2>1, <2>2, PushedFrames, NestRecv
<1>. QED
  BY <1>2, <1>4, <1>5, <1>6, <1>7, <1>8, <1>9, <1>10, <1>11, <1>12, <1>13, <1>14, <1>15
     DEF Next, FlushOut, OwnerCalls, Peer

-----------------------------------------------------------------------------
(* Bodies stay alive *)

QueueFrames == [f : {"settings", "headers", "trailers", "reset"},
                s : Streams \cup {None}, item : Items, end : BOOLEAN]

Kept(s, it) == it # NoItem => it.body \in pending_bodies[s]

(* What nghttp2 holds, and the bodies kept for it. *)
AliveInv ==
    /\ item \in [Streams -> Items]
    /\ pending_bodies \in [Streams -> SUBSET Bodies]
    /\ shut \in [Streams -> SUBSET {"read", "write"}]
    /\ state \in [Streams -> {"idle", "open", "closed"}]
    /\ on_consumed \subseteq Bodies
    /\ queue \in Seq(QueueFrames)
    /\ \A k \in 1..Len(queue) : queue[k].f # "settings" => queue[k].s \in Streams
    /\ \A k \in 1..Len(queue) : queue[k].item # NoItem => queue[k].f = "headers"
    /\ \A s \in Streams : shut[s] = {"read", "write"} <=> state[s] = "closed"
    /\ \A s \in Streams : Kept(s, item[s])
    /\ \A k \in 1..Len(queue) : ~Dropped(queue[k]) => Kept(queue[k].s, queue[k].item)

(* No body attached.                                                         *)
LEMMA NoItemType == NoItem \in Items
  BY DEF NoItem, Items

(* A side of a stream ends: the rest of nghttp2's pointers stay valid. *)
LEMMA AliveEndSides ==
    ASSUME AliveInv, NEW s \in Streams, NEW sides \in SUBSET {"read", "write"},
           NEW it \in Items, Kept(s, it), EndSides(s, sides, it),
           on_consumed' \subseteq on_consumed,
           \/ queue' = queue
           \/ queue # <<>> /\ queue' = Tail(queue)
    PROVE  AliveInv'
<1>. DEFINE closes == shut[s] \cup sides = {"read", "write"}
<1>1. /\ shut' = [shut EXCEPT ![s] = @ \cup sides]
      /\ state' = [state EXCEPT ![s] = IF closes THEN "closed" ELSE "open"]
      /\ item' = [item EXCEPT ![s] = IF closes \/ "write" \in sides THEN NoItem ELSE it]
      /\ pending_bodies' = [pending_bodies EXCEPT ![s] = IF closes THEN {} ELSE @]
  BY DEF EndSides
<1>2. /\ item' \in [Streams -> Items] /\ pending_bodies' \in [Streams -> SUBSET Bodies]
      /\ shut' \in [Streams -> SUBSET {"read", "write"}]
      /\ state' \in [Streams -> {"idle", "open", "closed"}] /\ on_consumed' \subseteq Bodies
  BY ZenonT(30), <1>1, NoItemType DEF AliveInv
<1>3. \A r \in Streams : shut'[r] = {"read", "write"} <=> state'[r] = "closed"
  BY <1>1 DEF AliveInv
<1>4. \A r \in Streams : Kept(r, item[r])'
  BY <1>1 DEF AliveInv, Kept
<1>5. \A f \in QueueFrames : f.f = "headers" /\ f.s \in Streams /\ ~Dropped(f)' =>
         ~Dropped(f) /\ pending_bodies'[f.s] = pending_bodies[f.s]
  <2>. TAKE f \in QueueFrames
  <2>. HAVE f.f = "headers" /\ f.s \in Streams /\ ~Dropped(f)'
  <2>1. state'[f.s] # "closed" /\ "write" \notin shut'[f.s]
    BY DEF Dropped
  <2>2. CASE f.s = s
    BY <1>1, <2>1, <2>2 DEF Dropped, AliveInv
  <2>3. CASE f.s # s
    BY <1>1, <2>1, <2>3 DEF Dropped, AliveInv
  <2>. QED
    BY <2>2, <2>3
<1>6. /\ queue' \in Seq(QueueFrames)
      /\ \A k \in 1..Len(queue') : \E j \in 1..Len(queue) : queue'[k] = queue[j]
  <2>1. CASE queue' = queue
    BY ZenonT(30), <2>1 DEF AliveInv
  <2>2. CASE queue # <<>> /\ queue' = Tail(queue)
    <3>1. /\ Tail(queue) \in Seq(QueueFrames) /\ Len(Tail(queue)) = Len(queue) - 1
          /\ \A i \in 1..Len(Tail(queue)) : Tail(queue)[i] = queue[i + 1]
      BY <2>2, HeadTailProperties DEF AliveInv
    <3>2. Len(queue) \in Nat
      BY LenProperties DEF AliveInv
    <3>3. \A k \in 1..Len(queue) - 1 : k + 1 \in 1..Len(queue)
      BY <3>2
    <3>. QED
      BY ZenonT(30), <2>2, <3>1, <3>3
  <2>. QED
    BY <2>1, <2>2
<1>7. \A k \in 1..Len(queue') : queue'[k] \in QueueFrames
  BY <1>6, ElementOfSeq
<1>8. \A k \in 1..Len(queue') : /\ queue'[k].f # "settings" => queue'[k].s \in Streams
                                /\ queue'[k].item # NoItem => queue'[k].f = "headers"
  BY SMTT(30), <1>6 DEF AliveInv
<1>9. \A k \in 1..Len(queue') : ~Dropped(queue[k])' => Kept(queue[k].s, queue[k].item)'
  <2>. SUFFICES ASSUME NEW k \in 1..Len(queue'), ~Dropped(queue[k])', queue'[k].item # NoItem
                PROVE  queue'[k].item.body \in pending_bodies'[queue'[k].s]
    BY DEF Kept
  <2>1. PICK j \in 1..Len(queue) : queue'[k] = queue[j]
    BY <1>6
  <2>. DEFINE f == queue[j]
  <2>2. f \in QueueFrames /\ f.f = "headers" /\ f.s \in Streams /\ f.item # NoItem
    BY <1>7, <1>8, <2>1
  <2>3. ~(state'[f.s] = "closed" \/ (f.f # "reset" /\ "write" \in shut'[f.s]))
    BY <2>1, <2>2 DEF Dropped
  <2>4. ~Dropped(f) /\ pending_bodies'[f.s] = pending_bodies[f.s]
    <3>. HIDE DEF f
    <3>. QED
      BY <1>5, <2>2, <2>3 DEF Dropped
  <2>. QED
    BY <2>1, <2>2, <2>4 DEF AliveInv, Kept
<1>. QED
  BY <1>2, <1>3, <1>4, <1>6, <1>8, <1>9 DEF AliveInv

(* A frame is queued last.                                                   *)
LEMMA AppendedFrame ==
    ASSUME NEW q \in Seq(QueueFrames), NEW f \in QueueFrames
    PROVE  /\ Append(q, f) \in Seq(QueueFrames) /\ Len(Append(q, f)) = Len(q) + 1
           /\ Len(q) \in Nat
           /\ \A k \in 1..Len(q) : Append(q, f)[k] = q[k]
           /\ Append(q, f)[Len(q) + 1] = f
  BY AppendProperties, LenProperties

(* The first frame leaves the queue.                                         *)
LEMMA TailFrames ==
    ASSUME NEW q \in Seq(QueueFrames), q # <<>>
    PROVE  /\ Tail(q) \in Seq(QueueFrames) /\ Len(Tail(q)) = Len(q) - 1
           /\ \A i \in 1..Len(Tail(q)) : Tail(q)[i] = q[i + 1]
           /\ Len(q) \in Nat
  BY ZenonT(30), HeadTailProperties, LenProperties

(* A call of the owner queues a frame, or attaches a body that it keeps. *)
LEMMA AliveQueue ==
    ASSUME AliveInv, NEW f \in QueueFrames, f.f # "settings", f.s \in Streams,
           f.item # NoItem => f.f = "headers",
           queue' = Append(queue, f),
           pending_bodies' \in [Streams -> SUBSET Bodies],
           \A s \in Streams : pending_bodies[s] \subseteq pending_bodies'[s],
           f.item # NoItem => f.item.body \in pending_bodies'[f.s],
           UNCHANGED <<item, shut, state, on_consumed>>
    PROVE  AliveInv'
<1>1. /\ queue' \in Seq(QueueFrames) /\ Len(queue') = Len(queue) + 1 /\ Len(queue) \in Nat
      /\ \A k \in 1..Len(queue) : queue'[k] = queue[k]
      /\ queue'[Len(queue) + 1] = f
  <2>1. queue \in Seq(QueueFrames)
    BY DEF AliveInv
  <2>. QED
    BY <2>1, AppendedFrame
<1>2. \A k \in 1..Len(queue') : k \in 1..Len(queue) \/ k = Len(queue) + 1
  BY <1>1
<1>3. \A k \in 1..Len(queue') : /\ queue'[k].f # "settings" => queue'[k].s \in Streams
                                /\ queue'[k].item # NoItem => queue'[k].f = "headers"
  BY <1>1, <1>2 DEF AliveInv
<1>4. \A s \in Streams : Kept(s, item[s])'
  BY DEF AliveInv, Kept
<1>5. \A k \in 1..Len(queue') : ~Dropped(queue[k])' => Kept(queue[k].s, queue[k].item)'
  <2>. SUFFICES ASSUME NEW k \in 1..Len(queue'), ~Dropped(queue[k])', queue'[k].item # NoItem
                PROVE  queue'[k].item.body \in pending_bodies'[queue'[k].s]
    BY DEF Kept
  <2>1. CASE k = Len(queue) + 1
    BY <1>1, <2>1
  <2>2. CASE k \in 1..Len(queue)
    <3>1. queue'[k] = queue[k] /\ queue[k].s \in Streams
      BY <1>1, <1>3, <2>2
    <3>2. ~Dropped(queue[k])
      BY <3>1 DEF Dropped
    <3>. QED
      BY ZenonT(30), <2>2, <3>1, <3>2 DEF AliveInv, Kept
  <2>. QED
    BY <1>2, <2>1, <2>2
<1>. QED
  BY ZenonT(30), <1>1, <1>3, <1>4, <1>5 DEF AliveInv

(* Every step keeps the bodies nghttp2 may read.                             *)
LEMMA NextAlive == ASSUME AliveInv, stack \in Seq(Frames), [Next]_vars PROVE AliveInv'
<1>1. ASSUME UNCHANGED <<item, pending_bodies, shut, state, queue>>, on_consumed' \subseteq on_consumed
      PROVE  AliveInv'
  BY ZenonT(30), <1>1 DEF AliveInv, Kept, Dropped
<1>2. CASE UNCHANGED vars \/ SendDone \/ Drain \/ RunNote \/ NotesRun \/ Write \/ OwnerReturns
  BY ZenonT(30), <1>1, <1>2 DEF vars, SendDone, Drain, RunNote, NotesRun, Write, OwnerReturns,
     othersAtFlush, bodyVars, ngVars
<1>3. CASE Submitted
  BY ZenonT(30), <1>1, <1>3 DEF Submitted, bodyVars, ngVars
<1>4. CASE Consume \/ Received \/ \E s \in Streams : RecvWindow(s) \/ \E end \in BOOLEAN : RecvData(s, end)
  BY ZenonT(30), <1>1, <1>4 DEF Consume, Received, RecvWindow, RecvData, othersAtRecv, streamVars
<1>5. CASE SendQueued
  <2>. DEFINE f == Head(queue)
  <2>1. /\ queue # <<>> /\ queue' = Tail(queue) /\ on_consumed' = on_consumed
        /\ f = queue[1] /\ 1 \in 1..Len(queue)
    BY <1>5, EmptySeq, LenProperties DEF SendQueued, AliveInv
  <2>2. f \in QueueFrames
    <3>1. queue \in Seq(QueueFrames)
      BY DEF AliveInv
    <3>2. queue[1] \in QueueFrames
      BY ZenonT(30), <2>1, <3>1, ElementOfSeq
    <3>. QED
      BY ZenonT(30), <2>1, <3>2
  <2>3. CASE f.f = "settings" \/ Dropped(f)
    <3>1. UNCHANGED streamVars
      BY <1>5, <2>3 DEF SendQueued
    <3>2. /\ Tail(queue) \in Seq(QueueFrames) /\ Len(Tail(queue)) = Len(queue) - 1
          /\ \A i \in 1..Len(Tail(queue)) : Tail(queue)[i] = queue[i + 1]
          /\ Len(queue) \in Nat
      <4>1. queue \in Seq(QueueFrames)
        BY DEF AliveInv
      <4>. QED
        BY <2>1, <4>1, TailFrames
    <3>3. \A k \in 1..Len(queue') : k + 1 \in 1..Len(queue) /\ queue'[k] = queue[k + 1]
      BY <2>1, <3>2
    <3>4. \A k \in 1..Len(queue') : Dropped(queue[k])' <=> Dropped(queue[k + 1])
      BY <3>1, <3>3 DEF Dropped, streamVars
    <3>5. \A k \in 1..Len(queue') : /\ queue'[k].f # "settings" => queue'[k].s \in Streams
                                    /\ queue'[k].item # NoItem => queue'[k].f = "headers"
      BY <3>3 DEF AliveInv
    <3>6. \A k \in 1..Len(queue') : ~Dropped(queue[k])' => Kept(queue[k].s, queue[k].item)'
      BY SMTT(30), <3>1, <3>3, <3>4 DEF AliveInv, Kept, streamVars
    <3>7. \A s \in Streams : Kept(s, item[s])'
      BY <3>1 DEF AliveInv, Kept, streamVars
    <3>. QED
      BY ZenonT(30), <2>1, <3>1, <3>2, <3>5, <3>6, <3>7 DEF AliveInv, streamVars
  <2>4. CASE ~(f.f = "settings" \/ Dropped(f))
    <3>. DEFINE sides == CASE f.f = "reset" -> {"read", "write"}
                           [] f.f # "reset" /\ f.end -> {"write"}
                           [] OTHER -> {}
                it == IF f.item = NoItem THEN item[f.s] ELSE f.item
    <3>1. EndSides(f.s, sides, it)
      BY <1>5, <2>4 DEF SendQueued
    <3>2. f.s \in Streams /\ sides \in SUBSET {"read", "write"}
      BY <2>1, <2>4 DEF AliveInv
    <3>3. it \in Items
      BY <2>2, <3>2 DEF AliveInv, QueueFrames
    <3>4. Kept(f.s, it)
      BY ZenonT(30), <2>1, <2>4, <3>2 DEF AliveInv, Kept
    <3>. HIDE DEF f, sides, it
    <3>. QED
      BY <2>1, <3>1, <3>2, <3>3, <3>4, AliveEndSides
  <2>. QED
    BY <2>3, <2>4
<1>6. ASSUME NEW s \in Streams, SendBody(s) PROVE AliveInv'
  <2>1. queue' = queue /\ on_consumed' \subseteq on_consumed
    BY <1>6 DEF SendBody
  <2>2. CASE UNCHANGED streamVars
    BY <1>1, <2>1, <2>2 DEF streamVars
  <2>3. CASE EndSides(s, IF item[s].end THEN {"write"} ELSE {}, NoItem)
    BY <2>1, <2>3, AliveEndSides, NoItemType DEF Kept
  <2>. QED
    BY ZenonT(30), <1>6, <2>2, <2>3 DEF SendBody
<1>7. CASE RecvEnd
  <2>1. queue' = queue /\ on_consumed' = on_consumed
    BY <1>7 DEF RecvEnd, othersAtRecv
  <2>2. CASE UNCHANGED streamVars
    BY <1>1, <2>1, <2>2 DEF streamVars
  <2>3. Last(stack).s \in Streams
    BY ZenonT(30), <1>7, TopFrame
       DEF RecvEnd, At, Frames, FlushFrame, OwnerFrame, RecvFrame, AfterFrame, Flushing
  <2>4. CASE EndSides(Last(stack).s, {"read"}, item[Last(stack).s])
    BY ZenonT(30), <2>1, <2>3, <2>4, AliveEndSides DEF AliveInv
  <2>. QED
    BY <1>7, <2>2, <2>4 DEF RecvEnd
<1>8. ASSUME NEW s \in Streams, RecvReset(s) PROVE AliveInv'
  BY ZenonT(30), <1>8, AliveEndSides, NoItemType DEF RecvReset, othersAtRecv, Kept
<1>9. ASSUME NEW s \in Streams, NEW end \in BOOLEAN, RecvHeaders(s, end) PROVE AliveInv'
  <2>1. /\ state[s] # "closed" /\ state' = [state EXCEPT ![s] = "open"]
        /\ UNCHANGED <<item, pending_bodies, shut, queue, on_consumed>>
    BY <1>9 DEF RecvHeaders, othersAtRecv
  <2>2. \A r \in Streams : state'[r] = "closed" <=> state[r] = "closed"
    BY <2>1 DEF AliveInv
  <2>3. \A k \in 1..Len(queue) : queue[k].item # NoItem => (Dropped(queue[k])' <=> Dropped(queue[k]))
    BY ZenonT(30), <2>1, <2>2 DEF Dropped, AliveInv
  <2>4. state' \in [Streams -> {"idle", "open", "closed"}]
    BY ZenonT(30), <2>1 DEF AliveInv
  <2>. QED
    BY ZenonT(30), <2>1, <2>2, <2>3, <2>4 DEF AliveInv, Kept
<1>10. ASSUME NEW s \in Streams, NEW kind \in {"headers", "trailers", "reset"}, NEW end \in BOOLEAN,
              queue' = Append(queue, Frame(kind, s, NoItem, end)),
              UNCHANGED <<item, shut, state, on_consumed, pending_bodies>>
       PROVE  AliveInv'
  <2>. DEFINE f == Frame(kind, s, NoItem, end)
  <2>1. f \in QueueFrames /\ f.f # "settings" /\ f.s = s /\ f.item = NoItem
    BY NoItemType DEF Frame, QueueFrames
  <2>. HIDE DEF f
  <2>. QED
    BY ZenonT(30), <1>10, <2>1, AliveQueue DEF f, AliveInv
<1>11. ASSUME NEW s \in Streams,
              \/ SubmitRequestOpen(s) \/ SendTrailers(s) \/ ResetStream(s)
              \/ \E end \in BOOLEAN : SendHeaders(s, end)
       PROVE  AliveInv'
  <2>1. UNCHANGED <<item, shut, state, on_consumed, pending_bodies>>
    BY ZenonT(30), <1>11 DEF SubmitRequestOpen, SendTrailers, ResetStream, SendHeaders, othersAtCall, bodyVars
  <2>2. \E kind \in {"headers", "trailers", "reset"}, end \in BOOLEAN :
            queue' = Append(queue, Frame(kind, s, NoItem, end))
    BY ZenonT(30), <1>11 DEF SubmitRequestOpen, SendTrailers, ResetStream, SendHeaders
  <2>. QED
    BY <1>10, <2>1, <2>2
<1>12. ASSUME NEW s \in Streams, NEW b \in Bodies, SubmitRequest(s, b) PROVE AliveInv'
  <2>1. UNCHANGED <<item, shut, state, on_consumed>>
    BY <1>12 DEF SubmitRequest
  <2>2. CASE Size[b] = 0
    <3>1. pending_bodies' = pending_bodies
      BY ZenonT(30), <1>12, <2>2 DEF SubmitRequest, AliveInv
    <3>2. queue' = Append(queue, Frame("headers", s, NoItem, TRUE))
      BY <1>12, <2>2 DEF SubmitRequest
    <3>. QED
      BY ZenonT(30), <1>10, <2>1, <3>1, <3>2
  <2>3. CASE Size[b] # 0
    <3>. DEFINE f == Frame("headers", s, [body |-> b, end |-> TRUE], FALSE)
    <3>1. /\ pending_bodies' = [pending_bodies EXCEPT ![s] = @ \cup {b}]
          /\ queue' = Append(queue, f)
      BY ZenonT(30), <1>12, <2>3 DEF SubmitRequest
    <3>2. /\ f \in QueueFrames /\ f.f = "headers" /\ f.s = s /\ f.item.body = b
      BY DEF Frame, QueueFrames, Items
    <3>3. /\ pending_bodies' \in [Streams -> SUBSET Bodies]
          /\ \A r \in Streams : pending_bodies[r] \subseteq pending_bodies'[r]
          /\ b \in pending_bodies'[s]
      BY <3>1 DEF AliveInv
    <3>. HIDE DEF f
    <3>. QED
      BY <2>1, <3>1, <3>2, <3>3, AliveQueue
  <2>. QED
    BY <2>2, <2>3
<1>13. ASSUME NEW s \in Streams, NEW b \in Bodies, NEW end \in BOOLEAN, NEW note \in BOOLEAN,
              SendData(s, b, end, note)
       PROVE  AliveInv'
  <2>1. /\ pending_bodies' = [pending_bodies EXCEPT ![s] = @ \cup {b}]
        /\ item' = item \/ item' = [item EXCEPT ![s] = [body |-> b, end |-> end]]
        /\ on_consumed' \subseteq on_consumed \cup {b}
        /\ UNCHANGED <<state, shut, queue>>
    BY ZenonT(30), <1>13 DEF SendData
  <2>0. /\ item \in [Streams -> Items] /\ on_consumed \subseteq Bodies
        /\ pending_bodies \in [Streams -> SUBSET Bodies]
    BY ZenonT(30) DEF AliveInv
  <2>2. /\ pending_bodies' \in [Streams -> SUBSET Bodies]
        /\ \A r \in Streams : pending_bodies[r] \subseteq pending_bodies'[r]
        /\ b \in pending_bodies'[s]
    BY <2>0, <2>1
  <2>3. item' \in [Streams -> Items] /\ on_consumed' \subseteq Bodies
    <3>1. [body |-> b, end |-> end] \in Items
      BY DEF Items
    <3>. QED
      BY <2>0, <2>1, <3>1
  <2>4. \A r \in Streams : Kept(r, item[r])'
    <3>. SUFFICES ASSUME NEW r \in Streams, item'[r] # NoItem
                  PROVE  item'[r].body \in pending_bodies'[r]
      BY DEF Kept
    <3>1. item'[r] = item[r] \/ (r = s /\ item'[r] = [body |-> b, end |-> end])
      BY ZenonT(30), <2>0, <2>1
    <3>2. item[r] # NoItem => item[r].body \in pending_bodies[r]
      BY ZenonT(30) DEF AliveInv, Kept
    <3>. QED
      BY <2>2, <3>1, <3>2
  <2>5. \A k \in 1..Len(queue) : ~Dropped(queue[k])' => Kept(queue[k].s, queue[k].item)'
    <3>. SUFFICES ASSUME NEW k \in 1..Len(queue), ~Dropped(queue[k])', queue[k].item # NoItem
                  PROVE  queue[k].item.body \in pending_bodies'[queue[k].s]
      BY <2>1 DEF Kept
    <3>1. ~Dropped(queue[k])
      BY ZenonT(30), <2>1 DEF Dropped
    <3>2. queue[k].item.body \in pending_bodies[queue[k].s]
      BY ZenonT(30), <3>1 DEF AliveInv, Kept
    <3>3. queue[k].f = "headers" /\ queue[k].s \in Streams
      BY ZenonT(30) DEF AliveInv
    <3>. QED
      BY ZenonT(30), <2>2, <3>2, <3>3
  <2>6. /\ \A k \in 1..Len(queue) : queue[k].f # "settings" => queue[k].s \in Streams
        /\ \A k \in 1..Len(queue) : queue[k].item # NoItem => queue[k].f = "headers"
        /\ shut \in [Streams -> SUBSET {"read", "write"}]
        /\ state \in [Streams -> {"idle", "open", "closed"}]
        /\ queue \in Seq(QueueFrames)
        /\ \A r \in Streams : shut[r] = {"read", "write"} <=> state[r] = "closed"
    BY ZenonT(30) DEF AliveInv
  <2>. HIDE DEF Kept, Dropped
  <2>. QED
    BY ZenonT(30), <2>1, <2>2, <2>3, <2>4, <2>5, <2>6 DEF AliveInv
<1>. QED
  BY ZenonT(30), <1>2, <1>3, <1>4, <1>5, <1>6, <1>7, <1>8, <1>9, <1>11, <1>12, <1>13
     DEF Next, FlushOut, OwnerCalls, Peer

-----------------------------------------------------------------------------
(* Nothing is left behind *)

(* Activations that send again before they return. *)
Sending(f) == f.at \in {"send", "drain", "notes", "resend", "recv"}

(* Once no activation would send again, everything is sent; only a FlushOut  *)
(* in its loop has flush_depth_ set, so one that skips the loop runs above   *)
(* another that will take the notifications.                                 *)
SettleInv ==
    /\ flush_depth = 1 => \E i \in 1..Len(stack) : InLoop(stack[i])
    /\ \A i \in 1..Len(stack) : stack[i].at = "drain" => i = Len(stack) /\ Sent
    /\ (\A i \in 1..Len(stack) : ~Sending(stack[i])) =>
          Sent /\ consumed_notifications = <<>> /\ (out => At({"write"}))

(* A call is made from code that is not draining, and its frames send. *)
LEMMA SettlePush ==
    ASSUME SettleInv, stack \in Seq(Frames), NEW m \in Nat, m > 0, m >= Len(stack),
           stack' \in Seq(Frames), Len(stack') = m,
           \A i \in 1..Len(stack) : stack'[i].at = stack[i].at,
           \A i \in 1..m : i > Len(stack) => stack'[i].at # "drain",
           \E i \in 1..m : Sending(stack'[i]),
           \A i \in 1..Len(stack) : stack[i].at # "drain",
           flush_depth' = flush_depth
    PROVE  SettleInv'
<1>0. Len(stack) \in Nat
  BY ZenonT(30), LenProperties
<1>1. \A i \in 1..Len(stack) : i \in 1..m /\ (InLoop(stack'[i]) <=> InLoop(stack[i]))
  BY <1>0 DEF InLoop
<1>2. \A i \in 1..m : stack'[i].at # "drain"
  BY <1>0
<1>. QED
  BY ZenonT(30), <1>1, <1>2 DEF SettleInv

(* An activation that has sent everything returns.                           *)
LEMMA SettleReturn ==
    ASSUME SettleInv, stack \in Seq(Frames), stack # <<>>, Return,
           ~InLoop(Last(stack)), ~Sending(Last(stack)),
           Sent => Sent', UNCHANGED <<flush_depth, consumed_notifications>>,
           IF Last(stack).at = "write" THEN ~out' ELSE out' = out
    PROVE  SettleInv'
<1>. DEFINE n == Len(stack)
<1>1. /\ stack' \in Seq(Frames) /\ Len(stack') = n - 1
      /\ n \in Nat /\ n > 0
      /\ \A i \in 1..n - 1 : stack'[i] = stack[i]
  BY ReturnProperties
<1>2. Last(stack) = stack[n]
  BY ZenonT(30) DEF Last
<1>3. /\ flush_depth = 1 => \E i \in 1..n : InLoop(stack[i])
      /\ \A i \in 1..n : stack[i].at = "drain" => i = n /\ Sent
      /\ (\A i \in 1..n : ~Sending(stack[i])) =>
            Sent /\ consumed_notifications = <<>> /\ (out => At({"write"}))
  BY DEF SettleInv
<1>. HIDE DEF n
<1>4. \A i \in 1..n : i = n \/ i \in 1..n - 1
  BY <1>1
<1>5. \A i \in 1..n - 1 : i \in 1..n /\ i # n
  BY <1>1
<1>6. flush_depth' = 1 => \E i \in 1..n - 1 : InLoop(stack'[i])
  BY <1>1, <1>2, <1>3, <1>4
<1>7. \A i \in 1..n - 1 : stack'[i].at # "drain"
  BY <1>1, <1>3, <1>5
<1>8. ASSUME \A i \in 1..n - 1 : ~Sending(stack'[i])
      PROVE  Sent' /\ consumed_notifications' = <<>> /\ ~out'
  <2>1. \A i \in 1..n : ~Sending(stack[i])
    BY <1>1, <1>2, <1>4, <1>8
  <2>2. Sent' /\ consumed_notifications' = <<>>
    BY <1>3, <2>1
  <2>3. out => Last(stack).at = "write"
    BY ZenonT(30), <1>3, <2>1 DEF At
  <2>. QED
    BY <2>2, <2>3
<1>. QED
  BY <1>1, <1>6, <1>7, <1>8 DEF SettleInv

(* FlushOut moves on to its next step.                                       *)
LEMMA SettleGoto ==
    ASSUME SettleInv, stack \in Seq(Frames), stack # <<>>, NEW f \in Frames, Goto(f),
           \/ InLoop(f)
           \/ ~InLoop(f) /\ ~InLoop(Last(stack)) /\ flush_depth' = flush_depth
           \/ flush_depth' # 1,
           f.at = "drain" => Sent',
           \/ Sending(f)
           \/ f.at = "write" /\ Sent' /\ consumed_notifications' = <<>>
           \/ f.at = "write" /\ ~InLoop(Last(stack)) /\ flush_depth' = 1 /\ flush_depth = 1,
           Sent => Sent'
    PROVE  SettleInv'
<1>. DEFINE n == Len(stack)
<1>1. /\ stack' \in Seq(Frames) /\ Len(stack') = n
      /\ n \in Nat /\ n > 0
      /\ \A i \in 1..n - 1 : stack'[i] = stack[i]
      /\ stack'[n] = f
  BY GotoProperties
<1>2. Last(stack) = stack[n]
  BY DEF Last
<1>3. /\ flush_depth = 1 => \E i \in 1..n : InLoop(stack[i])
      /\ \A i \in 1..n : stack[i].at = "drain" => i = n /\ Sent
  BY DEF SettleInv
<1>0. stack' # <<>> /\ Last(stack)' = f
  BY <1>1, EmptySeq DEF Last
<1>. HIDE DEF n
<1>4. n \in 1..n /\ \A i \in 1..n : i = n \/ i \in 1..n - 1
  BY <1>1
<1>5. \A i \in 1..n - 1 : i \in 1..n /\ i # n
  BY <1>1
<1>6. ~InLoop(Last(stack)) /\ flush_depth = 1 => \E i \in 1..n - 1 : InLoop(stack'[i])
  BY <1>1, <1>2, <1>3, <1>4
<1>7. flush_depth' = 1 => \E i \in 1..n : InLoop(stack'[i])
  <2>1. InLoop(f) => \E i \in 1..n : InLoop(stack'[i])
    BY <1>1, <1>4
  <2>. QED
    BY <1>5, <1>6, <2>1
<1>8. \A i \in 1..n : stack'[i].at = "drain" => i = n /\ Sent'
  BY <1>1, <1>3, <1>4, <1>5
<1>9. ASSUME \A i \in 1..n : ~Sending(stack'[i])
      PROVE  Sent' /\ consumed_notifications' = <<>> /\ At({"write"})'
  <2>1. ~Sending(f)
    BY <1>1, <1>4, <1>9
  <2>2. \A i \in 1..n : ~InLoop(stack'[i])
    BY <1>9 DEF InLoop, Sending
  <2>3. Sent' /\ consumed_notifications' = <<>> /\ f.at = "write"
    BY <1>5, <1>6, <2>1, <2>2
  <2>. QED
    BY <1>0, <2>3 DEF At
<1>. QED
  BY ZenonT(30), <1>1, <1>7, <1>8, <1>9 DEF SettleInv

(* The owner's code runs, or nghttp2 reads, with no FlushOut on top. *)
LEMMA NotDraining ==
    ASSUME SettleInv, stack \in Seq(Frames), OwnerRuns \/ At({"recv"})
    PROVE  \A i \in 1..Len(stack) : stack[i].at # "drain"
<1>1. \A i \in 1..Len(stack) : stack[i].at = "drain" => i = Len(stack)
  BY DEF SettleInv
<1>2. stack = <<>> => Len(stack) = 0
  BY EmptySeq
<1>3. CASE stack = <<>>
  BY <1>2, <1>3
<1>4. CASE stack # <<>>
  <2>1. Last(stack).at \in {"callback", "note", "recv"}
    BY <1>4 DEF OwnerRuns, At
  <2>2. stack[Len(stack)].at # "drain"
    BY <2>1 DEF Last
  <2>. QED
    BY <1>1, <2>2
<1>. QED
  BY <1>3, <1>4

(* A call of the owner ends in a flush.                                      *)
LEMMA SettleCall ==
    ASSUME SettleInv, stack \in Seq(Frames), OwnerRuns \/ stack = <<>>, NEW fs \in Seq(Frames), Call(fs),
           fs # <<>>, \A i \in 1..Len(fs) : fs[i].at # "drain", Sending(fs[Len(fs)]),
           flush_depth' = flush_depth
    PROVE  SettleInv'
<1>1. /\ stack' \in Seq(Frames) /\ Len(stack') = Len(stack) + Len(fs)
      /\ Len(stack) \in Nat /\ Len(fs) \in Nat
      /\ \A i \in 1..Len(stack) : stack'[i] = stack[i]
      /\ \A i \in 1..Len(fs) : stack'[Len(stack) + i] = fs[i]
  BY CallProperties
<1>2. Len(fs) > 0
  BY EmptySeq
<1>. DEFINE m == Len(stack) + Len(fs)
<1>3. m \in Nat /\ m > 0 /\ m >= Len(stack) /\ m \in 1..m
  BY <1>1, <1>2
<1>4. \A i \in 1..m : i > Len(stack) => stack'[i].at # "drain"
  <2>. TAKE i \in 1..m
  <2>. HAVE i > Len(stack)
  <2>1. i - Len(stack) \in 1..Len(fs) /\ Len(stack) + (i - Len(stack)) = i
    BY <1>1
  <2>. QED
    BY ZenonT(30), <1>1, <2>1
<1>5. Sending(stack'[m])
  BY <1>1, <1>2
<1>6. \A i \in 1..Len(stack) : stack[i].at # "drain"
  BY NotDraining DEF OwnerRuns
<1>. HIDE DEF m
<1>. QED
  BY ZenonT(30), <1>1, <1>3, <1>4, <1>5, <1>6, SettlePush DEF m

(* nghttp2 handles a frame: Consume sends after it. *)
LEMMA SettleRecv ==
    ASSUME SettleInv, stack \in Seq(Frames), NEW fs \in Seq(Frames), Recv(fs),
           \A i \in 1..Len(fs) : ~InLoop(fs[i]),
           flush_depth' = flush_depth
    PROVE  SettleInv'
<1>1. /\ stack' \in Seq(Frames) /\ Len(stack') = Len(stack) + Len(fs)
      /\ Len(stack) \in Nat /\ Len(stack) > 0 /\ Len(fs) \in Nat
      /\ \A i \in 1..Len(stack) : stack'[i].at = stack[i].at
      /\ stack[Len(stack)].at = "recv"
      /\ \A i \in 1..Len(fs) : stack'[Len(stack) + i] = fs[i]
  BY RecvProperties
<1>. DEFINE m == Len(stack) + Len(fs)
<1>3. m \in Nat /\ m > 0 /\ m >= Len(stack) /\ Len(stack) \in 1..Len(stack) /\ Len(stack) \in 1..m
  BY <1>1
<1>4. \A i \in 1..m : i > Len(stack) => stack'[i].at # "drain"
  <2>. TAKE i \in 1..m
  <2>. HAVE i > Len(stack)
  <2>1. i - Len(stack) \in 1..Len(fs) /\ Len(stack) + (i - Len(stack)) = i
    BY <1>1
  <2>. QED
    BY ZenonT(30), <1>1, <2>1 DEF InLoop
<1>5. Sending(stack'[Len(stack)])
  BY <1>1, <1>3 DEF Sending
<1>6. \A i \in 1..Len(stack) : stack[i].at # "drain"
  BY NotDraining DEF Recv
<1>. HIDE DEF m
<1>. QED
  BY <1>1, <1>3, <1>4, <1>5, <1>6, SettlePush DEF m

(* Every step leaves somebody to send what is left.                          *)
LEMMA NextSettle == ASSUME SettleInv, NestInv, AliveInv, [Next]_vars PROVE SettleInv'
<1>. stack \in Seq(Frames)
  BY DEF NestInv
<1>0. ASSUME UNCHANGED <<queue, item, window>> PROVE Sent <=> Sent'
  BY <1>0 DEF Sent, CanSend
<1>1. ASSUME At({"send", "resend"}), UNCHANGED <<stack, flush_depth>> PROVE SettleInv'
  <2>1. /\ stack # <<>> /\ Sending(stack[Len(stack)]) /\ stack[Len(stack)].at # "drain"
        /\ Len(stack) \in 1..Len(stack)
    BY <1>1, EmptySeq, LenProperties DEF At, Last, Sending
  <2>. QED
    BY <1>1, <2>1 DEF SettleInv
<1>2. CASE SendQueued \/ \E s \in Streams : SendBody(s)
  BY <1>1, <1>2 DEF SendQueued, SendBody
<1>3. CASE UNCHANGED vars
  <2>1. UNCHANGED <<stack, flush_depth, consumed_notifications, out, queue, item, window>>
    BY <1>3 DEF vars, ngVars
  <2>2. Sent <=> Sent'
    BY <1>0, <2>1
  <2>. QED
    BY <2>1, <2>2 DEF SettleInv, At
<1>4. CASE SendDone
  <2>1. /\ stack # <<>> /\ Last(stack).at \in {"send", "resend"} /\ Sent
        /\ UNCHANGED <<queue, item, window, consumed_notifications>>
    BY <1>4 DEF SendDone, At, othersAtFlush, ngVars
  <2>2. Sent'
    BY <1>0, <2>1
  <2>3. <<>> \in Seq(Bodies)
    BY EmptySeq
  <2>4. CASE Last(stack).at = "send" /\ flush_depth # 0
    <3>1. flush_depth = 1 /\ flush_depth' = 1 /\ Goto([at |-> "write", notes |-> <<>>])
      BY <1>4, <2>4 DEF SendDone, NestInv
    <3>2. ~InLoop(Last(stack))
      BY <2>4 DEF InLoop
    <3>. QED
      BY ZenonT(30), <2>1, <2>2, <2>3, <3>1, <3>2, SettleGoto, FlushFrames DEF InLoop, Flushing
  <2>5. CASE ~(Last(stack).at = "send" /\ flush_depth # 0)
    <3>1. Goto([at |-> "drain", notes |-> <<>>])
      BY <1>4, <2>5 DEF SendDone
    <3>. QED
      BY ZenonT(30), <2>1, <2>2, <2>3, <3>1, SettleGoto, FlushFrames DEF InLoop, Sending, Flushing
  <2>. QED
    BY <2>4, <2>5
<1>5. CASE Drain
  <2>1. /\ stack # <<>> /\ Last(stack).at = "drain" /\ consumed_notifications' = <<>>
        /\ UNCHANGED <<queue, item, window>>
    BY <1>5 DEF Drain, At, othersAtFlush, ngVars
  <2>2. stack[Len(stack)].at = "drain" /\ Len(stack) \in 1..Len(stack)
    BY <2>1, EmptySeq, LenProperties DEF Last
  <2>3. Sent /\ Sent' /\ flush_depth = 1
    BY <1>0, <2>1, <2>2 DEF SettleInv, NestInv, InLoop
  <2>4. <<>> \in Seq(Bodies) /\ consumed_notifications \in Seq(Bodies)
    BY EmptySeq DEF NestInv
  <2>5. CASE consumed_notifications = <<>>
    <3>1. flush_depth' = 0 /\ Goto([at |-> "write", notes |-> <<>>])
      BY <1>5, <2>3, <2>5 DEF Drain
    <3>. DEFINE f == [at |-> "write", notes |-> <<>>]
    <3>2. f \in Frames /\ f.at = "write"
      BY ZenonT(30), <2>4, FlushFrames DEF Flushing
    <3>. HIDE DEF f
    <3>. QED
      BY <2>1, <2>3, <3>1, <3>2, SettleGoto DEF f
  <2>6. CASE consumed_notifications # <<>>
    <3>1. Goto([at |-> "notes", notes |-> consumed_notifications])
      BY <1>5, <2>6 DEF Drain
    <3>. QED
      BY <2>1, <2>3, <2>4, <3>1, SettleGoto, FlushFrames DEF InLoop, Sending, Flushing
  <2>. QED
    BY <2>5, <2>6
<1>6. CASE RunNote
  <2>. DEFINE n == Len(stack)
  <2>1. /\ Len(stack') = n + 1 /\ n \in Nat /\ n > 0
        /\ stack[n].at = "notes"
        /\ \A i \in 1..n - 1 : stack'[i] = stack[i]
        /\ stack'[n].at = "notes" /\ stack'[n + 1].at = "note"
    BY ZenonT(30), <1>6, RunNoteProperties
  <2>2. \A i \in 1..n : stack[i].at = "drain" => i = n
    BY DEF SettleInv
  <2>. HIDE DEF n
  <2>3. InLoop(stack'[n]) /\ Sending(stack'[n]) /\ n \in 1..n + 1
    BY <2>1 DEF InLoop, Sending
  <2>4. \A i \in 1..n + 1 : stack'[i].at # "drain"
    <3>. TAKE i \in 1..n + 1
    <3>1. i = n \/ i = n + 1 \/ (i \in 1..n - 1 /\ i \in 1..n /\ i # n)
      BY <2>1
    <3>. QED
      BY <2>1, <2>2, <3>1
  <2>. QED
    BY <2>1, <2>3, <2>4 DEF SettleInv
<1>7. CASE NotesRun
  <2>1. /\ stack # <<>> /\ Goto([at |-> "resend", notes |-> <<>>]) /\ UNCHANGED <<queue, item, window>>
    BY <1>7 DEF NotesRun, At, othersAtFlush, ngVars
  <2>2. <<>> \in Seq(Bodies) /\ (Sent => Sent')
    BY <1>0, <2>1, EmptySeq
  <2>. QED
    BY ZenonT(30), <2>1, <2>2, SettleGoto, FlushFrames DEF InLoop, Sending, Flushing
<1>8. CASE Received
  <2>1. /\ stack # <<>> /\ Last(stack).at = "recv" /\ Goto(Flush)
        /\ UNCHANGED <<flush_depth, queue, item, window>>
    BY <1>8 DEF Received, At, othersAtRecv
  <2>2. Sent => Sent'
    BY <1>0, <2>1
  <2>. QED
    BY <2>1, <2>2, SettleGoto, FlushFrames DEF InLoop, Flush, Sending
<1>9. CASE Write \/ Submitted \/ OwnerReturns
  <2>1. /\ stack # <<>> /\ Return /\ UNCHANGED <<consumed_notifications, flush_depth>>
        /\ Last(stack).at \in {"write", "submitted", "callback", "note"}
        /\ IF Last(stack).at = "write" THEN ~out' ELSE out' = out
        /\ UNCHANGED <<queue, item, window>>
    BY <1>9 DEF Write, Submitted, OwnerReturns, At, othersAtFlush, ngVars
  <2>2. Sent => Sent'
    BY <1>0, <2>1
  <2>. QED
    BY ZenonT(30), <2>1, <2>2, SettleReturn DEF InLoop, Sending
<1>10. CASE RecvEnd
  <2>1. /\ stack # <<>> /\ Return /\ UNCHANGED <<consumed_notifications, flush_depth, out>>
        /\ Last(stack).at = "frameEnd" /\ UNCHANGED <<queue, window>>
        /\ item' = item \/ \E s : EndSides(s, {"read"}, item[s])
    BY ZenonT(30), <1>10 DEF RecvEnd, At, othersAtRecv, streamVars
  <2>2. \A r \in Streams : item'[r] = item[r] \/ item'[r] = NoItem
    <3>1. CASE item' = item
      BY Zenon, <3>1
    <3>2. CASE \E s : EndSides(s, {"read"}, item[s])
      <4>1. PICK s, v : (v = NoItem \/ v = item[s]) /\ item' = [item EXCEPT ![s] = v]
        BY Zenon, <3>2 DEF EndSides
      <4>2. item \in [Streams -> Items]
        BY Zenon DEF AliveInv
      <4>. QED
        BY <4>1, <4>2
    <3>. QED
      BY Zenon, <2>1, <3>1, <3>2
  <2>3. Sent => Sent'
    BY <2>1, <2>2 DEF Sent, CanSend
  <2>. QED
    BY ZenonT(30), <2>1, <2>3, SettleReturn DEF InLoop, Sending
<1>11. ASSUME NEW s \in Streams,
              \/ \E b \in Bodies, end, note \in BOOLEAN : SendData(s, b, end, note)
              \/ SendTrailers(s) \/ ResetStream(s) \/ \E end \in BOOLEAN : SendHeaders(s, end)
       PROVE  SettleInv'
  <2>1. OwnerRuns /\ Call(<<Flush>>) /\ UNCHANGED flush_depth
    BY ZenonT(30), <1>11 DEF SendData, SendTrailers, ResetStream, SendHeaders, othersAtCall
  <2>2. Flush.at = "send" /\ Sending(Flush)
    BY DEF Flush, Sending
  <2>. DEFINE fs == <<Flush>>
  <2>3. /\ fs \in Seq(Frames) /\ fs # <<>>
        /\ \A i \in 1..Len(fs) : fs[i].at # "drain"
        /\ Sending(fs[Len(fs)])
    BY <2>2, FlushFrames
  <2>. HIDE DEF fs
  <2>. QED
    BY ZenonT(30), <2>1, <2>3, SettleCall DEF fs
<1>12. ASSUME NEW s \in Streams, SubmitRequestOpen(s) \/ \E b \in Bodies : SubmitRequest(s, b)
       PROVE  SettleInv'
  <2>. DEFINE f == [at |-> "submitted", s |-> s]
  <2>1. OwnerRuns /\ Call(<<f, Flush>>) /\ UNCHANGED flush_depth
    BY ZenonT(30), <1>12 DEF SubmitRequestOpen, SubmitRequest, othersAtCall
  <2>2. Flush.at = "send" /\ Sending(Flush) /\ f \in Frames /\ f.at # "drain"
    BY DEF Flush, Sending, Frames, AfterFrame
  <2>. HIDE DEF f
  <2>. DEFINE fs == <<f, Flush>>
  <2>3. /\ fs \in Seq(Frames) /\ fs # <<>>
        /\ \A i \in 1..Len(fs) : fs[i].at # "drain"
        /\ Sending(fs[Len(fs)])
    BY <2>2, FlushFrames
  <2>. HIDE DEF fs
  <2>. QED
    BY ZenonT(30), <2>1, <2>3, SettleCall DEF fs
<1>13. CASE Consume
  <2>. DEFINE f == [at |-> "recv", left |-> MaxFrames]
  <2>1. stack = <<>> /\ Call(<<f>>) /\ UNCHANGED flush_depth
    BY <1>13 DEF Consume, othersAtRecv
  <2>2. f \in Frames /\ Sending(f) /\ f.at # "drain"
    BY ConstantsAssumption DEF Frames, RecvFrame, Sending
  <2>. HIDE DEF f
  <2>. DEFINE fs == <<f>>
  <2>3. /\ fs \in Seq(Frames) /\ fs # <<>>
        /\ \A i \in 1..Len(fs) : fs[i].at # "drain"
        /\ Sending(fs[Len(fs)])
    BY <2>2
  <2>. HIDE DEF fs
  <2>. QED
    BY ZenonT(30), <2>1, <2>3, SettleCall DEF fs
<1>14. ASSUME NEW s \in Streams,
              \/ \E end \in BOOLEAN : RecvHeaders(s, end) \/ RecvData(s, end)
              \/ RecvWindow(s) \/ RecvReset(s)
       PROVE  SettleInv'
  <2>1. PICK fs \in {<<>>, <<Callback>>, <<[at |-> "frameEnd", s |-> s], Callback>>} : Recv(fs)
    BY ZenonT(30), <1>14, ReceivedFrames
  <2>2. UNCHANGED flush_depth
    BY <1>14 DEF RecvHeaders, RecvData, RecvWindow, RecvReset, othersAtRecv
  <2>. QED
    BY ZenonT(30), <2>1, <2>2, PushedFrames, SettleRecv
<1>. QED
  BY <1>2, <1>3, <1>4, <1>5, <1>6, <1>7, <1>8, <1>9, <1>10, <1>11, <1>12, <1>13, <1>14
     DEF Next, FlushOut, OwnerCalls, Peer

-----------------------------------------------------------------------------
(* A notification runs once, after its body *)

Unique(q) == \A i, j \in DOMAIN q : q[i] = q[j] => i = j

(* The bodies that were fully read and have their notification taken. *)
Read(b) == b \in handed /\ b \notin on_consumed /\ read[b] = Size[b]

(* A notification is in at most one place: still with its body, in the       *)
(* deque, taken by the FlushOut that runs them, or run.                      *)
NoteInv ==
    /\ read \in [Bodies -> Nat] /\ \A b \in Bodies : read[b] <= Size[b]
    /\ on_consumed \subseteq handed /\ handed \subseteq Bodies
    /\ fired \in Seq(Bodies)
    /\ Unique(fired) /\ Unique(consumed_notifications)
    /\ \A b \in Bodies : In(b, fired) \/ In(b, consumed_notifications) => Read(b)
    /\ \A b \in Bodies : ~(In(b, fired) /\ In(b, consumed_notifications))
    /\ \A i \in 1..Len(stack) : stack[i].at = "notes" =>
          /\ Unique(stack[i].notes)
          /\ \A b \in Bodies : In(b, stack[i].notes) =>
                Read(b) /\ ~In(b, fired) /\ ~In(b, consumed_notifications)

(* What is in a deque after push_back.                                       *)
LEMMA InAppend ==
    ASSUME NEW S, NEW q \in Seq(S), NEW e \in S
    PROVE  /\ \A b : In(b, Append(q, e)) <=> In(b, q) \/ b = e
           /\ Unique(q) /\ ~In(e, q) => Unique(Append(q, e))
<1>1. /\ Append(q, e) \in Seq(S) /\ Len(Append(q, e)) = Len(q) + 1 /\ Len(q) \in Nat
      /\ \A i \in 1..Len(q) : Append(q, e)[i] = q[i]
      /\ Append(q, e)[Len(q) + 1] = e
  <2>1. Len(q) \in Nat
    BY Zenon, LenProperties
  <2>. QED
    BY <2>1, AppendProperties
<1>2. DOMAIN Append(q, e) = 1..Len(q) + 1 /\ DOMAIN q = 1..Len(q)
  BY <1>1, LenProperties
<1>3. /\ \A i \in 1..Len(q) + 1 : i \in 1..Len(q) \/ i = Len(q) + 1
      /\ Len(q) + 1 \in 1..Len(q) + 1 /\ \A i \in 1..Len(q) : i \in 1..Len(q) + 1
  BY SMTT(30), <1>1
<1>4. \A b : In(b, Append(q, e)) <=> In(b, q) \/ b = e
  BY ZenonT(30), <1>1, <1>2, <1>3 DEF In
<1>5. ASSUME Unique(q), ~In(e, q) PROVE Unique(Append(q, e))
  BY ZenonT(30), <1>1, <1>2, <1>3, <1>5 DEF In, Unique
<1>. QED
  BY <1>4, <1>5

(* What is in a deque after pop_front.                                       *)
LEMMA InTail ==
    ASSUME NEW S, NEW q \in Seq(S), q # <<>>, Unique(q)
    PROVE  /\ Head(q) \in S /\ In(Head(q), q)
           /\ Unique(Tail(q)) /\ ~In(Head(q), Tail(q))
           /\ \A b : In(b, Tail(q)) => In(b, q)
<1>1. /\ Head(q) \in S /\ Tail(q) \in Seq(S) /\ Len(Tail(q)) = Len(q) - 1
      /\ \A i \in 1..Len(Tail(q)) : Tail(q)[i] = q[i + 1]
      /\ Len(q) \in Nat /\ Len(q) > 0 /\ Head(q) = q[1]
  BY HeadTailProperties, LenProperties, EmptySeq
<1>2. DOMAIN q = 1..Len(q) /\ DOMAIN Tail(q) = 1..Len(q) - 1
  BY <1>1, LenProperties
<1>3. /\ 1 \in 1..Len(q)
      /\ \A i \in 1..Len(q) - 1 : i + 1 \in 1..Len(q) /\ i + 1 # 1
      /\ \A i, j \in 1..Len(q) - 1 : i + 1 = j + 1 => i = j
  BY <1>1
<1>4. \A i \in 1..Len(q) - 1 : Tail(q)[i] = q[i + 1]
  BY <1>1
<1>5. Unique(Tail(q))
  BY <1>2, <1>3, <1>4 DEF Unique
<1>6. In(Head(q), q)
  BY Zenon, <1>1, <1>2, <1>3 DEF In
<1>7. ~In(Head(q), Tail(q))
  <2>1. \A i \in 1..Len(q) - 1 : q[i + 1] # q[1]
    BY Zenon, <1>2, <1>3 DEF Unique
  <2>2. \A i \in 1..Len(q) - 1 : Tail(q)[i] # Head(q)
    BY Zenon, <1>1, <1>4, <2>1
  <2>. QED
    BY Zenon, <1>2, <2>2 DEF In
<1>8. \A b : In(b, Tail(q)) => In(b, q)
  BY Zenon, <1>2, <1>3, <1>4 DEF In
<1>. QED
  BY Zenon, <1>1, <1>5, <1>6, <1>7, <1>8

(* Nothing is in an empty deque.                                             *)
LEMMA InEmpty == Unique(<<>>) /\ \A b : ~In(b, <<>>)
<1>1. DOMAIN <<>> = {}
  BY SMTT(30)
<1>. QED
  BY <1>1 DEF Unique, In

(* A step that neither takes nor queues notifications. *)
LEMMA NoteKept ==
    ASSUME NoteInv,
           \A i \in 1..Len(stack') : stack'[i].at = "notes" =>
              \E j \in 1..Len(stack) : stack[j].at = "notes" /\ stack[j].notes = stack'[i].notes,
           read' \in [Bodies -> Nat], \A b \in Bodies : read'[b] <= Size[b],
           \A b \in Bodies : Read(b) => Read(b)',
           on_consumed' \subseteq handed', handed' \subseteq Bodies,
           UNCHANGED <<fired, consumed_notifications>>
    PROVE  NoteInv'
<1>1. \A i \in 1..Len(stack') : stack'[i].at = "notes" =>
         /\ Unique(stack'[i].notes)
         /\ \A b \in Bodies : In(b, stack'[i].notes) =>
               Read(b)' /\ ~In(b, fired') /\ ~In(b, consumed_notifications')
  BY ZenonT(30) DEF NoteInv
<1>. HIDE DEF Unique, In, Read
<1>. QED
  BY ZenonT(30), <1>1 DEF NoteInv

(* No batch of notifications is taken, and none runs.                        *)
LEMMA NoteStack ==
    ASSUME NoteInv,
           \A i \in 1..Len(stack') : stack'[i].at = "notes" =>
              \E j \in 1..Len(stack) : stack[j].at = "notes" /\ stack[j].notes = stack'[i].notes,
           UNCHANGED <<read, on_consumed, handed, fired, consumed_notifications>>
    PROVE  NoteInv'
<1>1. \A b \in Bodies : Read(b) => Read(b)'
  BY ZenonT(30) DEF Read
<1>. QED
  BY ZenonT(30), <1>1, NoteKept DEF NoteInv

(* New activations carry no batch.                                           *)
LEMMA NotesPush ==
    ASSUME stack \in Seq(Frames), NEW fs \in Seq(Frames), Call(fs) \/ Recv(fs),
           \A i \in 1..Len(fs) : ~InLoop(fs[i])
    PROVE  \A i \in 1..Len(stack') : stack'[i].at = "notes" =>
              \E j \in 1..Len(stack) : stack[j].at = "notes" /\ stack[j].notes = stack'[i].notes
<1>1. /\ Len(stack') = Len(stack) + Len(fs) /\ Len(stack) \in Nat /\ Len(fs) \in Nat
      /\ \A i \in 1..Len(stack) : stack'[i].at = "notes" => stack'[i] = stack[i]
      /\ \A i \in 1..Len(fs) : stack'[Len(stack) + i] = fs[i]
  <2>1. CASE Call(fs)
    BY <2>1, CallProperties
  <2>2. CASE Recv(fs)
    <3>1. /\ Len(stack') = Len(stack) + Len(fs) /\ Len(stack) \in Nat /\ Len(fs) \in Nat
          /\ Len(stack) > 0
          /\ \A i \in 1..Len(stack) : stack'[i].at = stack[i].at
          /\ \A i \in 1..Len(stack) - 1 : stack'[i] = stack[i]
          /\ stack[Len(stack)].at = "recv"
          /\ \A i \in 1..Len(fs) : stack'[Len(stack) + i] = fs[i]
      BY <2>2, RecvProperties
    <3>2. \A i \in 1..Len(stack) : i \in 1..Len(stack) - 1 \/ i = Len(stack)
      BY <3>1
    <3>. QED
      BY ZenonT(30), <3>1, <3>2
  <2>. QED
    BY ZenonT(30), <2>1, <2>2
<1>2. \A i \in 1..Len(stack') : stack'[i].at = "notes" => i \in 1..Len(stack)
  <2>. TAKE i \in 1..Len(stack')
  <2>. HAVE stack'[i].at = "notes"
  <2>1. CASE i \notin 1..Len(stack)
    <3>1. i - Len(stack) \in 1..Len(fs) /\ Len(stack) + (i - Len(stack)) = i
      BY <1>1, <2>1
    <3>2. ~InLoop(stack'[i])
      BY ZenonT(30), <1>1, <3>1
    <3>. QED
      BY <3>2 DEF InLoop
  <2>. QED
    BY <2>1
<1>. QED
  BY ZenonT(30), <1>1, <1>2

(* A return leaves no new batch.                                             *)
LEMMA NotesReturn ==
    ASSUME stack \in Seq(Frames), stack # <<>>, Return
    PROVE  \A i \in 1..Len(stack') : stack'[i].at = "notes" =>
              \E j \in 1..Len(stack) : stack[j].at = "notes" /\ stack[j].notes = stack'[i].notes
<1>1. /\ Len(stack') = Len(stack) - 1 /\ Len(stack) \in Nat
      /\ \A i \in 1..Len(stack) - 1 : stack'[i] = stack[i]
  BY ReturnProperties
<1>2. \A i \in 1..Len(stack) - 1 : i \in 1..Len(stack)
  BY <1>1
<1>. QED
  BY <1>1, <1>2

(* Only the step into the loop takes a batch.                                *)
LEMMA NotesGoto ==
    ASSUME stack \in Seq(Frames), stack # <<>>, NEW f \in Frames, Goto(f), f.at # "notes"
    PROVE  \A i \in 1..Len(stack') : stack'[i].at = "notes" =>
              \E j \in 1..Len(stack) : stack[j].at = "notes" /\ stack[j].notes = stack'[i].notes
<1>1. /\ Len(stack') = Len(stack) /\ Len(stack) \in Nat
      /\ \A i \in 1..Len(stack) - 1 : stack'[i] = stack[i]
      /\ stack'[Len(stack)] = f
  BY GotoProperties
<1>2. \A i \in 1..Len(stack) : i = Len(stack) \/ (i \in 1..Len(stack) - 1 /\ i \in 1..Len(stack))
  BY <1>1
<1>. QED
  BY <1>1, <1>2

(* FlushOut takes the deque: no other activation holds notifications. *)
LEMMA NoteDrain == ASSUME NoteInv, NestInv, Drain PROVE NoteInv'
<1>1. /\ stack \in Seq(Frames) /\ stack # <<>> /\ Last(stack).at = "drain"
      /\ consumed_notifications' = <<>>
      /\ UNCHANGED <<read, on_consumed, handed, fired>>
  BY DEF Drain, At, NestInv, othersAtFlush, bodyVars
<1>2. <<>> \in Seq(Bodies) /\ consumed_notifications \in Seq(Bodies)
  BY EmptySeq DEF NestInv
<1>3. \A b \in Bodies : Read(b) <=> Read(b)'
  BY ZenonT(30), <1>1 DEF Read
<1>4. ASSUME \A i \in 1..Len(stack') : stack'[i].at = "notes" =>
                 \/ \E j \in 1..Len(stack) : stack[j].at = "notes" /\ stack[j].notes = stack'[i].notes
                 \/ stack'[i].notes = consumed_notifications
      PROVE  NoteInv'
  <2>1. \A i \in 1..Len(stack') : stack'[i].at = "notes" =>
           /\ Unique(stack'[i].notes)
           /\ \A b \in Bodies : In(b, stack'[i].notes) =>
                 Read(b) /\ ~In(b, fired)
    <3>. HIDE DEF Unique, In, Read
    <3>. QED
      BY ZenonT(30), <1>4 DEF NoteInv
  <2>2. /\ read \in [Bodies -> Nat] /\ \A b \in Bodies : read[b] <= Size[b]
        /\ on_consumed \subseteq handed /\ handed \subseteq Bodies /\ fired \in Seq(Bodies)
        /\ Unique(fired) /\ \A b \in Bodies : In(b, fired) => Read(b)
    BY ZenonT(30) DEF NoteInv
  <2>3. Unique(consumed_notifications') /\ \A b : ~In(b, consumed_notifications')
    BY <1>1, InEmpty
  <2>. HIDE DEF Unique, In, Read
  <2>. QED
    BY ZenonT(30), <1>1, <1>3, <2>1, <2>2, <2>3 DEF NoteInv
<1>5. CASE consumed_notifications = <<>>
  <2>. DEFINE f == [at |-> "write", notes |-> <<>>]
  <2>1. f \in Frames /\ f.at = "write" /\ Goto(f)
    BY ZenonT(30), <1>2, <1>5, FlushFrames DEF Flushing, Drain
  <2>. HIDE DEF f
  <2>. QED
    BY ZenonT(30), <1>1, <1>4, <2>1, NotesGoto
<1>6. CASE consumed_notifications # <<>>
  <2>. DEFINE f == [at |-> "notes", notes |-> consumed_notifications]
              n == Len(stack)
  <2>1. f \in Frames /\ f.notes = consumed_notifications /\ Goto(f)
    BY <1>2, <1>6, FlushFrames DEF Flushing, Drain
  <2>. HIDE DEF f
  <2>2. /\ Len(stack') = n /\ n \in Nat
        /\ \A i \in 1..n - 1 : stack'[i] = stack[i]
        /\ stack'[n] = f
    BY <1>1, <2>1, GotoProperties
  <2>3. \A i \in 1..n : i = n \/ (i \in 1..n - 1 /\ i \in 1..n)
    BY SMTT(30), <2>2
  <2>. QED
    BY ZenonT(30), <1>4, <2>1, <2>2, <2>3
<1>. QED
  BY ZenonT(30), <1>5, <1>6

(* A notification leaves its batch and runs.                                 *)
LEMMA NoteRun == ASSUME NoteInv, NestInv, RunNote PROVE NoteInv'
<1>. DEFINE n == Len(stack)
            q == stack[n].notes
<1>1. /\ Len(stack') = n + 1 /\ n \in Nat /\ n > 0
      /\ stack[n].at = "notes" /\ q \in Seq(Bodies) /\ q # <<>>
      /\ \A i \in 1..n - 1 : stack'[i] = stack[i]
      /\ stack'[n].notes = Tail(q)
      /\ stack'[n + 1].at = "note"
      /\ fired' = Append(fired, Head(q))
  BY ZenonT(30), RunNoteProperties DEF NestInv
<1>2. UNCHANGED <<read, on_consumed, handed, consumed_notifications>>
  BY DEF RunNote, othersAtFlush, bodyVars
<1>3. n \in 1..n /\ \A i \in 1..n - 1 : i \in 1..n /\ i # n
  BY <1>1
<1>4. \A i \in 1..n - 1 : stack'[i].at # "notes"
  BY ZenonT(30), <1>1, <1>3 DEF NestInv, InLoop
<1>5. /\ Unique(q) /\ Unique(fired) /\ fired \in Seq(Bodies)
      /\ \A b \in Bodies : In(b, q) => Read(b) /\ ~In(b, fired) /\ ~In(b, consumed_notifications)
  BY ZenonT(30), <1>1, <1>3 DEF NoteInv
<1>6. \A b \in Bodies : Read(b) <=> Read(b)'
  BY <1>2 DEF Read
<1>. HIDE DEF n, q, Unique, In, Read
<1>7. /\ Head(q) \in Bodies /\ In(Head(q), q)
      /\ Unique(Tail(q)) /\ ~In(Head(q), Tail(q))
      /\ \A b : In(b, Tail(q)) => In(b, q)
  BY ZenonT(30), <1>1, <1>5, InTail
<1>8. /\ \A b : In(b, fired') <=> In(b, fired) \/ b = Head(q)
      /\ Unique(fired') /\ fired' \in Seq(Bodies)
  BY <1>1, <1>5, <1>7, InAppend, AppendProperties
<1>9. \A i \in 1..n + 1 : i \in 1..n - 1 \/ i = n \/ i = n + 1
  BY SMTT(30), <1>1
<1>10. \A i \in 1..Len(stack') : stack'[i].at = "notes" =>
          /\ Unique(stack'[i].notes)
          /\ \A b \in Bodies : In(b, stack'[i].notes) =>
                Read(b)' /\ ~In(b, fired') /\ ~In(b, consumed_notifications')
  <2>. SUFFICES ASSUME NEW i \in 1..Len(stack'), stack'[i].at = "notes"
                PROVE  /\ Unique(stack'[i].notes)
                       /\ \A b \in Bodies : In(b, stack'[i].notes) =>
                             Read(b)' /\ ~In(b, fired') /\ ~In(b, consumed_notifications')
    OBVIOUS
  <2>1. i = n
    BY ZenonT(30), <1>1, <1>4, <1>9
  <2>. QED
    BY ZenonT(30), <1>1, <1>2, <1>5, <1>6, <1>7, <1>8, <2>1
<1>11. /\ read \in [Bodies -> Nat] /\ \A b \in Bodies : read[b] <= Size[b]
       /\ on_consumed \subseteq handed /\ handed \subseteq Bodies
       /\ Unique(consumed_notifications)
       /\ \A b \in Bodies : In(b, fired) \/ In(b, consumed_notifications) => Read(b)
       /\ \A b \in Bodies : ~(In(b, fired) /\ In(b, consumed_notifications))
  BY DEF NoteInv
<1>. QED
  BY ZenonT(30), <1>2, <1>5, <1>6, <1>7, <1>8, <1>10, <1>11 DEF NoteInv

(* nghttp2 reads a chunk; the last one queues the notification, if it is set. *)
LEMMA NoteBody ==
    ASSUME NoteInv, NestInv, AliveInv, NEW s \in Streams, SendBody(s)
    PROVE  NoteInv'
<1>2. PICK b \in Bodies : b = item[s].body
  <2>1. item[s] # NoItem
    BY ZenonT(30) DEF SendBody, CanSend
  <2>. QED
    BY ZenonT(30), <2>1 DEF AliveInv, Kept
<1>. DEFINE n == IF read[b] < Size[b] THEN 1 ELSE 0
<1>1. /\ item[s] # NoItem /\ UNCHANGED <<stack, handed, fired>>
      /\ read' = [read EXCEPT ![b] = @ + n]
      /\ \/ UNCHANGED <<consumed_notifications, on_consumed>>
         \/ /\ read[b] + n = Size[b] /\ b \in on_consumed
            /\ consumed_notifications' = Append(consumed_notifications, b)
            /\ on_consumed' = on_consumed \ {b}
  <2>1. item[s] # NoItem /\ UNCHANGED <<stack, handed, fired>>
    BY Zenon DEF SendBody, CanSend
  <2>2. read' = [read EXCEPT ![b] = @ + n]
    BY Zenon, <1>2 DEF SendBody
  <2>3. IF read[b] + n = Size[b] /\ b \in on_consumed
        THEN /\ consumed_notifications' = Append(consumed_notifications, b)
             /\ on_consumed' = on_consumed \ {b}
        ELSE UNCHANGED <<consumed_notifications, on_consumed>>
    BY Zenon, <1>2 DEF SendBody
  <2>. HIDE DEF n
  <2>. QED
    BY Zenon, <2>1, <2>2, <2>3
<1>3. /\ read \in [Bodies -> Nat] /\ \A x \in Bodies : read[x] <= Size[x] /\ Size[x] \in Nat
      /\ on_consumed \subseteq handed /\ handed \subseteq Bodies
  BY ZenonT(30), ConstantsAssumption DEF NoteInv
<1>4. /\ read' \in [Bodies -> Nat] /\ \A x \in Bodies : read'[x] <= Size[x]
      /\ read'[b] = read[b] + n /\ \A x \in Bodies : x # b => read'[x] = read[x]
  <2>1. read[b] \in Nat /\ Size[b] \in Nat /\ read[b] <= Size[b]
    BY Zenon, <1>2, <1>3
  <2>2. read[b] + n \in Nat /\ read[b] + n <= Size[b]
    BY <2>1
  <2>. HIDE DEF n
  <2>3. read'[b] = read[b] + n /\ \A x \in Bodies : x # b => read'[x] = read[x]
    BY <1>1, <1>2, <1>3
  <2>4. read' \in [Bodies -> Nat]
    BY <1>1, <1>2, <1>3, <2>2
  <2>. QED
    BY Zenon, <1>3, <2>2, <2>3, <2>4
<1>5. read[b] = Size[b] => n = 0
  BY <1>2, <1>3
<1>6. \A x \in Bodies : read[x] = Size[x] => read'[x] = Size[x]
  BY <1>2, <1>3, <1>4, <1>5
<1>. HIDE DEF n
<1>7. on_consumed' \subseteq on_consumed
  BY ZenonT(30), <1>1
<1>8. \A x \in Bodies : Read(x) => Read(x)'
  BY ZenonT(30), <1>1, <1>6, <1>7 DEF Read
<1>9. CASE UNCHANGED <<consumed_notifications, on_consumed>>
  <2>1. \A i \in 1..Len(stack') : stack'[i].at = "notes" =>
           \E j \in 1..Len(stack) : stack[j].at = "notes" /\ stack[j].notes = stack'[i].notes
    BY ZenonT(30), <1>1
  <2>. QED
    BY ZenonT(30), <1>1, <1>3, <1>4, <1>8, <1>9, <2>1, NoteKept
<1>10. CASE /\ read[b] + n = Size[b] /\ b \in on_consumed
            /\ consumed_notifications' = Append(consumed_notifications, b)
            /\ on_consumed' = on_consumed \ {b}
  <2>1. ~Read(b) /\ Read(b)'
    BY ZenonT(30), <1>1, <1>3, <1>4, <1>10 DEF Read
  <2>2. /\ fired \in Seq(Bodies) /\ Unique(fired) /\ Unique(consumed_notifications)
        /\ consumed_notifications \in Seq(Bodies)
        /\ \A x \in Bodies : In(x, fired) \/ In(x, consumed_notifications) => Read(x)
        /\ \A x \in Bodies : ~(In(x, fired) /\ In(x, consumed_notifications))
        /\ \A i \in 1..Len(stack) : stack[i].at = "notes" =>
              /\ Unique(stack[i].notes)
              /\ \A x \in Bodies : In(x, stack[i].notes) =>
                    Read(x) /\ ~In(x, fired) /\ ~In(x, consumed_notifications)
    BY ZenonT(30) DEF NoteInv, NestInv
  <2>. HIDE DEF Unique, In, Read
  <2>3. /\ \A x : In(x, consumed_notifications') <=> In(x, consumed_notifications) \/ x = b
        /\ Unique(consumed_notifications')
    <3>1. b \in Bodies /\ ~In(b, consumed_notifications)
      BY Zenon, <1>2, <2>1, <2>2
    <3>2. /\ \A x : In(x, Append(consumed_notifications, b)) <=>
                    In(x, consumed_notifications) \/ x = b
          /\ Unique(Append(consumed_notifications, b))
      BY Zenon, <2>2, <3>1, InAppend
    <3>. QED
      BY Zenon, <1>10, <3>2
  <2>4. \A i \in 1..Len(stack') : stack'[i].at = "notes" =>
           /\ Unique(stack'[i].notes)
           /\ \A x \in Bodies : In(x, stack'[i].notes) =>
                 Read(x)' /\ ~In(x, fired') /\ ~In(x, consumed_notifications')
    BY ZenonT(30), <1>1, <1>8, <2>1, <2>2, <2>3
  <2>5. /\ \A x \in Bodies : In(x, fired') \/ In(x, consumed_notifications') => Read(x)'
        /\ \A x \in Bodies : ~(In(x, fired') /\ In(x, consumed_notifications'))
    BY ZenonT(30), <1>1, <1>8, <2>1, <2>2, <2>3
  <2>6. on_consumed' \subseteq handed' /\ handed' \subseteq Bodies
    BY ZenonT(30), <1>1, <1>3, <1>7
  <2>. QED
    BY ZenonT(30), <1>1, <1>4, <2>2, <2>3, <2>4, <2>5, <2>6 DEF NoteInv
<1>. QED
  BY ZenonT(30), <1>1, <1>9, <1>10

(* Every step keeps each notification in one place.                          *)
LEMMA NextNote == ASSUME NoteInv, NestInv, AliveInv, [Next]_vars PROVE NoteInv'
<1>. stack \in Seq(Frames)
  BY DEF NestInv
<1>. DEFINE Others == UNCHANGED <<read, on_consumed, handed, fired, consumed_notifications>>
<1>1. CASE UNCHANGED vars \/ SendQueued
  <2>1. UNCHANGED stack /\ Others
    BY <1>1 DEF vars, SendQueued, bodyVars
  <2>. QED
    BY <2>1, NoteStack
<1>2. ASSUME NEW s \in Streams, SendBody(s) PROVE NoteInv'
  BY ZenonT(30), <1>2, NoteBody
<1>3. CASE SendDone \/ NotesRun \/ Received
  <2>1. <<>> \in Seq(Bodies)
    BY ZenonT(30), EmptySeq
  <2>2. PICK f \in {Flush, [at |-> "write", notes |-> <<>>], [at |-> "drain", notes |-> <<>>],
                    [at |-> "resend", notes |-> <<>>]} : Goto(f)
    BY <1>3 DEF SendDone, NotesRun, Received
  <2>3. f \in Frames /\ f.at # "notes"
    BY ZenonT(30), <2>1, FlushFrames DEF Flushing, Flush
  <2>4. stack # <<>> /\ Others
    BY <1>3 DEF SendDone, NotesRun, Received, At, othersAtFlush, othersAtRecv, bodyVars
  <2>. QED
    BY <2>2, <2>3, <2>4, NotesGoto, NoteStack
<1>4. CASE Drain
  BY <1>4, NoteDrain
<1>5. CASE RunNote
  BY ZenonT(30), <1>5, NoteRun
<1>6. CASE Write \/ Submitted \/ OwnerReturns \/ RecvEnd
  <2>1. stack # <<>> /\ Return /\ Others
    BY ZenonT(30), <1>6 DEF Write, Submitted, OwnerReturns, RecvEnd, At, othersAtFlush, othersAtRecv, bodyVars
  <2>. QED
    BY ZenonT(30), <2>1, NotesReturn, NoteStack
<1>7. ASSUME NEW s \in Streams,
              \/ SendTrailers(s) \/ ResetStream(s) \/ \E end \in BOOLEAN : SendHeaders(s, end)
              \/ SubmitRequestOpen(s)
       PROVE  NoteInv'
  <2>1. Others
    BY ZenonT(30), <1>7 DEF SendTrailers, ResetStream, SendHeaders, SubmitRequestOpen, othersAtCall, bodyVars
  <2>2. Call(<<Flush>>) \/ Call(<<[at |-> "submitted", s |-> s], Flush>>)
    BY ZenonT(30), <1>7 DEF SendTrailers, ResetStream, SendHeaders, SubmitRequestOpen
  <2>. QED
    BY ZenonT(30), <2>1, <2>2, PushedFrames, NotesPush, NoteStack
<1>8. ASSUME NEW s \in Streams, NEW b \in Bodies,
              \/ SubmitRequest(s, b)
              \/ \E end, note \in BOOLEAN : SendData(s, b, end, note)
       PROVE  NoteInv'
  <2>1. /\ b \notin handed /\ handed' = handed \cup {b}
        /\ on_consumed' \subseteq on_consumed \cup {b}
        /\ UNCHANGED <<read, fired, consumed_notifications>>
    BY ZenonT(30), <1>8 DEF SubmitRequest, SendData, HandOver, othersAtCall
  <2>2. Call(<<Flush>>) \/ Call(<<[at |-> "submitted", s |-> s], Flush>>)
    BY ZenonT(30), <1>8 DEF SubmitRequest, SendData
  <2>3. \A x \in Bodies : Read(x) => Read(x)'
    BY ZenonT(30), <2>1 DEF Read
  <2>4. /\ on_consumed' \subseteq handed' /\ handed' \subseteq Bodies
        /\ read' \in [Bodies -> Nat] /\ \A x \in Bodies : read'[x] <= Size[x]
    BY ZenonT(30), <2>1 DEF NoteInv
  <2>5. \A i \in 1..Len(stack') : stack'[i].at = "notes" =>
           \E j \in 1..Len(stack) : stack[j].at = "notes" /\ stack[j].notes = stack'[i].notes
    BY ZenonT(30), <2>2, PushedFrames, NotesPush
  <2>6. UNCHANGED <<fired, consumed_notifications>>
    BY <2>1
  <2>. QED
    BY ZenonT(30), <2>3, <2>4, <2>5, <2>6, NoteKept
<1>9. CASE Consume
  <2>. DEFINE f == [at |-> "recv", left |-> MaxFrames]
  <2>1. Call(<<f>>) /\ Others
    BY <1>9 DEF Consume, othersAtRecv
  <2>2. f \in Frames /\ ~InLoop(f)
    BY ConstantsAssumption DEF Frames, RecvFrame, InLoop
  <2>. HIDE DEF f
  <2>3. <<f>> \in Seq(Frames) /\ \A i \in 1..Len(<<f>>) : ~InLoop(<<f>>[i])
    BY <2>2
  <2>. QED
    BY ZenonT(30), <2>1, <2>3, NotesPush, NoteStack
<1>10. ASSUME NEW s \in Streams,
              \/ \E end \in BOOLEAN : RecvHeaders(s, end) \/ RecvData(s, end)
              \/ RecvWindow(s) \/ RecvReset(s)
       PROVE  NoteInv'
  <2>1. PICK fs \in {<<>>, <<Callback>>, <<[at |-> "frameEnd", s |-> s], Callback>>} : Recv(fs)
    BY ZenonT(30), <1>10, ReceivedFrames
  <2>2. Others
    BY <1>10 DEF RecvHeaders, RecvData, RecvWindow, RecvReset, othersAtRecv
  <2>. QED
    BY ZenonT(30), <2>1, <2>2, PushedFrames, NotesPush, NoteStack
<1>. QED
  BY ZenonT(30), <1>1, <1>2, <1>3, <1>4, <1>5, <1>6, <1>7, <1>8, <1>9, <1>10
     DEF Next, FlushOut, OwnerCalls, Peer

-----------------------------------------------------------------------------
(* The theorems *)

SessionInv == NestInv /\ AliveInv /\ SettleInv /\ NoteInv

(* A new session.                                                            *)
LEMMA InitInv == ASSUME Init PROVE SessionInv
<1>1. NestInv
  <2>1. stack = <<Flush>> /\ flush_depth = 0 /\ consumed_notifications = <<>>
    BY DEF Init
  <2>2. Flush \in Frames /\ Flush.at = "send"
    BY FlushFrames DEF Flush
  <2>3. stack \in Seq(Frames) /\ Len(stack) = 1 /\ stack[1] = Flush
    BY <2>1, <2>2
  <2>4. consumed_notifications \in Seq(Bodies) /\ flush_depth \in 0..1
    BY SMTT(30), <2>1, EmptySeq
  <2>. QED
    BY <2>2, <2>3, <2>4 DEF NestInv, InLoop
<1>2. AliveInv
  <2>. DEFINE f == Frame("settings", None, NoItem, FALSE)
  <2>1. f \in QueueFrames /\ f.f = "settings" /\ f.item = NoItem
    BY NoItemType DEF Frame, QueueFrames
  <2>2. queue = <<f>>
    BY DEF Init
  <2>. HIDE DEF f
  <2>3. queue \in Seq(QueueFrames) /\ Len(queue) = 1 /\ queue[1] = f
    BY <2>1, <2>2
  <2>4. /\ item \in [Streams -> Items] /\ pending_bodies \in [Streams -> SUBSET Bodies]
        /\ shut \in [Streams -> SUBSET {"read", "write"}]
        /\ state \in [Streams -> {"idle", "open", "closed"}]
        /\ on_consumed \subseteq Bodies
        /\ \A s \in Streams : item[s] = NoItem /\ shut[s] = {} /\ state[s] = "idle"
    BY NoItemType DEF Init
  <2>. QED
    BY <2>1, <2>3, <2>4 DEF AliveInv, Kept
<1>3. SettleInv
  <2>1. stack = <<Flush>> /\ flush_depth = 0 /\ Flush.at = "send"
    BY DEF Init, Flush
  <2>2. Len(stack) = 1 /\ stack[1].at = "send"
    BY ZenonT(30), <2>1
  <2>. QED
    BY <2>1, <2>2 DEF SettleInv, Sending
<1>4. NoteInv
  <2>1. stack = <<Flush>> /\ Flush.at = "send"
    BY DEF Init, Flush
  <2>2. Len(stack) = 1 /\ stack[1].at = "send"
    BY <2>1
  <2>3. /\ read = [b \in Bodies |-> 0] /\ on_consumed = {} /\ handed = {}
        /\ fired = <<>> /\ consumed_notifications = <<>>
    BY DEF Init
  <2>4. /\ read \in [Bodies -> Nat] /\ \A b \in Bodies : read[b] <= Size[b]
    BY <2>3, ConstantsAssumption
  <2>. HIDE DEF Unique, In, Read
  <2>. QED
    BY <2>2, <2>3, <2>4, InEmpty, EmptySeq DEF NoteInv
<1>. QED
  BY <1>1, <1>2, <1>3, <1>4 DEF SessionInv

(* The four parts of the invariant, together.                                *)
LEMMA NextInv == SessionInv /\ [Next]_vars => SessionInv'
<1>1. NestInv => stack \in Seq(Frames)
  BY ZenonT(30) DEF NestInv
<1>2. AliveInv => on_consumed \subseteq Bodies
  BY DEF AliveInv
<1>. QED
  BY <1>1, <1>2, NextNest, NextAlive, NextSettle, NextNote DEF SessionInv

(* They hold in every reachable state.                                       *)
LEMMA SessionInvariant == Spec => []SessionInv
  BY InitInv, NextInv, PTL DEF Spec

(* Every body nghttp2 may still read is alive: pending_bodies_ keeps it over *)
(* flushes that flow control cuts short, and until its stream closes.        *)
THEOREM BodyAliveCorrect == Spec => []BodyAlive
<1>1. AliveInv => BodyAlive
  <2>. SUFFICES ASSUME AliveInv PROVE BodyAlive
    BY ZenonT(30)
  <2>1. DOMAIN queue = 1..Len(queue)
    BY ZenonT(30), LenProperties DEF AliveInv
  <2>. QED
    BY <2>1 DEF AliveInv, BodyAlive, Kept
<1>. QED
  BY <1>1, SessionInvariant, PTL DEF SessionInv

(* However sends, callbacks and notifications nest, no notification runs     *)
(* inside another one: flush_depth_ keeps FlushOut's loop to one activation. *)
THEOREM NotesDoNotNestCorrect == Spec => []NotesDoNotNest
<1>1. ASSUME NestInv PROVE NotesDoNotNest
  <2>1. DOMAIN stack = 1..Len(stack) /\ Len(stack) \in Nat
    BY <1>1, LenProperties DEF NestInv
  <2>2. \A i, j \in 1..Len(stack) : stack[i].at = "note" /\ stack[j].at = "note" => i = j
    <3>. TAKE i, j \in 1..Len(stack)
    <3>. HAVE stack[i].at = "note" /\ stack[j].at = "note"
    <3>1. i > 1 /\ j > 1 /\ InLoop(stack[i - 1]) /\ InLoop(stack[j - 1])
      BY ZenonT(30), <1>1 DEF NestInv
    <3>2. i - 1 \in 1..Len(stack) /\ j - 1 \in 1..Len(stack)
      BY SMTT(30), <2>1, <3>1
    <3>3. i - 1 = j - 1
      BY Zenon, <1>1, <3>1, <3>2 DEF NestInv
    <3>. QED
      BY SMTT(30), <2>1, <3>3
  <2>. QED
    BY ZenonT(30), <2>1, <2>2 DEF NotesDoNotNest
<1>. QED
  BY <1>1, SessionInvariant, PTL DEF SessionInv

(* An on_consumed runs at most once, and only when nghttp2 has read all of   *)
(* its body, wherever FlushOut's rounds, nested flushes and flow control     *)
(* leave it waiting.                                                         *)
THEOREM ConsumedOnceCorrect == Spec => []ConsumedOnce
<1>1. ASSUME NoteInv PROVE ConsumedOnce
  <2>1. /\ fired \in Seq(Bodies) /\ Unique(fired)
        /\ \A b \in Bodies : In(b, fired) => read[b] = Size[b]
    BY <1>1 DEF NoteInv, Read
  <2>2. \A i \in DOMAIN fired : fired[i] \in Bodies
    BY <2>1, LenProperties, ElementOfSeq
  <2>. QED
    BY ZenonT(30), <2>1, <2>2 DEF ConsumedOnce, Unique, In
<1>. QED
  BY <1>1, SessionInvariant, PTL DEF SessionInv

(* When the last call returns nothing is left in nghttp2, in out or in the   *)
(* deque that FlushOut could have sent or run.                               *)
THEOREM SettledCorrect == Spec => []Settled
<1>1. ASSUME SettleInv PROVE Settled
  <2>. SUFFICES ASSUME stack = <<>> PROVE Sent /\ ~out /\ consumed_notifications = <<>>
    BY DEF Settled
  <2>1. Len(stack) = 0 /\ ~At({"write"})
    BY EmptySeq DEF At
  <2>. QED
    BY <1>1, <2>1 DEF SettleInv
<1>. QED
  BY <1>1, SessionInvariant, PTL DEF SessionInv
=============================================================================
