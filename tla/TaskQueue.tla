----------------------------- MODULE TaskQueue -----------------------------
(***************************************************************************)
(* What a uRPC loop promises the threads that post to it (loop.h), whatever *)
(* they do and whenever the loop is started or stopped: jobs run one at a  *)
(* time, first in, first out, each at most once per submission.  Stop may  *)
(* discard the newest of the waiting jobs; it puts one job of its own in   *)
(* their place.                                                            *)
(***************************************************************************)
EXTENDS Naturals, Sequences

CONSTANT Jobs       \* the jobs that may be submitted

VARIABLES queue,    \* jobs waiting, the oldest first
          ran       \* jobs run so far

vars == <<queue, ran>>

Init == queue = <<>> /\ ran = <<>>

Submit(j) ==
    /\ queue' = Append(queue, j)
    /\ UNCHANGED ran

Run ==
    /\ queue # <<>>
    /\ ran' = Append(ran, Head(queue))
    /\ queue' = Tail(queue)

Replace(n, j) ==
    /\ n <= Len(queue)
    /\ queue' = Append(SubSeq(queue, 1, n), j)
    /\ UNCHANGED ran

Next ==
    \/ \E j \in Jobs : Submit(j) \/ \E n \in 0..Len(queue) : Replace(n, j)
    \/ Run

Spec == Init /\ [][Next]_vars
=============================================================================
