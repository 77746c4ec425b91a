-------------------------------- MODULE Loop --------------------------------
(***************************************************************************)
(* LoopRunner (urpc_loop.cpp): a thread that runs a libuv loop, and the    *)
(* threads that post tasks to it, start it and stop it.                    *)
(*                                                                         *)
(* A step is one critical section of mu_, one access to an atomic flag,    *)
(* one libuv call or one task; the threads interleave between steps.       *)
(* Each task is posted once, by a thread of its own: a task that posts     *)
(* another one behaves like such a thread while the loop is busy.          *)
(* Timers are set and cancelled by code on the loop thread, as loop.h asks. *)
(***************************************************************************)
EXTENDS Integers, Sequences

CONSTANTS
    Tasks,        \* tasks to post
    Quit,         \* the task Stop posts: CloseAllHandlesOnLoop
    Timers,       \* timers to set, each once: next_timer_id_ only grows
    MaxStarts,    \* bound: calls of Start that succeed
    MayStop       \* is Stop called?

ASSUME ConstantsAssumption ==
    /\ Quit \notin Tasks
    /\ MaxStarts \in Nat
    /\ MayStop \in BOOLEAN

VARIABLES
    running,   \* running_
    pending,   \* pending_, guarded by mu_
    wake,      \* libuv's mark: uv_async_send since the last callback
    loop,      \* the loop thread: where it is
    batch,     \* DrainPending's local deque
    open,      \* the libuv handles (wake_, timers, sockets) are open
    timers,    \* per timer: its TimerCtx; timers_ holds the armed ones
    post,      \* per task: how far its Post has come
    stop,      \* how far Stop has come
    inLoop,    \* Stop runs on the loop thread
    starts,    \* number of Starts
    ran,       \* history: tasks run
    ended      \* history: per timer, how it was taken out of timers_

timerVars == <<timers, ended>>
vars == <<running, pending, wake, loop, batch, open, post, stop, inLoop, starts,
          ran, timerVars>>

Queue == Seq(Tasks \cup {Quit})

\* The types of the state.
TypeOK ==
    /\ running \in BOOLEAN /\ wake \in BOOLEAN /\ open \in BOOLEAN
    /\ inLoop \in BOOLEAN
    /\ pending \in Queue /\ batch \in Queue
    /\ ran \in Queue
    /\ loop \in {"off", "top", "poll", "events", "drain", "run", "exited"}
    /\ timers \in [Timers -> {"unset", "refused", "armed", "left", "closing", "freed"}]
    /\ ended \in [Timers -> Seq({"fired", "cancelled", "quit"})]
    /\ post \in [Tasks -> {"idle", "pushed", "checked", "sent", "skipped"}]
    /\ stop \in {"idle", "flagged", "queued", "woken", "done"}
    /\ starts \in 0..MaxStarts

Init ==
    /\ running = FALSE /\ wake = FALSE /\ open = FALSE /\ inLoop = FALSE
    /\ pending = <<>> /\ batch = <<>> /\ ran = <<>>
    /\ timers = [i \in Timers |-> "unset"] /\ ended = [i \in Timers |-> <<>>]
    /\ loop = "off" /\ stop = "idle" /\ starts = 0
    /\ post = [t \in Tasks |-> "idle"]

-----------------------------------------------------------------------------
(* Post, from any thread *)

othersAtPost == <<running, loop, batch, open, stop, inLoop, starts, ran, timerVars>>

\* Bug variant of PostPush: woken first, queued after.
PostPushLate(t) ==
    /\ post[t] = "idle"
    /\ post' = [post EXCEPT ![t] = "sent"]
    /\ pending' = Append(pending, t)
    /\ UNCHANGED <<othersAtPost, wake>>

PostPush(t) ==
    /\ post[t] = "idle"
    /\ post' = [post EXCEPT ![t] = "pushed"]
    /\ pending' = Append(pending, t)
    /\ UNCHANGED <<othersAtPost, wake>>

PostCheck(t) ==
    /\ post[t] = "pushed"
    /\ post' = [post EXCEPT ![t] = IF running THEN "checked" ELSE "skipped"]
    /\ UNCHANGED <<othersAtPost, pending, wake>>

\* uv_async_send does nothing once the handle is closed.
AsyncSend == wake' = (wake \/ open)

PostSend(t) ==
    /\ post[t] = "checked"
    /\ post' = [post EXCEPT ![t] = "sent"]
    /\ AsyncSend
    /\ UNCHANGED <<othersAtPost, pending>>

-----------------------------------------------------------------------------
\* The owner does not call Start while a Stop, or a thread that a Stop has
\* given up on, is still under way.  A timer of the loop before stays in
\* timers_, and never fires.
Start ==
    /\ ~running /\ stop \in {"idle", "done"} /\ loop = "off" /\ starts < MaxStarts
    /\ open' = TRUE /\ wake' = FALSE
    /\ running' = TRUE /\ loop' = "top" /\ stop' = "idle"
    /\ starts' = starts + 1
    /\ timers' = [i \in Timers |-> IF timers[i] = "armed" THEN "left" ELSE timers[i]]
    /\ UNCHANGED <<pending, batch, post, inLoop, ran, ended>>

-----------------------------------------------------------------------------
(* The loop thread.  While one of its tasks runs Stop it does nothing else. *)

LoopFree == ~(inLoop /\ stop \in {"flagged", "queued", "woken"})

othersAtLoop == <<running, post, stop, inLoop, starts>>

\* RunLoop's test of running_.
Top ==
    /\ loop = "top"
    /\ loop' = IF running THEN "poll" ELSE "exited"
    /\ UNCHANGED <<othersAtLoop, pending, wake, batch, open, ran, timerVars>>

\* uv_run waits in "poll"; in "events" it has had an event and looks for more.
InUvRun == loop \in {"poll", "events"}

\* uv_run calls OnWakeTramp, after libuv has cleared its mark.
OnWake ==
    /\ InUvRun /\ wake
    /\ wake' = FALSE /\ loop' = "drain"
    /\ UNCHANGED <<othersAtLoop, pending, batch, open, ran, timerVars>>

\* Another event, of a socket: code of the loop's users runs.
OtherEvent ==
    /\ InUvRun /\ ~wake
    /\ loop' = "run"
    /\ UNCHANGED <<othersAtLoop, pending, wake, batch, open, ran, timerVars>>

DrainPending ==
    /\ loop = "drain"
    /\ batch' = pending /\ pending' = <<>>
    /\ loop' = "run"
    /\ UNCHANGED <<othersAtLoop, wake, open, ran, timerVars>>

\* Timers in timers_ are stopped, closed and taken out of it: why ends them.
InMap(i) == timers[i] \in {"armed", "left"}

CloseTimers(S, why) ==
    /\ timers' = [i \in Timers |-> IF i \in S THEN "closing" ELSE timers[i]]
    /\ ended' = [i \in Timers |-> IF i \in S THEN Append(ended[i], why) ELSE ended[i]]

\* The quit task.
CloseAllHandlesOnLoop ==
    /\ CloseTimers({i \in Timers : InMap(i)}, "quit")
    /\ open' = FALSE

\* Bug variant of RunTask: the newest task first.
RunTaskNewest ==
    /\ loop = "run" /\ LoopFree /\ batch # <<>>
    /\ LET t == batch[Len(batch)]
       IN  /\ batch' = SubSeq(batch, 1, Len(batch) - 1)
           /\ ran' = Append(ran, t)
           /\ IF t = Quit THEN CloseAllHandlesOnLoop ELSE UNCHANGED <<open, timerVars>>
    /\ UNCHANGED <<othersAtLoop, pending, wake, loop>>

RunTask ==
    /\ loop = "run" /\ LoopFree /\ batch # <<>>
    /\ batch' = Tail(batch)
    /\ ran' = Append(ran, Head(batch))
    /\ IF Head(batch) = Quit THEN CloseAllHandlesOnLoop ELSE UNCHANGED <<open, timerVars>>
    /\ UNCHANGED <<othersAtLoop, pending, wake, loop>>

EndOfBatch ==
    /\ loop = "run" /\ LoopFree /\ batch = <<>>
    /\ loop' = "events"
    /\ UNCHANGED <<othersAtLoop, pending, wake, batch, open, ran, timerVars>>

\* uv_run ends its turn with the close callbacks; OnTimerClosedTramp deletes
\* the TimerCtx.
UvReturn ==
    /\ loop = "events"
    /\ loop' = "top"
    /\ timers' = [i \in Timers |-> IF timers[i] = "closing" THEN "freed" ELSE timers[i]]
    /\ UNCHANGED <<othersAtLoop, pending, wake, batch, open, ran, ended>>

LoopThread == Top \/ OnWake \/ DrainPending \/ RunTask \/ EndOfBatch \/ UvReturn

-----------------------------------------------------------------------------
(* Timers: SetTimer and CancelTimer are calls of the code that is running *)

othersAtTimer == <<othersAtLoop, pending, wake, batch, open, ran>>

SetTimer(i) ==
    /\ loop = "run" /\ LoopFree /\ timers[i] = "unset"
    /\ timers' = [timers EXCEPT ![i] = IF running THEN "armed" ELSE "refused"]
    /\ UNCHANGED <<othersAtTimer, loop, ended>>

\* A timer that is not in timers_ is left alone.
CancelTimer(i) ==
    /\ loop = "run" /\ LoopFree /\ InMap(i)
    /\ CloseTimers({i}, "cancelled")
    /\ UNCHANGED <<othersAtTimer, loop>>

\* Bug variant of OnTimer: the task runs before the timer is cancelled.
OnTimerLate(i) ==
    /\ InUvRun /\ timers[i] = "armed"
    /\ ended' = [ended EXCEPT ![i] = Append(@, "fired")]
    /\ loop' = "run"
    /\ UNCHANGED <<othersAtTimer, timers>>

\* OnTimerTramp cancels the timer, and its task runs.
OnTimer(i) ==
    /\ InUvRun /\ timers[i] = "armed"
    /\ CloseTimers({i}, "fired")
    /\ loop' = "run"
    /\ UNCHANGED othersAtTimer

-----------------------------------------------------------------------------
(* Stop, from any thread or from a task *)

othersAtStop == <<batch, open, post, starts, ran, timerVars>>

StopFlag(onLoop) ==
    /\ MayStop /\ running
    /\ onLoop => loop = "run"
    /\ running' = FALSE /\ stop' = "flagged" /\ inLoop' = onLoop
    /\ UNCHANGED <<othersAtStop, pending, wake, loop>>

StopQueue ==
    /\ stop = "flagged"
    /\ pending' = <<Quit>> /\ stop' = "queued"
    /\ UNCHANGED <<othersAtStop, running, wake, loop, inLoop>>

StopWake ==
    /\ stop = "queued"
    /\ AsyncSend
    /\ stop' = "woken"
    /\ UNCHANGED <<othersAtStop, running, pending, loop, inLoop>>

\* loop_exited_ is seen within the ten seconds of the wait.
StopJoin ==
    /\ stop = "woken" /\ loop = "exited"
    /\ stop' = "done" /\ loop' = "off"
    /\ UNCHANGED <<othersAtStop, running, pending, wake, inLoop>>

\* Bug variant of StopDetach: a wait without bound.
StopDetachNever ==
    /\ stop = "woken" /\ loop = "off"
    /\ stop' = "done"
    /\ UNCHANGED <<othersAtStop, running, pending, wake, loop, inLoop>>

\* It is not: a starved loop, or Stop on the loop thread itself.
StopDetach ==
    /\ stop = "woken" /\ loop # "exited"
    /\ stop' = "done"
    /\ UNCHANGED <<othersAtStop, running, pending, wake, loop, inLoop>>

Stopper == StopQueue \/ StopWake \/ StopJoin \/ StopDetach

-----------------------------------------------------------------------------
Next ==
    \/ \E t \in Tasks : PostPush(t) \/ PostCheck(t) \/ PostSend(t)
    \/ Start \/ LoopThread \/ OtherEvent
    \/ \E i \in Timers : SetTimer(i) \/ CancelTimer(i) \/ OnTimer(i)
    \/ Stopper \/ \E onLoop \in BOOLEAN : StopFlag(onLoop)

Spec == Init /\ [][Next]_vars

(* Threads that can run do run.  Nobody has to post, start or stop, and no   *)
(* other event has to happen.                                                *)
FairSpec ==
    /\ Spec
    /\ WF_vars(LoopThread) /\ WF_vars(Stopper)
    /\ \A t \in Tasks : WF_vars(PostCheck(t) \/ PostSend(t))

-----------------------------------------------------------------------------
(* Properties *)

In(t, q) == \E k \in DOMAIN q : q[k] = t

(* No lost wakeup (Post queues, then sends; DrainPending runs after libuv    *)
(* cleared the mark): a task whose Post has sent its wake and that is still  *)
(* queued will be picked up, the mark is set or the loop is about to look.   *)
NoLostWakeup ==
    \A t \in Tasks : post[t] = "sent" /\ In(t, pending) => wake \/ loop = "drain"

(* The loop is a first-in, first-out executor of the jobs posted to it: the  *)
(* steps of Post, DrainPending, RunTask and Stop, in any interleaving, are   *)
(* steps of TaskQueue, whose queue is DrainPending's deque and pending_.     *)
Executor == INSTANCE TaskQueue WITH
                Jobs <- Tasks \cup {Quit}, queue <- batch \o pending, ran <- ran
RunsInOrder == Executor!Spec

(* A timer leaves timers_ once, in one of three ways: it fires, it is        *)
(* cancelled, or the quit task closes it.  So one that was cancelled never   *)
(* fires, and uv_close is never called twice on its handle, whatever its     *)
(* task, other code on the loop and Stop do.                                 *)
TimerEndsOnce == \A i \in Timers : Len(ended[i]) = IF timers[i] \in {"closing", "freed"}
                                                   THEN 1 ELSE 0

(* loop.h, Post, "run fn on the loop thread as soon as possible": a task     *)
(* whose Post found the loop running is run, unless the loop is stopped.     *)
PostedRuns ==
    \A t \in Tasks : post[t] = "sent" /\ In(t, pending) ~> In(t, ran) \/ ~running

(* loop.h, "a starved loop thread cannot hang the caller": Stop returns,     *)
(* also when a task of the loop calls it.                                    *)
StopReturns == stop = "flagged" ~> stop = "done"
=============================================================================
