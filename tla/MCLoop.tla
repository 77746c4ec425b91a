------------------------------- MODULE MCLoop -------------------------------
(***************************************************************************)
(* Instances of the loop for TLC, and what comments say of the loop and    *)
(* the code does not do.  TLC refutes each of them, with a configuration   *)
(* of its own.  (Loop!PostedRuns is one more, for a loop that is stopped   *)
(* and started again.)                                                     *)
(***************************************************************************)
EXTENDS Loop

(* loop.h, Stop: "waits for all pending tasks to drain".  Stop clears        *)
(* pending_ and the loop thread does not look at it again.                   *)
StopDrains ==
    [][stop = "woken" /\ stop' = "done" =>
          \A t \in Tasks : post[t] = "sent" => In(t, ran)]_vars

(* urpc_loop.cpp, RunLoop: "wake_ holds the loop alive until the quit task   *)
(* closes every handle".  A loop that is busy when running_ is cleared exits *)
(* before it gets to the quit task.                                          *)
ExitClosesHandles == loop = "exited" => ~open

(* loop.h, Post: "run fn on the loop thread as soon as possible".  A task    *)
(* posted before Start wakes nobody, and waits for a later Post.             *)
QueuedRuns == \A t \in Tasks : In(t, pending) /\ running ~> In(t, ran) \/ ~running
=============================================================================
