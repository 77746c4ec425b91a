-------------------------- MODULE MCServerLifecycle --------------------------
(***************************************************************************)
(* Instances of the server's lifecycle for TLC, and what comments and      *)
(* documents say of the shutdown and the code does not do: TLC refutes     *)
(* each such statement, with a configuration of its own.                   *)
(***************************************************************************)
EXTENDS ServerLifecycle

\* The shutdown task has run.
Draining == shutdown_requested /\ "shutdown" \notin {tasks[k] : k \in DOMAIN tasks}

(* server.h, Shutdown: "stop accepting, wait in-flight up to grace".  While  *)
(* calls are in flight the listener stays open and connections are accepted. *)
DrainingStopsAccepting == [][Draining => seen' = seen]_serverVars

(* urpc_server.cc, Shutdown: "drain completes when the last conn goes idle   *)
(* or the grace timer fires".  A connection that has gone idle stays open,   *)
(* and the drain waits for its client or for the timer.                      *)
DrainsWhenIdle == Draining /\ Busy = {} => listener # "open"

(* server.h, Shutdown: "wait in-flight up to grace, force-cancel the rest",  *)
(* so that it returns within the grace period.  The shutdown task locks      *)
(* Impl::mu twice when the bind had failed, and when the last connection was *)
(* lost between the call of Shutdown and the task: OnConnIdle has closed the *)
(* listener then.                                                            *)
ShutdownAlwaysReturns ==
    \A u \in Users :
        shutdown_requested /\ user[u] = "waiting" ~> user[u] = "returned"

(* The same from the moment the grace timer has fired: a handler that ends   *)
(* its call when it is cancelled stops the loop.                             *)
GraceEndsDrain ==
    \A u \in Users : grace = "fired" /\ user[u] = "waiting" ~> user[u] = "returned"
==============================================================================
