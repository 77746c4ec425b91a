--------------------------- MODULE ServerLifecycle ---------------------------
(***************************************************************************)
(* Start, connections and graceful shutdown of the server (Server,         *)
(* Server::Impl, ConnHook in urpc_server.cc; TcpListener).                 *)
(*                                                                         *)
(* User threads call Start, Shutdown and Wait and block on the condition   *)
(* variable; everything else runs on the loop thread, one event per step.  *)
(* Impl::mu is held for parts of single steps, so it shows only where the  *)
(* loop thread locks it twice: std::mutex is not recursive, and the loop   *)
(* is then stuck for good.  A connection is abstracted to the number of    *)
(* calls in its map (ServerCall has the calls).                            *)
(***************************************************************************)
EXTENDS Integers, Sequences, FiniteSets

CONSTANTS
    Users,          \* user threads; each calls Shutdown or Wait once
    Conns,          \* connections the clients make
    MaxCalls,       \* bound: calls in flight on a connection
    BindFails,      \* may the listener fail to bind?
    AnswersCancel   \* may a handler end its call in the cancel callback?

ASSUME ServerAssumption ==
    /\ MaxCalls \in Nat
    /\ BindFails \in BOOLEAN /\ AnswersCancel \in BOOLEAN

VARIABLES
    start,       \* Server::Start: "no", "posted", "done" (start_done)
    tasks,       \* posted to the loop
    listener,    \* the listening socket
    listening,   \* Impl::listening
    conns,       \* Impl::conns
    seen,        \* connections ever accepted
    calls,       \* per connection: size of Conn::calls
    told,        \* connections whose calls had their cancel callbacks run
    grace,       \* the grace timer
    shutdown_requested, drained,
    user,        \* per user thread
    stuck        \* the loop thread waits for a mutex it holds

serverVars == <<start, tasks, listener, listening, conns, seen, calls, told, grace,
                shutdown_requested, drained, user, stuck>>

\* The types of the state.
ServerTypeOK ==
    /\ start \in {"no", "posted", "done"}
    /\ tasks \in Seq({"start", "shutdown"})
    /\ listener \in {"none", "open", "closing", "closed"}
    /\ listening \in BOOLEAN /\ shutdown_requested \in BOOLEAN
    /\ drained \in BOOLEAN /\ stuck \in BOOLEAN
    /\ conns \subseteq seen /\ seen \subseteq Conns /\ told \subseteq Conns
    /\ calls \in [Conns -> 0..MaxCalls]
    /\ grace \in {"off", "armed", "fired"}
    /\ user \in [Users -> {"idle", "waiting", "returned"}]

ServerInit ==
    /\ start = "no" /\ tasks = <<>> /\ listener = "none" /\ listening = FALSE
    /\ conns = {} /\ seen = {} /\ told = {}
    /\ calls = [k \in Conns |-> 0]
    /\ grace = "off" /\ shutdown_requested = FALSE /\ drained = FALSE
    /\ user = [u \in Users |-> "idle"] /\ stuck = FALSE

-----------------------------------------------------------------------------
(* User threads *)

connVars == <<conns, seen, calls, told>>

StartServer ==
    /\ start = "no"
    /\ start' = "posted" /\ tasks' = Append(tasks, "start")
    /\ UNCHANGED <<listener, listening, connVars, grace, shutdown_requested,
                   drained, user, stuck>>

\* Before start_done Shutdown returns at once; a second Shutdown only waits.
Shutdown(u) ==
    /\ user[u] = "idle"
    /\ user' = [user EXCEPT ![u] = IF start = "done" THEN "waiting" ELSE "returned"]
    /\ shutdown_requested' = (shutdown_requested \/ start = "done")
    /\ tasks' = IF start = "done" /\ ~shutdown_requested
                THEN Append(tasks, "shutdown") ELSE tasks
    /\ UNCHANGED <<start, listener, listening, connVars, grace, drained, stuck>>

Wait(u) ==
    /\ user[u] = "idle"
    /\ user' = [user EXCEPT ![u] = "waiting"]
    /\ UNCHANGED <<start, tasks, listener, listening, connVars, grace,
                   shutdown_requested, drained, stuck>>

Return(u) ==
    /\ user[u] = "waiting" /\ drained
    /\ user' = [user EXCEPT ![u] = "returned"]
    /\ UNCHANGED <<start, tasks, listener, listening, connVars, grace,
                   shutdown_requested, drained, stuck>>

-----------------------------------------------------------------------------
(* Posted tasks *)

IsNext(t) == ~stuck /\ tasks # <<>> /\ Head(tasks) = t /\ tasks' = Tail(tasks)

RunStart(ok) ==
    /\ IsNext("start")
    /\ ok \/ BindFails
    /\ start' = "done" /\ listening' = ok
    /\ listener' = IF ok THEN "open" ELSE "none"
    /\ UNCHANGED <<connVars, grace, shutdown_requested, drained, user, stuck>>

\* The listener is closed; drained is set by its close callback.
CloseListener == listening' = FALSE /\ listener' = "closing"

\* Bug variant of RunShutdown: closes the busy connections too.
RunShutdownAll ==
    /\ IsNext("shutdown")
    /\ conns' = {} /\ listening /\ CloseListener
    /\ UNCHANGED <<start, seen, calls, told, shutdown_requested, drained, user,
                   grace, stuck>>

(* Idle connections are closed.  With calls in flight the grace timer is     *)
(* set; else the listener is closed.  If there is none, finish() locks       *)
(* Impl::mu while this task holds it.                                        *)
RunShutdown ==
    /\ IsNext("shutdown")
    /\ conns' = {k \in conns : calls[k] > 0}
    /\ UNCHANGED <<start, seen, calls, told, shutdown_requested, drained, user>>
    /\ \/ /\ conns' # {}
          /\ grace' = "armed" /\ UNCHANGED <<listening, listener, stuck>>
       \/ /\ conns' = {} /\ listening
          /\ CloseListener /\ UNCHANGED <<grace, stuck>>
       \/ /\ conns' = {} /\ ~listening
          /\ stuck' = TRUE /\ UNCHANGED <<grace, listening, listener>>

-----------------------------------------------------------------------------
(* The loop's events *)

\* Bug variant of ListenerClosed: nobody is notified.
ListenerClosedSilent ==
    /\ ~stuck /\ listener = "closing"
    /\ listener' = "closed"
    /\ UNCHANGED <<start, tasks, listening, connVars, grace, shutdown_requested,
                   drained, user, stuck>>

ListenerClosed ==
    /\ ~stuck /\ listener = "closing"
    /\ listener' = "closed" /\ drained' = TRUE
    /\ UNCHANGED <<start, tasks, listening, connVars, grace, shutdown_requested,
                   user, stuck>>

\* The accept callback; it does not look at shutdown_requested.
Accept(k) ==
    /\ ~stuck /\ listener = "open" /\ k \notin seen
    /\ conns' = conns \cup {k} /\ seen' = seen \cup {k}
    /\ UNCHANGED <<start, tasks, listener, listening, calls, told, grace,
                   shutdown_requested, drained, user, stuck>>

\* Conn::OnHeadersComplete; it does not look at shutdown_requested either.
NewCall(k) ==
    /\ ~stuck /\ k \in conns /\ calls[k] < MaxCalls
    /\ calls' = [calls EXCEPT ![k] = @ + 1]
    /\ UNCHANGED <<start, tasks, listener, listening, conns, seen, told, grace,
                   shutdown_requested, drained, user, stuck>>

\* Closed connections have left; the last one to leave closes the listener.
OnConnIdle(left) ==
    /\ conns' = left
    /\ IF shutdown_requested /\ left = {} /\ ~drained /\ listening
       THEN CloseListener ELSE UNCHANGED <<listening, listener>>

\* Conn::OnStreamClose: the connection stays, whether or not calls are left.
EndCall(k) ==
    /\ ~stuck /\ k \in conns /\ calls[k] > 0
    /\ calls' = [calls EXCEPT ![k] = @ - 1]
    /\ OnConnIdle(conns)
    /\ UNCHANGED <<start, tasks, seen, told, grace, shutdown_requested, drained,
                   user, stuck>>

\* ConnHook::OnRead with an error: the calls are told and the connection goes.
ConnLost(k) ==
    /\ ~stuck /\ k \in conns
    /\ told' = told \cup {k}
    /\ OnConnIdle(conns \ {k})
    /\ UNCHANGED <<start, tasks, seen, calls, grace, shutdown_requested, drained,
                   user, stuck>>

Busy == {k \in conns : calls[k] > 0}

\* Bug variant of FinishShutdown: the calls are not told.
FinishShutdownSilent ==
    /\ ~stuck /\ grace = "armed" /\ listener # "closing"
    /\ grace' = "fired"
    /\ conns' = {} /\ UNCHANGED <<told, stuck>>
    /\ IF listening THEN CloseListener /\ UNCHANGED drained
       ELSE drained' = TRUE /\ UNCHANGED <<listening, listener>>
    /\ UNCHANGED <<start, tasks, seen, calls, shutdown_requested, user>>

\* Bug variant of FinishShutdown: does not wait for the listener's callback.
FinishShutdownEarly ==
    /\ ~stuck /\ grace = "armed" /\ ~drained
    /\ grace' = "fired" /\ drained' = TRUE
    /\ conns' = {} /\ told' = told \cup conns
    /\ CloseListener
    /\ UNCHANGED <<start, tasks, seen, calls, shutdown_requested, user, stuck>>

(* The grace timer fires; never between uv_close of the listener and its     *)
(* callback, which libuv runs before the next timer.  The cancel callbacks   *)
(* run with Impl::mu held: one that ends its call closes the stream, and     *)
(* OnStreamClose goes on to OnConnIdle, which locks Impl::mu.                *)
FinishShutdown ==
    /\ ~stuck /\ grace = "armed" /\ listener # "closing"
    /\ grace' = "fired"
    /\ \/ /\ drained
          /\ UNCHANGED <<conns, told, listening, listener, drained, stuck>>
       \/ /\ ~drained /\ AnswersCancel /\ Busy # {}
          /\ stuck' = TRUE
          /\ UNCHANGED <<conns, told, listening, listener, drained>>
       \/ /\ ~drained
          /\ conns' = {} /\ told' = told \cup conns /\ UNCHANGED stuck
          /\ IF listening THEN CloseListener /\ UNCHANGED drained
             ELSE drained' = TRUE /\ UNCHANGED <<listening, listener>>
    /\ UNCHANGED <<start, tasks, seen, calls, shutdown_requested, user>>

-----------------------------------------------------------------------------
LoopEvents == (\E ok \in BOOLEAN : RunStart(ok)) \/ RunShutdown \/ ListenerClosed
            \/ FinishShutdown

ServerNext ==
    \/ StartServer \/ \E u \in Users : Shutdown(u) \/ Wait(u) \/ Return(u)
    \/ LoopEvents
    \/ \E k \in Conns : Accept(k) \/ NewCall(k) \/ EndCall(k) \/ ConnLost(k)

ServerSpec == ServerInit /\ [][ServerNext]_serverVars

(* The loop runs posted tasks, due timers and close callbacks, and a woken   *)
(* thread returns.  Nothing is assumed of the clients or the handlers.       *)
ServerFairSpec ==
    /\ ServerSpec
    /\ WF_serverVars(\E ok \in BOOLEAN : RunStart(ok)) /\ WF_serverVars(RunShutdown)
    /\ WF_serverVars(ListenerClosed) /\ WF_serverVars(FinishShutdown)
    /\ \A u \in Users : WF_serverVars(Return(u))

-----------------------------------------------------------------------------
(* Properties *)

(* The comment on Shutdown, "drained is set only after the listener handle   *)
(* is FULLY closed": a thread that Shutdown or Wait releases may destroy the *)
(* server, so by then no connection is left, none can come, and the listener *)
(* is closed, by whichever of the three ways out the drain completed.        *)
DrainedMeansClosed == drained => conns = {} /\ listener = "closed"

(* FR-012 of spec 001: a connection is freed only when it has no calls, or   *)
(* after the cancel callbacks of its calls have run (RunShutdown, OnRead,    *)
(* FinishShutdown).                                                          *)
NoCallFreedSilently ==
    [][\A k \in conns \ conns' : calls[k] > 0 => k \in told']_serverVars

(* A call in flight is cut off only by its client or by the grace timer: the *)
(* shutdown task itself never takes a busy connection.                       *)
GraceProtectsCalls ==
    [][\A k \in Busy \ conns' : grace' = "fired" \/ told' = told \cup {k}]_serverVars

(* A Shutdown of a started server returns, whatever clients and handlers do, *)
(* and so does a Wait beside it, unless the loop thread stops on Impl::mu    *)
(* (MCServerLifecycle shows the three ways it can).                          *)
ShutdownReturns ==
    \A u \in Users :
        shutdown_requested /\ user[u] = "waiting" ~> user[u] = "returned" \/ stuck
=============================================================================
