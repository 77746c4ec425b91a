-------------------------- MODULE UnaryCallClaims --------------------------
(***************************************************************************)
(* What documents and comments say of unary calls and the code does not    *)
(* do.  TLC refutes each of them.                                          *)
(***************************************************************************)
EXTENDS UnaryCall

(* server-api.md: a late done returns an error and does not crash.           *)
(* RegisterUnaryRaw keeps a reference to the core context, which is deleted  *)
(* when the client's reset closes the stream; and a handler that throws      *)
(* after its done makes the wrapper call done again, which frees the arena   *)
(* of the request twice.                                                     *)
DoneNeverCrashes == crashed # "done"

(* client.h, Close: "Subsequent typed calls ... fail immediately with        *)
(* UNAVAILABLE", "May be called from any thread".  A call that has passed    *)
(* its test of closed() goes through the pointer that Close resets, and a    *)
(* callback that closes its channel returns into the deleted core.           *)
CloseIsSafe == crashed \notin {"closed", "core"}

(* data-model.md: a registration that is refused has no side effect.         *)
(* RegisterService keeps what it registered before the path that was taken.  *)
RefusedHasNoEffect == \A r \in Registrants : refused[r] => \A m \in Methods : snapshot[m] # r

(* data-model.md: when the channel is closed, each call in flight fails and  *)
(* is told once.  Close stops the loop, and the calls are never told.        *)
CloseTellsCalls ==
    \A c \in Calls : closed /\ pc[c] = "sent" ~> pc[c] = "returned" \/ crashed # "no"

(* raw.h: ChannelOnLoopThread is "True when the caller is on a urpc          *)
(* event-loop thread (sync calls must fast-fail there)".  It looks at the    *)
(* channel's own loop only: a handler that calls its server synchronously    *)
(* waits for the thread it is on.                                            *)
SyncAlwaysReturns ==
    (\E c \in Calls : IsSync(c) /\ pc[c] = "posted") ~>
        (\A c \in Calls : ~IsSync(c)) \/ closed \/ crashed # "no"
=============================================================================
