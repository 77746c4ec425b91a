----------------------------- MODULE UnaryCall -----------------------------
(***************************************************************************)
(* Typed unary calls from end to end: the caller's threads and the         *)
(* wrapper of the channel (client.h, proxy.h, urpc_api_impl.cc), the core  *)
(* channel by its contract (CallPromise), the server's loop thread, the    *)
(* Router, and the typed handlers (unary.h, the generated RegisterService).*)
(*                                                                         *)
(* There are two loop threads.  The channel's runs the callbacks of calls; *)
(* the server's runs the handlers.  Code on either may call again, also    *)
(* synchronously, and any thread may close the channel.  A step is what a  *)
(* thread does between two accesses to state that others write.            *)
(*                                                                         *)
(* Messages are what the properties tell apart: a handler's answer, and    *)
(* the empty payload, which parses as a message with default values.       *)
(***************************************************************************)
EXTENDS Router

CONSTANTS
    Calls,      \* calls to make
    Method,     \* per call: its method
    Answers,    \* what handlers may answer: a message, none, an error
    Lambdas,    \* registrants that use RegisterUnaryFor, without the generated wrapper
    Fits        \* do responses fit in the peer's window?

ASSUME UnaryAssumption ==
    /\ Method \in [Calls -> Methods]
    /\ Answers \subseteq {"answer", "nothing", "error"}
    /\ Lambdas \subseteq Registrants
    /\ Fits \in BOOLEAN
    /\ None \notin Calls

VARIABLES
    closed,     \* Channel::Impl::closed
    closeBy,    \* the code that Close keeps
    core,       \* the channel's loop runs and Channel::Impl::channel is there
    callback,   \* the call whose callback the channel's loop thread runs
    pc,         \* per call: how far its caller has come
    keeps,      \* per call: the code it keeps from going on, and its form
    told,       \* per call: the Results its owner was given
    srv,        \* per call: the server's Call
    entry,      \* per call: the handler found for it
    handler,    \* per call: its handler
    reply,      \* per call: the response sent
    gave,       \* history, per call: the answer its handler gave first
    served,     \* history, per call: its method was published when it began
    crashed     \* why the process ended, or "no"

closeVars == <<closed, closeBy, core>>
callerVars == <<callback, pc, keeps, told, served>>
serverVars == <<srv, entry, handler, reply, gave>>
vars == <<routerVars, closeVars, callerVars, serverVars, crashed>>

\* Every status but OK and UNIMPLEMENTED is one failure.
Statuses == {"Ok", "Unimplemented", "Failed"}
Result(st, value) == [st |-> st, value |-> value]
Keeps == [form : {"sync", "async"}, by : {"thread", "handler", "callback"}]
Results == [st : Statuses, value : {"answer", "default", "null"}]
Replies == [st : Statuses, payload : {"answer", ""}]

\* The types of the state.
TypeOK ==
    /\ RouterTypeOK
    /\ closed \in BOOLEAN /\ core \in BOOLEAN
    /\ closeBy \in {None, "thread", "callback"}
    /\ callback \in Calls \cup {None}
    /\ pc \in [Calls -> {"idle", "begun", "encoded", "posted", "sent", "returned"}]
    /\ keeps \in [Calls -> Keeps \cup {None}]
    /\ told \in [Calls -> Seq(Results)]
    /\ srv \in [Calls -> {"none", "sent", "headers", "open", "answered", "closed"}]
    /\ entry \in [Calls -> Registrants \cup {None}]
    /\ handler \in [Calls -> {"none", "running", "left", "over"}]
    /\ reply \in [Calls -> Replies \cup {None}]
    /\ served \in [Calls -> BOOLEAN]
    /\ gave \in [Calls -> {"none", "answer", "nothing", "error"}]
    /\ crashed \in {"no", "closed", "core", "done", "exception"}

Init ==
    /\ RouterInit
    /\ closed = FALSE /\ closeBy = None
    /\ core = TRUE /\ callback = None
    /\ pc = [c \in Calls |-> "idle"] /\ keeps = [c \in Calls |-> None]
    /\ told = [c \in Calls |-> <<>>]
    /\ srv = [c \in Calls |-> "none"] /\ entry = [c \in Calls |-> None]
    /\ handler = [c \in Calls |-> "none"]
    /\ reply = [c \in Calls |-> None]
    /\ gave = [c \in Calls |-> "none"] /\ served = [c \in Calls |-> FALSE]
    /\ crashed = "no"

-----------------------------------------------------------------------------
(* The caller: ProxyCall, Call and CallAsync *)

Tell(c, r) == told' = [told EXCEPT ![c] = Append(@, r)]
Goto(c, at) == pc' = [pc EXCEPT ![c] = at]

\* A call keeps the thread that makes it: an async one until it is posted, a
\* sync one until its promise is kept.
Release(c) == keeps' = [keeps EXCEPT ![c] = None]
IsSync(c) == keeps[c] # None /\ keeps[c].form = "sync"
Busy(o) == \E c \in Calls : keeps[c] # None /\ keeps[c].by = o
\* Code of the handlers, or of the callbacks, is running and free to go on.
HandlerRuns == (\E h \in Calls : handler[h] = "running") /\ ~Busy("handler")
CallbackRuns == callback # None /\ ~Busy("callback") /\ closeBy # "callback"
MayCall(o) == CASE o = "thread" -> TRUE
                [] o = "handler" -> HandlerRuns
                [] o = "callback" -> CallbackRuns

othersAtCaller == <<routerVars, closeVars, callback, serverVars, served>>

Begin(c, f, o) ==
    /\ pc[c] = "idle" /\ MayCall(o)
    /\ Goto(c, "begun")
    /\ keeps' = [keeps EXCEPT ![c] = [form |-> f, by |-> o]]
    /\ served' = [served EXCEPT ![c] = Published(Method[c])]
    /\ UNCHANGED <<routerVars, closeVars, callback, serverVars, told, crashed>>

FailAtOnce(c) == Tell(c, Result("Failed", "null")) /\ Goto(c, "returned") /\ Release(c)

\* Bug variant of CallAsync: a sync call on the channel's loop thread goes through.
CallAsyncAnywhere(c) ==
    /\ pc[c] = "begun"
    /\ \/ FailAtOnce(c)
       \/ ~closed /\ Goto(c, "encoded") /\ UNCHANGED <<told, keeps>>
    /\ UNCHANGED <<othersAtCaller, crashed>>

\* Bug variant of CallAsync: it does not return when the request does not encode.
CallAsyncOn(c) ==
    /\ pc[c] = "begun"
    /\ LET onLoop == keeps[c] = [form |-> "sync", by |-> "callback"]
       IN  \/ (closed \/ onLoop) /\ FailAtOnce(c)
           \/ /\ ~closed /\ ~onLoop
              /\ Goto(c, "encoded") /\ UNCHANGED keeps
              /\ UNCHANGED told \/ Tell(c, Result("Failed", "null"))
    /\ UNCHANGED <<othersAtCaller, crashed>>

\* ProxyCall or ProxyCallAsync, Call and CallAsync, up to the call into the core:
\* a closed channel, a sync call on the channel's loop thread and a request that
\* does not encode fail at once.  closed is tested twice and never reset, so the
\* second test decides.
CallAsync(c) ==
    /\ pc[c] = "begun"
    /\ LET onLoop == keeps[c] = [form |-> "sync", by |-> "callback"]
       IN  \/ FailAtOnce(c)
           \/ ~closed /\ ~onLoop /\ Goto(c, "encoded") /\ UNCHANGED <<told, keeps>>
    /\ UNCHANGED <<othersAtCaller, crashed>>

\* ChannelCallRaw goes through the pointer to the core channel, whose Call posts.
ChannelCallRaw(c) ==
    /\ pc[c] = "encoded"
    /\ Goto(c, "posted")
    /\ IF IsSync(c) THEN UNCHANGED keeps ELSE Release(c)
    /\ crashed' = IF core THEN "no" ELSE "closed"
    /\ UNCHANGED <<othersAtCaller, told>>

-----------------------------------------------------------------------------
(* The core channel, on its loop thread: CallPromise *)

LoopFree == core /\ callback = None

\* The posted task sends the request; a connect it waits for is part of it.
Send(c) ==
    /\ LoopFree /\ pc[c] = "posted"
    /\ Goto(c, "sent")
    /\ srv' = [srv EXCEPT ![c] = "sent"]
    /\ UNCHANGED <<routerVars, closeVars, callback, keeps, told, served, entry, handler, reply, gave, crashed>>

\* The done that CallAsync gave the core channel: it hands the Result to the
\* owner, by keeping the promise of a sync call or by running its callback.
Conclude(c, r) ==
    /\ Tell(c, r) /\ Goto(c, "returned") /\ Release(c)
    /\ callback' = IF IsSync(c) THEN None ELSE c
    /\ UNCHANGED <<routerVars, closeVars, served, serverVars, crashed>>

\* A broken channel or a lost connection, a cancel or the deadline: the statuses
\* differ, what the typed layer does with them does not.
FailCall(c) ==
    /\ LoopFree /\ pc[c] \in {"posted", "sent"}
    /\ Conclude(c, Result("Failed", "null"))

\* ParseResponse: the empty payload is a message, other bytes may not be one.
Parsed(payload) == IF payload = "" THEN {"default"} ELSE {"answer", "null"}

RecvResponse(c) ==
    /\ LoopFree /\ pc[c] = "sent" /\ reply[c] # None
    /\ \/ reply[c].st # "Ok" /\ Conclude(c, Result(reply[c].st, "null"))
       \/ /\ reply[c].st = "Ok"
          /\ \E v \in Parsed(reply[c].payload) :
                Conclude(c, Result(IF v = "null" THEN "Failed" ELSE "Ok", v))

\* The owner's callback returns into the core channel.
CallbackReturns ==
    /\ CallbackRuns
    /\ callback' = None
    /\ crashed' \in IF core THEN {"no"} ELSE {"no", "core"}
    /\ UNCHANGED <<routerVars, closeVars, pc, keeps, told, served, serverVars>>

-----------------------------------------------------------------------------
(* Close *)

othersAtClose == <<routerVars, callerVars, serverVars, crashed>>

CloseFlag(o) ==
    /\ ~closed /\ MayCall(o)
    /\ closed' = TRUE /\ closeBy' = o
    /\ UNCHANGED <<othersAtClose, core>>

\* LoopRunner::Stop drops what was posted and lets the loop thread exit, and the
\* core channel is deleted.  A call posted between the two is lost like one posted
\* just before.  Stop does not wait for a callback beyond ten seconds, nor on the
\* loop thread itself.
CloseReset ==
    /\ closeBy # None
    /\ closeBy' = None /\ core' = FALSE
    /\ UNCHANGED <<othersAtClose, closed>>

-----------------------------------------------------------------------------
(* The server: its loop thread, the Router and the handlers *)

ServerFree == \A c \in Calls : handler[c] # "running"
Turn(c, at) == srv' = [srv EXCEPT ![c] = at]
Reply(c, st, payload) ==
    reply' = [reply EXCEPT ![c] = [st |-> st, payload |-> payload]]
othersAtServer == <<closeVars, callerVars>>

\* OnHeadersComplete looks the method up.
RecvHeaders(c) ==
    /\ ServerFree /\ srv[c] = "sent" /\ MuFree
    /\ Turn(c, "headers")
    /\ entry' = [entry EXCEPT ![c] = Find(Method[c])]
    /\ UNCHANGED <<othersAtServer, routerVars, handler, reply, gave, crashed>>

\* FinishRequest: no handler, or the raw handler of RegisterUnaryFor, which parses
\* the request in an arena and runs the handler.
RecvRequest(c) ==
    /\ ServerFree /\ srv[c] = "headers"
    /\ \/ /\ entry[c] = None
          /\ Reply(c, "Unimplemented", "") /\ Turn(c, "closed")
          /\ UNCHANGED handler
       \/ /\ entry[c] # None
          /\ Reply(c, "Failed", "") /\ Turn(c, "closed")
          /\ UNCHANGED handler
       \/ /\ entry[c] # None
          /\ Turn(c, "open")
          /\ handler' = [handler EXCEPT ![c] = "running"]
          /\ UNCHANGED reply
    /\ UNCHANGED <<othersAtServer, routerVars, entry, gave, crashed>>

\* Bug variant of Responses: the status of upb_Encode is not looked at.
ResponsesUnchecked(ans) ==
    CASE ans = "error" -> {<<"Failed", "">>}
      [] ans = "nothing" -> {<<"Ok", "">>}
      [] ans = "answer" -> {<<"Ok", "answer">>, <<"Ok", "">>}

\* What typed_done sends for an answer: a response may not encode, and one that
\* does not fit in the window is overtaken by its trailers (Conn::Respond).
Responses(ans) ==
    CASE ans = "error" -> {<<"Failed", "">>}
      [] ans = "nothing" -> {<<"Ok", "">>}
      [] ans = "answer" -> {<<"Ok", "answer">>, <<"Failed", "">>}
                              \cup IF Fits THEN {} ELSE {<<"Ok", "">>}

\* typed_done: it responds through the Ctx of the call, which is deleted with
\* the stream, and frees the arena.  A call already answered ignores the response.
\* What a deleted Ctx or a second free does is undefined: nothing, or the end of
\* the process.  A response ends the stream, but it closes no earlier than the
\* handler, which nghttp2 called with the end of the request, returns.
TypedDone(c, ans, at) ==
    /\ gave' = [gave EXCEPT ![c] = IF @ = "none" THEN ans ELSE @]
    /\ Turn(c, at)
    /\ IF srv[c] = "open" THEN \E r \in Responses(ans) : Reply(c, r[1], r[2])
                          ELSE UNCHANGED reply
    /\ crashed' \in IF srv[c] = "closed" \/ gave[c] # "none" THEN {"no", "done"} ELSE {"no"}
    /\ UNCHANGED <<othersAtServer, routerVars, entry>>

\* The handler calls done, once (server-api.md).
HandlerDone(c, ans) ==
    /\ handler[c] = "running" /\ HandlerRuns /\ gave[c] = "none"
    /\ TypedDone(c, ans, "answered")
    /\ UNCHANGED handler

\* It returns; if it has not called done, it has left it to other code.
HandlerReturns(c) ==
    /\ handler[c] = "running" /\ HandlerRuns
    /\ IF srv[c] = "answered"
       THEN handler' = [handler EXCEPT ![c] = "over"] /\ Turn(c, "closed")
       ELSE handler' = [handler EXCEPT ![c] = "left"] /\ UNCHANGED srv
    /\ UNCHANGED <<othersAtServer, routerVars, entry, reply, gave, crashed>>

\* It throws: the generated wrapper answers INTERNAL and returns.  A plain lambda
\* has no wrapper, and the exception leaves the loop thread.
HandlerThrows(c) ==
    /\ handler[c] = "running" /\ HandlerRuns
    /\ handler' = [handler EXCEPT ![c] = "over"]
    /\ \/ entry[c] \notin Lambdas /\ TypedDone(c, "error", "closed")
       \/ /\ entry[c] \in Lambdas
          /\ crashed' = "exception"
          /\ UNCHANGED <<othersAtServer, routerVars, srv, entry, reply, gave>>

\* The code it left done to calls it, between two events of the loop.
DoneLater(c, ans) ==
    /\ ServerFree /\ handler[c] = "left"
    /\ TypedDone(c, ans, "closed")
    /\ handler' = [handler EXCEPT ![c] = "over"]

\* The client gave the call up, or stopped its loop: its reset, or the end of its
\* connection, closes the stream.
RecvReset(c) ==
    /\ ServerFree /\ (pc[c] = "returned" \/ ~core)
    /\ srv[c] \in {"sent", "headers", "open"}
    /\ Turn(c, "closed")
    /\ UNCHANGED <<othersAtServer, routerVars, entry, handler, reply, gave, crashed>>

-----------------------------------------------------------------------------
Caller(c) == CallAsync(c) \/ ChannelCallRaw(c)
ChannelLoop == (\E c \in Calls : Send(c) \/ RecvResponse(c)) \/ CallbackReturns
ServerLoop ==
    \E c \in Calls : \/ RecvHeaders(c) \/ RecvRequest(c) \/ RecvReset(c)
                     \/ HandlerReturns(c) \/ HandlerThrows(c)
                     \/ \E ans \in Answers : HandlerDone(c, ans) \/ DoneLater(c, ans)
othersAtRouter == <<closeVars, callerVars, serverVars, crashed>>
Publish == RouterNext /\ UNCHANGED othersAtRouter

Next ==
    /\ crashed = "no"
    /\ \/ \E c \in Calls :
             \/ \E f \in {"sync", "async"}, o \in {"thread", "handler", "callback"} :
                   Begin(c, f, o)
             \/ Caller(c) \/ FailCall(c)
       \/ ChannelLoop \/ ServerLoop
       \/ \E o \in {"thread", "callback"} : CloseFlag(o)
       \/ CloseReset \/ Publish

Spec == Init /\ [][Next]_vars

\* Threads that can run do run, and handlers answer in the end.  Nobody has to
\* call, close or register, and no call has to fail: there need be no deadline.
FairSpec ==
    /\ Spec
    /\ \A c \in Calls : /\ WF_vars(crashed = "no" /\ Caller(c))
                        /\ WF_vars(crashed = "no" /\ \E ans \in Answers : DoneLater(c, ans))
    /\ WF_vars(crashed = "no" /\ ChannelLoop) /\ WF_vars(crashed = "no" /\ ServerLoop)
    /\ WF_vars(crashed = "no" /\ CloseReset)
    /\ WF_vars(crashed = "no" /\ UNCHANGED othersAtRouter
                            /\ \E r \in Registrants : RegisterSwap(r))

-----------------------------------------------------------------------------
(* Properties *)

(* The typed calls keep the promise of the channel under them (client.h:     *)
(* "callback fires exactly once"): CallAsync's early failures, the core's    *)
(* answer and the sync wrapper together give the owner one Result and never  *)
(* a second, which would also break the promise of a sync call.              *)
Promise == INSTANCE CallPromise WITH
              Ids <- Calls, Status <- Statuses, Message <- "message",
              issued <- {c \in Calls : pc[c] # "idle"},
              events <- [c \in Calls |-> [k \in DOMAIN told[c] |-> told[c][k].st]]
TypedPromise == Promise!Spec

(* A Result that is ok() tells what the handler said: it answered OK to this *)
(* very call, with this message, or without one, which the caller sees as a  *)
(* message of default values.  Closing, failing to encode or to parse,       *)
(* throwing and answering late never turn into a success.                    *)
OkIsTheAnswer ==
    \A c \in Calls : \A k \in DOMAIN told[c] :
        told[c][k].st = "Ok" =>
            gave[c] = IF told[c][k].value = "answer" THEN "answer" ELSE "nothing"

(* Once a registration has returned Ok, calls of the method are served: one  *)
(* that begins later is never answered UNIMPLEMENTED, whatever else is       *)
(* registered meanwhile (router.h: a registration swaps in a new map).       *)
PublishedIsServed ==
    \A c \in Calls : \A k \in DOMAIN told[c] :
        told[c][k].st = "Unimplemented" => ~served[c]

(* A sync call returns although nothing bounds it, unless the channel is     *)
(* closed under it (its Result is then abandoned) or a handler waits in a    *)
(* sync call of its own, with the server's loop thread.  The loop thread of  *)
(* the channel itself is never kept waiting (FR-002).                        *)
SyncReturns ==
    (\E c \in Calls : IsSync(c) /\ pc[c] = "posted") ~>
        (\A c \in Calls : ~IsSync(c)) \/ closed \/ crashed # "no" \/ Busy("handler")
=============================================================================
