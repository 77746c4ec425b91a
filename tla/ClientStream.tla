---------------------------- MODULE ClientStream ----------------------------
(***************************************************************************)
(* The typed, blocking client streams (stream.h): ClientReader,            *)
(* ClientWriter and ClientReaderWriter, on threads of the application, and *)
(* Channel::Close (urpc_api_impl.cc) on another one.                       *)
(*                                                                         *)
(* The core channel is represented by the callbacks it makes on its loop   *)
(* thread: messages, then one status (what Channel implements CallPromise  *)
(* for), and an answer for a message sent.  A payload is one that the      *)
(* response type can be parsed from, or not.                               *)
(***************************************************************************)
EXTENDS Integers, Sequences

CONSTANTS
    MaxMessages,   \* bound: messages the core channel delivers
    MaxWrites,     \* bound: calls of Write
    MayClose       \* is Close called?

ASSUME StreamAssumption ==
    /\ MaxMessages \in Nat /\ MaxWrites \in Nat /\ MayClose \in BOOLEAN

VARIABLES
    closed, core, closer,        \* Channel::Impl: closed, channel; Close's progress
    wire_debug,                  \* URPC_WIRE_DEBUG is set in the environment
    form,                        \* the kind of stream opened
    late,                        \* history: it was opened after Close was called
    messages, terminated, terminal,   \* ClientStreamState
    pc, asleep,                  \* per thread: where it is; those waiting on cv
    writes_done,                 \* ClientWriter
    complete,                    \* on_complete: "due" until NotifyTerminal notified
    writes,                      \* history: calls of Write
    got, read,                   \* history: payloads delivered; returned by Read
    eos, fin,                    \* history: results of the last Read and of Finish
    crashed                      \* the core channel was used after its deletion

chanVars == <<closed, core, closer, wire_debug>>
recvVars == <<messages, terminated, terminal, complete, got>>
resultVars == <<read, eos, fin>>
writeVars == <<writes_done, writes>>
streamVars == <<chanVars, form, late, recvVars, pc, asleep, writeVars, resultVars, crashed>>

Payload == {"good", "bad"}
Status == {"Ok", "Unavailable", "DataLoss", "Unimplemented"}
Threads == {"R", "W"}

\* The thread that opens and finishes a stream; a bidirectional one is read by
\* the other thread.
OwnerOf(f) == IF f = "reader" THEN "R" ELSE "W"
Owner == OwnerOf(form)

\* The types; Read and Finish return statuses of the library (Decode).
StreamTypeOK ==
    /\ closed \in BOOLEAN /\ core \in {"running", "stopped", "gone"}
    /\ closer \in {"idle", "marked", "joined", "done"}
    /\ wire_debug \in BOOLEAN /\ late \in BOOLEAN
    /\ form \in {"none", "reader", "writer", "bidi"}
    /\ messages \in Seq(Payload) /\ terminated \in BOOLEAN /\ terminal \in Status
    /\ pc \in [Threads -> {"new", "open", "request", "idle", "reading", "writing",
                           "flushing", "finishing", "done"}]
    /\ asleep \subseteq Threads
    /\ writes_done \in BOOLEAN /\ complete \in {"none", "due", "notified"}
    /\ writes \in 0..MaxWrites
    /\ got \in Seq(Payload) /\ read \in Seq(Payload)
    /\ eos \in Status \cup {"none"} /\ fin \in Status \cup {"none"}
    /\ crashed \in BOOLEAN

StreamInit ==
    /\ closed = FALSE /\ core = "running" /\ closer = "idle" /\ form = "none"
    /\ wire_debug \in BOOLEAN /\ late = FALSE
    /\ messages = <<>> /\ terminated = FALSE /\ terminal = "Ok"
    /\ pc = [t \in Threads |-> "new"] /\ asleep = {}
    /\ writes_done = FALSE /\ complete = "none" /\ writes = 0
    /\ got = <<>> /\ read = <<>> /\ eos = "none" /\ fin = "none" /\ crashed = FALSE

\* A call into the core channel, then the threads are at next: but after Close
\* channel->impl()->channel is empty, and the process ends.
UseCore(next) ==
    IF core = "gone"
    THEN crashed' = TRUE /\ pc' = [t \in Threads |-> "done"]
    ELSE crashed' = FALSE /\ pc' = next

At(t, l) == [pc EXCEPT ![t] = l]
Goto(t, l) == pc' = At(t, l)

-----------------------------------------------------------------------------
(* Channel::Close, on a thread of its own *)

Close ==
    /\ \/ /\ MayClose /\ closer = "idle"
          /\ closed' = TRUE /\ closer' = "marked" /\ UNCHANGED core
       \/ /\ closer = "marked"     \* loop.Stop() joins the loop thread
          /\ closer' = "joined" /\ core' = "stopped" /\ UNCHANGED closed
       \/ /\ closer = "joined"     \* channel.reset()
          /\ closer' = "done" /\ core' = "gone" /\ UNCHANGED closed
    /\ UNCHANGED <<wire_debug, form, late, recvVars, pc, asleep, writeVars, resultVars,
                   crashed>>

-----------------------------------------------------------------------------
(* Opening a stream *)

\* Where the threads are once the stream is open.
Opened(f) == [t \in Threads |-> CASE f = "reader" /\ t = "R" -> "request"
                                  [] f = "bidi" \/ (f = "writer" /\ t = "W") -> "idle"
                                  [] OTHER -> "new"]

\* ChannelOpenStreamRaw's test of the channel: a closed one completes the
\* stream at once.  The test is the body of `if (getenv("URPC_WIRE_DEBUG"))`.
OpenCheck(f) ==
    LET refuse == wire_debug /\ closed IN
    /\ form = "none" /\ form' = f /\ late' = closed
    /\ pc' = IF refuse THEN Opened(f) ELSE At(OwnerOf(f), "open")
    /\ terminated' = refuse
    /\ terminal' = IF refuse THEN "Unavailable" ELSE terminal
    /\ complete' = IF refuse THEN "notified" ELSE complete
    /\ UNCHANGED <<chanVars, messages, got, asleep, writeVars, resultVars, crashed>>

\* core::Channel::OpenStream.
OpenCall ==
    /\ pc[Owner] = "open"
    /\ UseCore(Opened(form))
    /\ UNCHANGED <<chanVars, form, late, recvVars, asleep, writeVars, resultVars>>

\* SendSingleRequest, on the stream or on id 0.
SendSingleRequest ==
    /\ pc["R"] = "request"
    /\ UseCore(At("R", "idle"))
    /\ UNCHANGED <<chanVars, form, late, recvVars, asleep, writeVars, resultVars>>

-----------------------------------------------------------------------------
(* Callbacks of the core channel, on its loop thread *)

Delivers == core = "running" /\ ~terminated /\ form # "none" /\ pc[Owner] # "open"

\* Bug variant of OnMessage: nobody is notified.
OnMessageSilent(p) ==
    /\ Delivers /\ Len(got) < MaxMessages
    /\ messages' = Append(messages, p)
    /\ got' = Append(got, p)
    /\ UNCHANGED <<asleep, chanVars, form, late, terminated, terminal, complete, pc,
                   writeVars, resultVars, crashed>>

\* on_message: the lock is held, also for notify_all.
OnMessage(p) ==
    /\ Delivers /\ Len(got) < MaxMessages
    /\ messages' = Append(messages, p)
    /\ got' = Append(got, p)
    /\ asleep' = {}
    /\ UNCHANGED <<chanVars, form, late, terminated, terminal, complete, pc, writeVars,
                   resultVars, crashed>>

\* on_complete, NotifyTerminal under the lock.
OnComplete(st) ==
    /\ Delivers
    /\ terminated' = TRUE /\ terminal' = st /\ complete' = "due"
    /\ UNCHANGED <<chanVars, form, late, messages, got, pc, asleep, writeVars, resultVars,
                   crashed>>

\* notify_all, after the lock.
NotifyAll ==
    /\ complete = "due" /\ complete' = "notified"
    /\ asleep' = {}
    /\ UNCHANGED <<chanVars, form, late, messages, terminated, terminal, got, pc, writeVars,
                   resultVars, crashed>>

\* The answer for a message sent; the future of Write becomes ready.
OnFlushed ==
    /\ core = "running" /\ pc["W"] = "flushing"
    /\ Goto("W", "idle")
    /\ UNCHANGED <<chanVars, form, late, recvVars, asleep, writeVars, resultVars, crashed>>

-----------------------------------------------------------------------------
(* Calls of the application *)

BeginRead ==
    /\ pc["R"] = "idle"
    /\ Goto("R", "reading")
    /\ UNCHANGED <<chanVars, form, late, recvVars, asleep, writeVars, resultVars, crashed>>

Sleep(t) ==
    /\ asleep' = asleep \cup {t}
    /\ UNCHANGED <<messages, pc, resultVars>>

\* Bug variant of Read: the end of the stream is looked at first.
ReadEndFirst ==
    /\ pc["R"] = "reading" /\ "R" \notin asleep
    /\ IF terminated
       THEN /\ eos' = terminal
            /\ Goto("R", "idle") /\ UNCHANGED <<messages, asleep, read, fin>>
       ELSE IF messages # <<>>
       THEN /\ messages' = Tail(messages) /\ read' = Append(read, Head(messages))
            /\ eos' = IF Head(messages) = "good" THEN "none" ELSE "DataLoss"
            /\ Goto("R", "idle") /\ UNCHANGED <<asleep, fin>>
       ELSE Sleep("R")
    /\ UNCHANGED <<chanVars, form, late, terminated, terminal, complete, got, writeVars,
                   crashed>>

\* ClientReader::Read with the lock held: the predicate, and what follows.
Read ==
    /\ pc["R"] = "reading" /\ "R" \notin asleep
    /\ IF messages # <<>>
       THEN /\ messages' = Tail(messages) /\ read' = Append(read, Head(messages))
            /\ eos' = IF Head(messages) = "good" THEN "none" ELSE "DataLoss"
            /\ Goto("R", "idle") /\ UNCHANGED <<asleep, fin>>
       ELSE IF terminated
       THEN /\ eos' = terminal
            /\ Goto("R", "idle") /\ UNCHANGED <<messages, asleep, read, fin>>
       ELSE Sleep("R")
    /\ UNCHANGED <<chanVars, form, late, terminated, terminal, complete, got, writeVars,
                   crashed>>

\* ClientWriter::Write: refused once the stream has ended (read without the lock).
BeginWrite ==
    /\ pc["W"] = "idle" /\ writes < MaxWrites
    /\ writes' = writes + 1
    /\ Goto("W", IF terminated THEN "idle" ELSE "writing")
    /\ UNCHANGED <<chanVars, form, late, recvVars, asleep, writes_done, resultVars, crashed>>

\* ChannelOnLoopThreadRaw, ChannelStreamSendRaw; then it waits for the answer.
Write ==
    /\ pc["W"] = "writing"
    /\ UseCore(At("W", "flushing"))
    /\ UNCHANGED <<chanVars, form, late, recvVars, asleep, writeVars, resultVars>>

WritesDone ==
    /\ pc["W"] = "idle" /\ ~writes_done
    /\ writes_done' = TRUE
    /\ UseCore(At("W", "idle"))
    /\ UNCHANGED <<chanVars, form, late, recvVars, asleep, writes, resultVars>>

\* Finish: WritesDone where there is one, and the test for the loop thread.
BeginFinish ==
    /\ pc[Owner] = "idle"
    /\ writes_done' = (writes_done \/ form # "reader")
    /\ UseCore(At(Owner, "finishing"))
    /\ UNCHANGED <<chanVars, form, late, recvVars, asleep, writes, resultVars>>

\* The result of ClientWriter::Finish; the other forms return the status.
Outcome ==
    IF form # "writer" \/ terminal # "Ok" THEN terminal
    ELSE IF messages = <<>> \/ Head(messages) = "bad" THEN "DataLoss" ELSE "Ok"

\* Bug variant of Finish: a response is taken for the end of the stream.
FinishOnMessage ==
    /\ pc[Owner] = "finishing" /\ Owner \notin asleep
    /\ IF terminated \/ messages # <<>>
       THEN /\ fin' = Outcome
            /\ messages' = IF form = "writer" /\ terminal = "Ok" THEN <<>> ELSE messages
            /\ Goto(Owner, "done") /\ UNCHANGED <<asleep, read, eos>>
       ELSE Sleep(Owner)
    /\ UNCHANGED <<chanVars, form, late, terminated, terminal, complete, got, writeVars,
                   crashed>>

\* WaitTerminal, and what follows.
Finish ==
    /\ pc[Owner] = "finishing" /\ Owner \notin asleep
    /\ IF terminated
       THEN /\ fin' = Outcome
            /\ messages' = IF form = "writer" /\ terminal = "Ok" THEN <<>> ELSE messages
            /\ Goto(Owner, "done") /\ UNCHANGED <<asleep, read, eos>>
       ELSE Sleep(Owner)
    /\ UNCHANGED <<chanVars, form, late, terminated, terminal, complete, got, writeVars,
                   crashed>>

\* A condition variable may wake a thread for no reason.
SpuriousWakeup ==
    /\ \E t \in asleep : asleep' = asleep \ {t}
    /\ UNCHANGED <<chanVars, form, late, recvVars, pc, writeVars, resultVars, crashed>>

User ==
    \/ \E f \in {"reader", "writer", "bidi"} : OpenCheck(f)
    \/ OpenCall \/ SendSingleRequest
    \/ BeginRead \/ Read \/ BeginWrite \/ Write \/ WritesDone \/ BeginFinish \/ Finish

StreamNext ==
    \/ User \/ Close \/ SpuriousWakeup
    \/ \E p \in Payload : OnMessage(p)
    \/ \E st \in Status : OnComplete(st)
    \/ NotifyAll \/ OnFlushed

StreamSpec == StreamInit /\ [][StreamNext]_streamVars

\* Threads that can run do, and a callback that has begun ends.
StreamFairSpec == StreamSpec /\ WF_streamVars(Read) /\ WF_streamVars(Finish) /\ WF_streamVars(NotifyAll)

-----------------------------------------------------------------------------
(* Properties *)

(* Read returns the messages in the order the core channel delivered them,   *)
(* and reports the end of the stream only after the last of them, whenever   *)
(* the status arrives and whether or not the reader was asleep.              *)
ReadsEverything ==
    form \in {"reader", "bidi"} =>
        /\ read \o messages = got
        /\ pc["R"] = "idle" /\ eos \notin {"none", "DataLoss"} =>
               terminated /\ eos = terminal /\ messages = <<>>

(* Finish tells the outcome of the call: the peer's status, or, for the      *)
(* client-streaming form, DATA_LOSS for an OK without a readable response;   *)
(* it never answers before the status is known.                              *)
FinishTellsOutcome ==
    fin # "none" =>
        /\ terminated
        /\ fin = IF form # "writer" \/ terminal # "Ok" THEN terminal
                 ELSE IF got = <<>> \/ got[1] = "bad" THEN "DataLoss" ELSE "Ok"

(* A thread blocked in Read or Finish returns once there is something to     *)
(* return.                                                                   *)
WaitersReturn ==
    /\ (pc["R"] = "reading" /\ got # read) ~> pc["R"] # "reading"
    /\ (pc[Owner] = "finishing" /\ terminated) ~> pc[Owner] # "finishing"
=============================================================================
