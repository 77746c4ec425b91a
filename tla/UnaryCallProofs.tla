-------------------------- MODULE UnaryCallProofs --------------------------
(***************************************************************************)
(* Proofs about UnaryCall and its Router, for any number of calls, methods *)
(* and registrants.                                                        *)
(***************************************************************************)
EXTENDS UnaryCall, TLAPS

-----------------------------------------------------------------------------
(* Sequences.  These few facts stand in for the library of sequence          *)
(* theorems, which every obligation would otherwise carry along.             *)

(* The elements of a sequence. *)
LEMMA ElementOfSeq ==
    ASSUME NEW V, NEW q \in Seq(V), NEW n \in 1..Len(q)
    PROVE  q[n] \in V
OBVIOUS

(* A sequence is a function on 1..Len(q). *)
LEMMA LenProperties ==
    ASSUME NEW V, NEW q \in Seq(V)
    PROVE  /\ Len(q) \in Nat /\ DOMAIN q = 1..Len(q)
           /\ q \in [1..Len(q) -> V]
OBVIOUS

-----------------------------------------------------------------------------
\* Only the registrant that holds mu_ has a copy, it is the current map, and a
\* method stays in the map once it is registered.
RouterInv ==
    /\ \A r \in Registrants : copied[r] => next[r] = snapshot /\ registered[r] < Len(Service[r])
    /\ \A r, s \in Registrants : copied[r] /\ copied[s] => r = s
    /\ \A r \in Registrants : \A k \in 1..registered[r] : snapshot[Service[r][k]] # None

\* What happened on the server's side to a call, and its history.
ServedInv(c) ==
    /\ pc[c] \notin {"sent", "returned"} =>
          srv[c] = "none" /\ reply[c] = None /\ handler[c] = "none"
    /\ served[c] => snapshot[Method[c]] # None
    /\ served[c] /\ srv[c] = "headers" => entry[c] # None
    /\ served[c] /\ reply[c] # None => reply[c].st # "Unimplemented"
    /\ srv[c] \notin {"answered", "closed"} => gave[c] = "none"
    /\ Fits /\ reply[c] # None /\ reply[c].st = "Ok" =>
          gave[c] = IF reply[c].payload = "answer" THEN "answer" ELSE "nothing"

\* A call that has not returned has told nothing; then it has told one Result.
ToldInv(c) ==
    /\ pc[c] # "returned" => told[c] = <<>>
    /\ \A k \in DOMAIN told[c] :
          /\ served[c] => told[c][k].st # "Unimplemented"
          /\ Fits /\ told[c][k].st = "Ok" =>
                gave[c] = IF told[c][k].value = "answer" THEN "answer" ELSE "nothing"

CallInv == \A c \in Calls : ServedInv(c) /\ ToldInv(c)
Inv == TypeOK /\ RouterInv /\ CallInv

-----------------------------------------------------------------------------
(* The Router *)

\* A registration keeps every method that is in the map.
LEMMA RouterStep ==
    ASSUME RouterTypeOK, RouterInv, RouterNext
    PROVE  /\ RouterTypeOK' /\ RouterInv'
           /\ \A m \in Methods : snapshot[m] # None => snapshot'[m] # None
<1>1. PICK r \in Registrants : RegisterCopy(r) \/ RegisterSwap(r)
  BY DEF RouterNext
<1>2. \A s \in Registrants : /\ Len(Service[s]) \in Nat
                             /\ \A k \in 1..Len(Service[s]) : Service[s][k] \in Methods
  BY RouterAssumption, LenProperties, ElementOfSeq
<1>3. \A s \in Registrants : registered[s] \in Nat /\ registered[s] <= Len(Service[s])
  BY <1>2 DEF RouterTypeOK
<1>4. CASE RegisterCopy(r)
  <2>1. /\ snapshot' = snapshot /\ registered' = registered /\ refused' = refused
        /\ copied' = [copied EXCEPT ![r] = TRUE]
        /\ next' = [next EXCEPT ![r] = snapshot]
        /\ registered[r] < Len(Service[r])
        /\ \A s \in Registrants : ~copied[s]
    BY <1>4 DEF RegisterCopy, Registering, MuFree
  <2>2. RouterTypeOK'
    BY <2>1 DEF RouterTypeOK
  <2>3. \A s \in Registrants : copied'[s] => s = r /\ next'[s] = snapshot
    BY <2>1 DEF RouterTypeOK
  <2>4. RouterInv'
    BY <2>1, <2>3 DEF RouterInv
  <2>. QED
    BY <2>1, <2>2, <2>4
<1>5. CASE RegisterSwap(r)
  <2>. DEFINE m == Service[r][registered[r] + 1]
  <2>1. m \in Methods /\ next[r] = snapshot /\ registered[r] + 1 \in 1..Len(Service[r])
    BY <1>2, <1>3, <1>5 DEF RegisterSwap, RouterInv
  <2>2. Empty \in Maps
    BY DEF Empty, Maps
  <2>3. \A s \in Registrants \ {r} : ~copied[s]
    BY <1>5 DEF RegisterSwap, RouterInv
  <2>4. CASE next[r][m] # None
    <3>1. /\ snapshot' = snapshot /\ registered' = registered
          /\ refused' = [refused EXCEPT ![r] = TRUE]
          /\ copied' = [copied EXCEPT ![r] = FALSE]
          /\ next' = [next EXCEPT ![r] = Empty]
      BY <1>5, <2>4 DEF RegisterSwap
    <3>2. RouterTypeOK'
      BY <2>2, <3>1 DEF RouterTypeOK
    <3>3. \A s \in Registrants : ~copied'[s]
      BY <2>3, <3>1 DEF RouterTypeOK
    <3>. QED
      BY <3>1, <3>2, <3>3 DEF RouterInv
  <2>5. CASE next[r][m] = None
    <3>1. /\ snapshot' = [snapshot EXCEPT ![m] = r]
          /\ registered' = [registered EXCEPT ![r] = @ + 1]
          /\ refused' = refused
          /\ copied' = [copied EXCEPT ![r] = FALSE]
          /\ next' = [next EXCEPT ![r] = Empty]
      BY <1>5, <2>1, <2>5 DEF RegisterSwap
    <3>2. \A n \in Methods : snapshot[n] # None => snapshot'[n] # None
      BY <2>1, <3>1, RouterAssumption DEF RouterTypeOK, Maps
    <3>3. snapshot'[m] # None /\ snapshot' \in Maps
      BY <2>1, <3>1, RouterAssumption DEF RouterTypeOK, Maps
    <3>4. RouterTypeOK'
      BY <1>2, <1>3, <2>1, <2>2, <3>1, <3>3 DEF RouterTypeOK
    <3>5. \A s \in Registrants : \A k \in 1..registered'[s] : snapshot'[Service[s][k]] # None
      <4>. TAKE s \in Registrants
      <4>. TAKE k \in 1..registered'[s]
      <4>1. CASE s = r /\ k = registered[r] + 1
        BY <3>3, <4>1
      <4>2. CASE ~(s = r /\ k = registered[r] + 1)
        <5>1. k \in 1..registered[s]
          BY <1>3, <3>1, <4>2 DEF RouterTypeOK
        <5>2. k \in 1..Len(Service[s])
          BY <1>2, <1>3, <5>1
        <5>. QED
          BY <1>2, <3>2, <5>1, <5>2 DEF RouterInv
      <4>. QED
        BY <4>1, <4>2
    <3>6. \A s \in Registrants : ~copied'[s]
      BY <2>3, <3>1 DEF RouterTypeOK
    <3>. QED
      BY <3>2, <3>4, <3>5, <3>6 DEF RouterInv
  <2>. QED
    BY <2>4, <2>5
<1>. QED
  BY <1>1, <1>4, <1>5

(* A step that leaves the router alone.                                      *)
LEMMA RouterStays ==
    ASSUME RouterTypeOK, RouterInv, UNCHANGED routerVars
    PROVE  RouterTypeOK' /\ RouterInv'
BY DEF RouterTypeOK, RouterInv, routerVars

\* A method whose registration has returned Ok is in the map.
LEMMA PublishedFound ==
    ASSUME RouterInv, NEW m \in Methods, Published(m)
    PROVE  snapshot[m] # None
BY DEF RouterInv, Published

-----------------------------------------------------------------------------
(* Calls *)

\* The type of what belongs to calls and to Close.
CallTypeOK ==
    /\ closed \in BOOLEAN /\ core \in BOOLEAN
    /\ closeBy \in {None, "thread", "callback"}
    /\ callback \in Calls \cup {None}
    /\ pc \in [Calls -> {"idle", "begun", "encoded", "posted", "sent", "returned"}]
    /\ keeps \in [Calls -> Keeps \cup {None}]
    /\ told \in [Calls -> Seq(Results)]
    /\ srv \in [Calls -> {"none", "sent", "headers", "open", "answered", "closed"}]
    /\ entry \in [Calls -> Registrants \cup {None}]
    /\ handler \in [Calls -> {"none", "running", "left", "over"}]
    /\ reply \in [Calls -> Replies \cup {None}]
    /\ served \in [Calls -> BOOLEAN]
    /\ gave \in [Calls -> {"none", "answer", "nothing", "error"}]
    /\ crashed \in {"no", "closed", "core", "done", "exception"}

(* The types of the router and of the calls.                                 *)
LEMMA Types == TypeOK <=> RouterTypeOK /\ CallTypeOK
BY Zenon DEF TypeOK, CallTypeOK

USE DEF CallInv

\* The caller's steps up to the call into the core.
LEMMA BeginStep ==
    ASSUME Inv, NEW c \in Calls, NEW f \in {"sync", "async"},
           NEW o \in {"thread", "handler", "callback"}, Begin(c, f, o)
    PROVE  CallTypeOK' /\ CallInv'
<1>1. Method[c] \in Methods
  BY UnaryAssumption
<1>2. Published(Method[c]) \in BOOLEAN
  BY DEF Published
<1>3. CallTypeOK'
  BY <1>2, Types DEF Inv, CallTypeOK, Begin, Goto, Keeps, closeVars, serverVars
<1>4. ASSUME NEW d \in Calls PROVE ServedInv(d)' /\ ToldInv(d)'
  <2>1. CASE d = c
    BY <1>1, <2>1, Types, PublishedFound
       DEF Inv, CallTypeOK, Begin, Goto, ServedInv, ToldInv, routerVars, serverVars
  <2>2. CASE d # c
    BY <2>2, Types DEF Inv, CallTypeOK, Begin, Goto, ServedInv, ToldInv, routerVars, serverVars
  <2>. QED
    BY <2>1, <2>2
<1>. QED
  BY <1>3, <1>4

\* A call that has told nothing tells r.
LEMMA TellOne ==
    ASSUME CallTypeOK, NEW c \in Calls, told[c] = <<>>, NEW r \in Results, Tell(c, r)
    PROVE  /\ told' \in [Calls -> Seq(Results)]
           /\ DOMAIN told'[c] = {1} /\ told'[c][1] = r /\ told'[c] = <<r>>
           /\ \A d \in Calls \ {c} : told'[d] = told[d]
<1>1. Append(<<>>, r) = <<r>> /\ <<r>> \in Seq(Results)
  OBVIOUS
<1>2. told' = [told EXCEPT ![c] = <<r>>]
  BY <1>1 DEF Tell
<1>3. DOMAIN <<r>> = {1} /\ <<r>>[1] = r
  OBVIOUS
<1>. QED
  BY <1>1, <1>2, <1>3 DEF CallTypeOK

\* A call returns with a Result that is true to its history.
LEMMA ReturnStep ==
    ASSUME Inv, NEW c \in Calls, pc[c] \notin {"idle", "returned"},
           NEW r \in Results, Tell(c, r), Goto(c, "returned"),
           UNCHANGED <<routerVars, serverVars, served>>,
           served[c] => r.st # "Unimplemented",
           Fits /\ r.st = "Ok" => gave[c] = IF r.value = "answer" THEN "answer" ELSE "nothing"
    PROVE  told' \in [Calls -> Seq(Results)] /\ CallInv'
<1>1. CallTypeOK /\ told[c] = <<>>
  BY Types DEF Inv, ToldInv
<1>2. /\ told' \in [Calls -> Seq(Results)]
      /\ DOMAIN told'[c] = {1} /\ told'[c][1] = r
      /\ \A d \in Calls \ {c} : told'[d] = told[d]
  BY <1>1, TellOne
<1>3. ASSUME NEW d \in Calls PROVE ServedInv(d)' /\ ToldInv(d)'
  <2>1. ServedInv(d)'
    BY <1>1 DEF Inv, CallTypeOK, Goto, ServedInv, routerVars, serverVars
  <2>2. CASE d = c
    BY <1>1, <1>2, <2>1, <2>2 DEF CallTypeOK, Goto, ToldInv, serverVars
  <2>3. CASE d # c
    BY <1>1, <1>2, <2>1, <2>3 DEF Inv, CallTypeOK, Goto, ToldInv, serverVars
  <2>. QED
    BY <2>2, <2>3
<1>. QED
  BY <1>2, <1>3

(* The Result of a call that failed.                                         *)
LEMMA FailedResult == Result("Failed", "null") \in Results /\ Result("Failed", "null").st = "Failed"
BY DEF Result, Results, Statuses

(* CallAsync tests closed() and encodes the request.                         *)
LEMMA CallAsyncStep ==
    ASSUME Inv, NEW c \in Calls, CallAsync(c)
    PROVE  CallTypeOK' /\ CallInv'
<1>1. CASE FailAtOnce(c)
  <2>1. UNCHANGED <<routerVars, serverVars, served>> /\ pc[c] = "begun"
    BY DEF CallAsync, othersAtCaller
  <2>2. told' \in [Calls -> Seq(Results)] /\ CallInv'
    BY <1>1, <2>1, FailedResult, ReturnStep DEF FailAtOnce
  <2>3. CallTypeOK'
    BY <1>1, <2>1, <2>2, Types DEF Inv, CallTypeOK, CallAsync, othersAtCaller, FailAtOnce, Goto,
                          Release, closeVars, serverVars
  <2>. QED
    BY <2>2, <2>3
<1>2. CASE Goto(c, "encoded") /\ UNCHANGED <<told, keeps>>
  BY <1>2, Types DEF Inv, CallTypeOK, CallAsync, othersAtCaller, Goto, ServedInv, ToldInv,
                     routerVars, closeVars, serverVars
<1>. QED
  BY <1>1, <1>2 DEF CallAsync

(* The call is posted to the core channel, or finds it deleted.              *)
LEMMA ChannelCallRawStep ==
    ASSUME Inv, NEW c \in Calls, ChannelCallRaw(c)
    PROVE  CallTypeOK' /\ CallInv'
BY Types DEF Inv, CallTypeOK, ChannelCallRaw, othersAtCaller, Goto, Release, ServedInv, ToldInv,
             routerVars, closeVars, serverVars

\* The steps of the channel's loop thread.
LEMMA SendStep ==
    ASSUME Inv, NEW c \in Calls, Send(c)
    PROVE  CallTypeOK' /\ CallInv'
BY Types DEF Inv, CallTypeOK, Send, Goto, ServedInv, ToldInv, routerVars, closeVars

(* A call returns its Result, by promise or by callback.                     *)
LEMMA ConcludeStep ==
    ASSUME Inv, NEW c \in Calls, pc[c] \notin {"idle", "returned"},
           NEW r \in Results, Conclude(c, r),
           served[c] => r.st # "Unimplemented",
           Fits /\ r.st = "Ok" => gave[c] = IF r.value = "answer" THEN "answer" ELSE "nothing"
    PROVE  CallTypeOK' /\ CallInv'
<1>1. UNCHANGED <<routerVars, serverVars, served>> /\ Tell(c, r) /\ Goto(c, "returned")
  BY DEF Conclude
<1>2. told' \in [Calls -> Seq(Results)] /\ CallInv'
  BY <1>1, ReturnStep
<1>3. CallTypeOK'
  BY <1>1, <1>2, Types DEF Inv, CallTypeOK, Conclude, Goto, Release, closeVars, serverVars
<1>. QED
  BY <1>2, <1>3

(* A deadline, a reset or a lost connection fails a call.                    *)
LEMMA FailCallStep ==
    ASSUME Inv, NEW c \in Calls, FailCall(c)
    PROVE  CallTypeOK' /\ CallInv'
BY FailedResult, ConcludeStep DEF FailCall

(* The response arrives and is parsed.                                       *)
LEMMA RecvResponseStep ==
    ASSUME Inv, NEW c \in Calls, RecvResponse(c)
    PROVE  CallTypeOK' /\ CallInv'
<1>1. reply[c] \in Replies /\ ServedInv(c) /\ pc[c] = "sent" /\ reply[c] # None
  BY Types DEF Inv, CallTypeOK, RecvResponse
<1>2. ASSUME reply[c].st # "Ok", Conclude(c, Result(reply[c].st, "null"))
      PROVE  CallTypeOK' /\ CallInv'
  <2>1. Result(reply[c].st, "null") \in Results /\ Result(reply[c].st, "null").st = reply[c].st
    BY Zenon, <1>1 DEF Replies, Result, Results
  <2>2. served[c] => reply[c].st # "Unimplemented"
    BY <1>1 DEF ServedInv
  <2>. QED
    BY <1>1, <1>2, <2>1, <2>2, ConcludeStep
<1>3. ASSUME reply[c].st = "Ok", NEW v \in Parsed(reply[c].payload),
             Conclude(c, Result(IF v = "null" THEN "Failed" ELSE "Ok", v))
      PROVE  CallTypeOK' /\ CallInv'
  <2>. DEFINE r == Result(IF v = "null" THEN "Failed" ELSE "Ok", v)
  <2>1. r \in Results /\ r.st # "Unimplemented" /\ r.value = v
    BY Zenon DEF Parsed, Result, Results, Statuses
  <2>2. r.st = "Ok" => v # "null"
    BY DEF Result
  <2>3. v # "null" => (v = "answer" <=> reply[c].payload = "answer")
    BY Zenon, <1>1 DEF Parsed, Replies
  <2>4. Fits /\ r.st = "Ok" => gave[c] = IF r.value = "answer" THEN "answer" ELSE "nothing"
    BY <1>1, <1>3, <2>1, <2>2, <2>3 DEF ServedInv
  <2>. HIDE DEF r
  <2>. QED
    BY <1>1, <1>3, <2>1, <2>4, ConcludeStep DEF r
<1>. QED
  BY <1>2, <1>3 DEF RecvResponse

(* A user callback returns to the channel's loop thread.                     *)
LEMMA CallbackReturnsStep ==
    ASSUME Inv, CallbackReturns
    PROVE  CallTypeOK' /\ CallInv'
BY Types DEF Inv, CallTypeOK, CallbackReturns, ServedInv, ToldInv, routerVars, closeVars, serverVars

(* Close sets its flag, then deletes the core channel.                       *)
LEMMA CloseStep ==
    ASSUME Inv, CloseReset \/ \E o \in {"thread", "callback"} : CloseFlag(o)
    PROVE  CallTypeOK' /\ CallInv'
<1>1. UNCHANGED othersAtClose
  BY DEF CloseReset, CloseFlag
<1>2. closed' \in BOOLEAN /\ core' \in BOOLEAN /\ closeBy' \in {None, "thread", "callback"}
  BY Zenon, Types DEF Inv, CallTypeOK, CloseReset, CloseFlag
<1>. QED
  BY <1>1, <1>2, Types DEF Inv, CallTypeOK, othersAtClose, routerVars, callerVars, serverVars,
                           ServedInv, ToldInv

-----------------------------------------------------------------------------
(* The server's loop thread *)

(* The server looks the method up.                                           *)
LEMMA RecvHeadersStep ==
    ASSUME Inv, NEW c \in Calls, RecvHeaders(c)
    PROVE  CallTypeOK' /\ CallInv'
<1>1. Find(Method[c]) \in Registrants \cup {None}
  BY Types, UnaryAssumption DEF Inv, RouterTypeOK, Maps, Find
<1>. QED
  BY <1>1, Types DEF Inv, CallTypeOK, RecvHeaders, Turn, Find, othersAtServer, callerVars,
                     closeVars, routerVars, ServedInv, ToldInv

(* A reply touches one call.                                                 *)
LEMMA ReplyOne ==
    ASSUME CallTypeOK, NEW c \in Calls, NEW st \in Statuses, NEW p \in {"answer", ""}, Reply(c, st, p)
    PROVE  /\ reply' \in [Calls -> Replies \cup {None}]
           /\ reply'[c] # None => reply'[c].st = st /\ reply'[c].payload = p
           /\ \A d \in Calls : d # c => reply'[d] = reply[d]
<1>1. [st |-> st, payload |-> p] \in Replies
  BY Zenon DEF Replies
<1>. QED
  BY Zenon, <1>1 DEF CallTypeOK, Reply

\* A step of the server on one call that keeps the facts about that call.
LEMMA ServerStep ==
    ASSUME Inv, NEW c \in Calls, UNCHANGED <<routerVars, othersAtServer, entry>>,
           NEW at \in {"none", "sent", "headers", "open", "answered", "closed"},
           Turn(c, at) \/ (at = srv[c] /\ UNCHANGED srv),
           reply' \in [Calls -> Replies \cup {None}],
           handler' \in [Calls -> {"none", "running", "left", "over"}],
           gave' \in [Calls -> {"none", "answer", "nothing", "error"}],
           crashed' \in {"no", "closed", "core", "done", "exception"},
           \A d \in Calls : d # c => reply'[d] = reply[d] /\ handler'[d] = handler[d] /\ gave'[d] = gave[d],
           pc[c] \in {"sent", "returned"},
           gave[c] # "none" => gave'[c] = gave[c],
           gave'[c] # "none" => at \in {"answered", "closed"},
           at = "headers" => at = srv[c],
           served[c] /\ reply'[c] # None => reply'[c].st # "Unimplemented",
           Fits /\ reply'[c] # None /\ reply'[c].st = "Ok" =>
              gave'[c] = IF reply'[c].payload = "answer" THEN "answer" ELSE "nothing"
    PROVE  CallTypeOK' /\ CallInv'
<1>1. /\ pc' = pc /\ served' = served /\ snapshot' = snapshot /\ told' = told /\ entry' = entry
      /\ CallTypeOK /\ UNCHANGED othersAtServer
  BY Types DEF Inv, othersAtServer, routerVars, callerVars
<1>2. srv' \in [Calls -> {"none", "sent", "headers", "open", "answered", "closed"}]
      /\ srv'[c] = at /\ \A d \in Calls : d # c => srv'[d] = srv[d]
  BY <1>1 DEF Turn, CallTypeOK
<1>3. CallTypeOK'
  BY ZenonT(30), <1>1, <1>2 DEF CallTypeOK, othersAtServer, callerVars, closeVars
<1>4. ASSUME NEW d \in Calls, d # c PROVE ServedInv(d)' /\ ToldInv(d)'
  <2>1. ServedInv(d) /\ ToldInv(d) /\ reply'[d] = reply[d] /\ handler'[d] = handler[d]
        /\ gave'[d] = gave[d] /\ srv'[d] = srv[d]
    BY ZenonT(30), <1>2, <1>4 DEF Inv
  <2>2. ServedInv(d)'
    BY ZenonT(30), <1>1, <2>1 DEF ServedInv
  <2>3. ToldInv(d)'
    BY ZenonT(30), <1>1, <2>1 DEF ToldInv
  <2>. QED
    BY <2>2, <2>3
<1>5. ServedInv(c)'
  <2>1. ServedInv(c)
    BY DEF Inv
  <2>. QED
    BY ZenonT(30), <1>1, <1>2, <2>1 DEF ServedInv
<1>6. ToldInv(c)'
  <2>1. ToldInv(c) /\ gave[c] \in {"none", "answer", "nothing", "error"}
    BY <1>1 DEF Inv, CallTypeOK
  <2>. QED
    BY ZenonT(30), <1>1, <2>1 DEF ToldInv
<1>. QED
  BY <1>3, <1>4, <1>5, <1>6

(* The request arrives and the handler is invoked.                           *)
LEMMA RecvRequestStep ==
    ASSUME Inv, NEW c \in Calls, RecvRequest(c)
    PROVE  CallTypeOK' /\ CallInv'
<1>1. /\ srv[c] = "headers" /\ CallTypeOK /\ gave' = gave /\ crashed' = crashed
      /\ UNCHANGED <<routerVars, othersAtServer, entry>>
  BY Zenon, Types DEF RecvRequest, Inv
<1>2. /\ ServedInv(c) /\ pc[c] \in {"sent", "returned"} /\ gave[c] = "none"
      /\ served[c] => entry[c] # None
  BY Zenon, <1>1 DEF Inv, CallTypeOK, ServedInv
<1>3. ASSUME NEW st \in {"Unimplemented", "Failed"}, st = "Unimplemented" => entry[c] = None,
             Reply(c, st, ""), Turn(c, "closed"), UNCHANGED handler
      PROVE  CallTypeOK' /\ CallInv'
  <2>1. /\ reply' \in [Calls -> Replies \cup {None}]
        /\ reply'[c] # None => reply'[c].st = st /\ reply'[c].payload = ""
        /\ \A d \in Calls : d # c => reply'[d] = reply[d]
    BY ZenonT(30), <1>1, <1>3, ReplyOne DEF Statuses
  <2>. QED
    BY ZenonT(30), <1>1, <1>2, <1>3, <2>1, ServerStep DEF CallTypeOK
<1>4. ASSUME Turn(c, "open"), handler' = [handler EXCEPT ![c] = "running"], UNCHANGED reply
      PROVE  CallTypeOK' /\ CallInv'
  <2>1. handler' \in [Calls -> {"none", "running", "left", "over"}]
        /\ \A d \in Calls : d # c => handler'[d] = handler[d]
    BY <1>1, <1>4 DEF CallTypeOK
  <2>. QED
    BY ZenonT(30), <1>1, <1>2, <1>4, <2>1, ServerStep DEF CallTypeOK, ServedInv
<1>. QED
  BY Zenon, <1>3, <1>4 DEF RecvRequest

\* A success with a message is sent for an answer only, and without one, when
\* responses fit in the window, for none only.
LEMMA ResponsesTrue ==
    ASSUME NEW ans \in {"answer", "nothing", "error"}, NEW r \in Responses(ans)
    PROVE  /\ r[1] \in {"Ok", "Failed"} /\ r[2] \in {"answer", ""}
           /\ Fits /\ r[1] = "Ok" => ans = IF r[2] = "answer" THEN "answer" ELSE "nothing"
<1>1. CASE ans = "error"
  <2>1. Responses(ans) = {<<"Failed", "">>}
    BY Zenon, <1>1 DEF Responses
  <2>2. r = <<"Failed", "">>
    BY Zenon, <2>1
  <2>3. r[1] = "Failed" /\ r[2] = ""
    BY Zenon, <2>2
  <2>. QED
    BY Zenon, <2>3
<1>2. CASE ans = "nothing"
  <2>1. Responses(ans) = {<<"Ok", "">>}
    BY Zenon, <1>2 DEF Responses
  <2>2. r = <<"Ok", "">>
    BY Zenon, <2>1
  <2>3. r[1] = "Ok" /\ r[2] = ""
    BY Zenon, <2>2
  <2>. QED
    BY Zenon, <1>2, <2>3
<1>3. CASE ans = "answer"
  <2>1. Responses(ans) = {<<"Ok", "answer">>, <<"Failed", "">>}
                            \cup IF Fits THEN {} ELSE {<<"Ok", "">>}
    BY Zenon, <1>3 DEF Responses
  <2>2. \/ r = <<"Ok", "answer">> \/ r = <<"Failed", "">>
        \/ ~Fits /\ r = <<"Ok", "">>
    BY Zenon, <2>1
  <2>3. ASSUME NEW st, NEW p, r = <<st, p>> PROVE r[1] = st /\ r[2] = p
    BY <2>3
  <2>4. CASE r = <<"Ok", "answer">>
    BY <1>3, <2>3, <2>4
  <2>5. CASE r = <<"Failed", "">>
    BY Zenon, <1>3, <2>3, <2>5
  <2>6. CASE ~Fits /\ r = <<"Ok", "">>
    BY ZenonT(30), <1>3, <2>3, <2>6
  <2>. QED
    BY Zenon, <2>2, <2>4, <2>5, <2>6
<1>. QED
  BY Zenon, <1>1, <1>2, <1>3

(* The `done` of a typed handler answers, or finds the call gone.            *)
LEMMA TypedDoneStep ==
    ASSUME Inv, NEW c \in Calls, NEW ans \in {"answer", "nothing", "error"},
           NEW at \in {"answered", "closed"}, TypedDone(c, ans, at), handler[c] # "none",
           handler' \in [Calls -> {"none", "running", "left", "over"}],
           \A d \in Calls : d # c => handler'[d] = handler[d]
    PROVE  CallTypeOK' /\ CallInv'
<1>1. /\ UNCHANGED <<routerVars, othersAtServer, entry>> /\ Turn(c, at) /\ CallTypeOK
      /\ crashed' \in {"no", "done"}
      /\ gave' = [gave EXCEPT ![c] = IF @ = "none" THEN ans ELSE @]
  BY ZenonT(30), Types DEF TypedDone, Inv
<1>2. /\ gave' \in [Calls -> {"none", "answer", "nothing", "error"}]
      /\ gave'[c] = IF gave[c] = "none" THEN ans ELSE gave[c]
      /\ \A d \in Calls : d # c => gave'[d] = gave[d]
  BY ZenonT(30), <1>1 DEF CallTypeOK
<1>3. ServedInv(c) /\ pc[c] \in {"sent", "returned"}
  BY DEF Inv, ServedInv
<1>4. /\ reply' \in [Calls -> Replies \cup {None}]
      /\ \A d \in Calls : d # c => reply'[d] = reply[d]
      /\ served[c] /\ reply'[c] # None => reply'[c].st # "Unimplemented"
      /\ Fits /\ reply'[c] # None /\ reply'[c].st = "Ok" =>
            gave'[c] = IF reply'[c].payload = "answer" THEN "answer" ELSE "nothing"
  <2>1. CASE srv[c] = "open"
    <3>1. PICK r \in Responses(ans) : Reply(c, r[1], r[2])
      BY <2>1 DEF TypedDone
    <3>2. /\ r[1] \in {"Ok", "Failed"} /\ r[2] \in {"answer", ""}
          /\ Fits /\ r[1] = "Ok" => ans = IF r[2] = "answer" THEN "answer" ELSE "nothing"
      BY ZenonT(30), ResponsesTrue
    <3>3. /\ reply' \in [Calls -> Replies \cup {None}]
          /\ reply'[c] # None => reply'[c].st = r[1] /\ reply'[c].payload = r[2]
          /\ \A d \in Calls : d # c => reply'[d] = reply[d]
      BY ZenonT(30), <1>1, <3>1, <3>2, ReplyOne DEF Statuses
    <3>4. gave'[c] = ans
      BY <1>2, <1>3, <2>1 DEF ServedInv
    <3>. QED
      BY Zenon, <3>2, <3>3, <3>4
  <2>2. CASE srv[c] # "open"
    <3>1. reply' = reply
      BY Zenon, <2>2 DEF TypedDone
    <3>. QED
      BY <1>1, <1>2, <1>3, <3>1 DEF CallTypeOK, ServedInv
  <2>. QED
    BY <2>1, <2>2
<1>5. /\ gave[c] # "none" => gave'[c] = gave[c]
      /\ crashed' \in {"no", "closed", "core", "done", "exception"}
      /\ at \in {"none", "sent", "headers", "open", "answered", "closed"} /\ at # "headers"
  BY <1>1, <1>2
<1>6. /\ Turn(c, at) \/ (at = srv[c] /\ UNCHANGED srv)
      /\ \A d \in Calls : d # c => /\ reply'[d] = reply[d] /\ handler'[d] = handler[d]
                                  /\ gave'[d] = gave[d]
      /\ gave'[c] # "none" => at \in {"answered", "closed"}
      /\ at = "headers" => at = srv[c]
  BY <1>1, <1>2, <1>4
<1>7. /\ UNCHANGED <<routerVars, othersAtServer, entry>>
      /\ at \in {"none", "sent", "headers", "open", "answered", "closed"}
      /\ Turn(c, at) \/ (at = srv[c] /\ UNCHANGED srv)
      /\ reply' \in [Calls -> Replies \cup {None}]
      /\ gave' \in [Calls -> {"none", "answer", "nothing", "error"}]
      /\ crashed' \in {"no", "closed", "core", "done", "exception"}
      /\ \A d \in Calls :
            d # c => reply'[d] = reply[d] /\ handler'[d] = handler[d] /\ gave'[d] = gave[d]
      /\ pc[c] \in {"sent", "returned"}
      /\ gave[c] # "none" => gave'[c] = gave[c]
      /\ gave'[c] # "none" => at \in {"answered", "closed"}
      /\ at = "headers" => at = srv[c]
      /\ served[c] /\ reply'[c] # None => reply'[c].st # "Unimplemented"
      /\ Fits /\ reply'[c] # None /\ reply'[c].st = "Ok" =>
            gave'[c] = IF reply'[c].payload = "answer" THEN "answer" ELSE "nothing"
  BY Zenon, <1>1, <1>2, <1>3, <1>4, <1>5, <1>6
<1>. HIDE DEF CallInv
<1>. QED
  BY ZenonT(30), <1>7, ServerStep

(* A handler answers, returns, throws or answers late.                       *)
LEMMA HandlerStep ==
    ASSUME Inv, NEW c \in Calls,
           \/ HandlerReturns(c) \/ HandlerThrows(c)
           \/ \E ans \in Answers : HandlerDone(c, ans) \/ DoneLater(c, ans)
    PROVE  CallTypeOK' /\ CallInv'
<1>1. CallTypeOK /\ handler[c] \in {"running", "left"} /\ ServedInv(c)
  BY Types DEF Inv, HandlerReturns, HandlerThrows, HandlerDone, DoneLater
<1>2. /\ handler' \in [Calls -> {"none", "running", "left", "over"}]
      /\ \A d \in Calls : d # c => handler'[d] = handler[d]
  BY ZenonT(30), <1>1 DEF CallTypeOK, HandlerReturns, HandlerThrows, HandlerDone, DoneLater
<1>3. pc[c] \in {"sent", "returned"}
  BY <1>1 DEF ServedInv
<1>4. ASSUME NEW ans \in {"answer", "nothing", "error"}, NEW at \in {"answered", "closed"},
             TypedDone(c, ans, at)
      PROVE  CallTypeOK' /\ CallInv'
  BY <1>1, <1>2, <1>4, TypedDoneStep
<1>5. CASE \E ans \in Answers : HandlerDone(c, ans) \/ DoneLater(c, ans)
  BY <1>4, <1>5, UnaryAssumption DEF HandlerDone, DoneLater
<1>6. ASSUME UNCHANGED <<routerVars, othersAtServer, entry>>, srv' = srv, reply' = reply, gave' = gave,
             crashed' \in {"no", "closed", "core", "done", "exception"}
      PROVE  CallTypeOK' /\ CallInv'
  <2>1. srv[c] \in {"none", "sent", "headers", "open", "answered", "closed"}
    BY <1>1 DEF CallTypeOK
  <2>2. /\ reply' \in [Calls -> Replies \cup {None}]
        /\ gave' \in [Calls -> {"none", "answer", "nothing", "error"}]
    BY ZenonT(30), <1>1, <1>6 DEF CallTypeOK
  <2>3. gave'[c] # "none" => srv[c] \in {"answered", "closed"}
    BY <1>1, <1>6 DEF ServedInv
  <2>4. /\ served[c] /\ reply'[c] # None => reply'[c].st # "Unimplemented"
        /\ Fits /\ reply'[c] # None /\ reply'[c].st = "Ok" =>
              gave'[c] = IF reply'[c].payload = "answer" THEN "answer" ELSE "nothing"
    BY <1>1, <1>6 DEF ServedInv
  <2>. QED
    BY <1>2, <1>3, <1>6, <2>1, <2>2, <2>3, <2>4, ServerStep
<1>7. CASE HandlerReturns(c)
  <2>1. /\ UNCHANGED <<routerVars, othersAtServer, entry>>
        /\ reply' = reply /\ gave' = gave /\ crashed' = crashed
        /\ (srv[c] = "answered" /\ Turn(c, "closed")) \/ UNCHANGED srv
    BY <1>7 DEF HandlerReturns
  <2>2. CASE srv[c] = "answered" /\ Turn(c, "closed")
    BY ZenonT(30), <1>1, <1>2, <1>3, <2>1, <2>2, ServerStep DEF CallTypeOK, ServedInv
  <2>3. CASE UNCHANGED srv
    <3>1. crashed' \in {"no", "closed", "core", "done", "exception"}
      BY <1>1, <2>1 DEF CallTypeOK
    <3>. QED
      BY <1>6, <2>1, <2>3, <3>1
  <2>. QED
    BY <2>1, <2>2, <2>3
<1>8. CASE HandlerThrows(c)
  <2>1. CASE TypedDone(c, "error", "closed")
    BY <1>4, <2>1
  <2>2. CASE crashed' = "exception" /\ UNCHANGED <<othersAtServer, routerVars, srv, entry, reply, gave>>
    BY <1>6, <2>2
  <2>. QED
    BY <1>8, <2>1, <2>2 DEF HandlerThrows
<1>. QED
  BY <1>5, <1>7, <1>8

(* The client gives up.                                                      *)
LEMMA RecvResetStep ==
    ASSUME Inv, NEW c \in Calls, RecvReset(c)
    PROVE  CallTypeOK' /\ CallInv'
<1>1. /\ UNCHANGED <<routerVars, othersAtServer, entry>> /\ Turn(c, "closed")
      /\ handler' = handler /\ reply' = reply /\ gave' = gave /\ crashed' = crashed
      /\ srv[c] \in {"sent", "headers", "open"} /\ CallTypeOK
  BY ZenonT(30), Types DEF RecvReset, Inv
<1>2. ServedInv(c) /\ pc[c] \in {"sent", "returned"}
  BY <1>1 DEF Inv, ServedInv
<1>. QED
  BY Zenon, <1>1, <1>2, ServerStep DEF CallTypeOK, ServedInv

-----------------------------------------------------------------------------
(* The invariant *)

(* Nothing is registered and nobody has called.                              *)
LEMMA InitInv == Init => Inv
<1>. SUFFICES ASSUME Init PROVE Inv
  OBVIOUS
<1>1. \A s \in Registrants : Len(Service[s]) \in Nat
  BY RouterAssumption, LenProperties
<1>2. RouterTypeOK
  BY <1>1 DEF Init, RouterInit, RouterTypeOK, Maps, Empty
<1>3. RouterInv
  BY DEF Init, RouterInit, RouterInv
<1>4. CallTypeOK
  <2>1. <<>> \in Seq(Results)
    OBVIOUS
  <2>. QED
    BY Zenon, <2>1 DEF Init, CallTypeOK
<1>5. CallInv
  <2>1. DOMAIN <<>> = {}
    OBVIOUS
  <2>. QED
    BY <2>1 DEF Init, ServedInv, ToldInv
<1>. QED
  BY <1>2, <1>3, <1>4, <1>5, Types DEF Inv

(* The types after a step.                                                   *)
LEMMA TypesNext == RouterTypeOK' /\ CallTypeOK' => TypeOK'
BY Zenon DEF TypeOK, CallTypeOK

\* A registration changes nothing but the Router.
LEMMA PublishStep ==
    ASSUME Inv, Publish
    PROVE  Inv'
<1>1. /\ RouterTypeOK' /\ RouterInv'
      /\ \A m \in Methods : snapshot[m] # None => snapshot'[m] # None
  BY Types, RouterStep DEF Inv, Publish
<1>2. CallTypeOK'
  BY Types DEF Inv, CallTypeOK, Publish, othersAtRouter, closeVars, callerVars, serverVars
<1>3. ASSUME NEW c \in Calls PROVE ServedInv(c)' /\ ToldInv(c)'
  <2>1. Method[c] \in Methods
    BY UnaryAssumption
  <2>. QED
    BY <1>1, <2>1 DEF Inv, Publish, othersAtRouter, callerVars, serverVars, ServedInv, ToldInv
<1>. QED
  BY <1>1, <1>2, <1>3, TypesNext DEF Inv

(* Every step keeps the invariant.                                           *)
LEMMA NextInv == Inv /\ [Next]_vars => Inv'
<1>. SUFFICES ASSUME Inv, [Next]_vars PROVE Inv'
  OBVIOUS
<1>1. ASSUME CallTypeOK' /\ CallInv', UNCHANGED routerVars PROVE Inv'
  BY <1>1, Types, TypesNext, RouterStays DEF Inv
<1>2. ASSUME NEW c \in Calls, NEW f \in {"sync", "async"}, NEW o \in {"thread", "handler", "callback"},
             Begin(c, f, o)
      PROVE  Inv'
  <2>1. UNCHANGED routerVars
    BY <1>2 DEF Begin
  <2>. QED
    BY <1>1, <1>2, <2>1, BeginStep
<1>3. ASSUME NEW c \in Calls, Caller(c) PROVE Inv'
  <2>1. UNCHANGED routerVars
    BY <1>3 DEF Caller, CallAsync, ChannelCallRaw, othersAtCaller
  <2>. QED
    BY <1>1, <1>3, <2>1, CallAsyncStep, ChannelCallRawStep DEF Caller
<1>4. ASSUME NEW c \in Calls, FailCall(c) PROVE Inv'
  <2>1. UNCHANGED routerVars
    BY <1>4 DEF FailCall, Conclude
  <2>. QED
    BY <1>1, <1>4, <2>1, FailCallStep
<1>5. CASE ChannelLoop
  <2>1. UNCHANGED routerVars
    BY <1>5 DEF ChannelLoop, Send, RecvResponse, CallbackReturns, Conclude
  <2>. QED
    BY ZenonT(30), <1>1, <1>5, <2>1, SendStep, RecvResponseStep, CallbackReturnsStep DEF ChannelLoop
<1>6. CASE ServerLoop
  <2>1. UNCHANGED routerVars
    BY Zenon, <1>6 DEF ServerLoop, RecvHeaders, RecvRequest, RecvReset, HandlerReturns, HandlerThrows,
                HandlerDone, DoneLater, TypedDone
  <2>. QED
    BY <1>1, <1>6, <2>1, RecvHeadersStep, RecvRequestStep, RecvResetStep, HandlerStep DEF ServerLoop
<1>7. CASE CloseReset \/ \E o \in {"thread", "callback"} : CloseFlag(o)
  <2>1. UNCHANGED routerVars
    BY <1>7 DEF CloseReset, CloseFlag, othersAtClose
  <2>. QED
    BY <1>1, <1>7, <2>1, CloseStep
<1>8. CASE Publish
  BY <1>8, PublishStep
<1>9. CASE UNCHANGED vars
  <2>1. UNCHANGED <<routerVars, closeVars, callerVars, serverVars, crashed>>
    BY ZenonT(30), <1>9 DEF vars
  <2>2. CallTypeOK' /\ CallInv'
    <3>1. CallTypeOK /\ \A c \in Calls : ServedInv(c) /\ ToldInv(c)
      BY Zenon, Types DEF Inv
    <3>2. CallTypeOK'
      BY Zenon, <2>1, <3>1 DEF CallTypeOK, closeVars, callerVars, serverVars
    <3>3. ASSUME NEW c \in Calls PROVE ServedInv(c)' /\ ToldInv(c)'
      BY Zenon, <2>1, <3>1 DEF callerVars, serverVars, routerVars, ServedInv, ToldInv
    <3>. QED
      BY Zenon, <3>2, <3>3
  <2>. QED
    BY <1>1, <2>1, <2>2
<1>. QED
  BY <1>2, <1>3, <1>4, <1>5, <1>6, <1>7, <1>8, <1>9 DEF Next

(* It holds in every reachable state.                                        *)
LEMMA InvHolds == Spec => []Inv
BY InitInv, NextInv, PTL DEF Spec

-----------------------------------------------------------------------------
(* Theorems *)

(* However many threads register however many services while calls begin, a  *)
(* call that began after its method's RegisterService returned Ok is never   *)
(* answered UNIMPLEMENTED: the copy-and-swap of the Router loses no entry.   *)
THEOREM PublishedIsServedCorrect == Spec => []PublishedIsServed
<1>1. Inv => PublishedIsServed
  BY Types DEF Inv, CallTypeOK, ToldInv, PublishedIsServed
<1>. QED
  BY <1>1, InvHolds, PTL

(* When responses fit in the peer's window, a Result that is ok() is what    *)
(* the handler of that call answered, for any number of concurrent calls,    *)
(* handlers that answer late or throw, resets and a Close at any moment.     *)
THEOREM OkIsTheAnswerCorrect ==
    ASSUME Fits
    PROVE  Spec => []OkIsTheAnswer
<1>1. Inv => OkIsTheAnswer
  BY Zenon DEF Inv, ToldInv, OkIsTheAnswer
<1>. QED
  BY <1>1, InvHolds, PTL

\* What the owners of the calls have seen.
Events == [c \in Calls |-> [k \in DOMAIN told[c] |-> told[c][k].st]]
Issued == {c \in Calls : pc[c] # "idle"}

\* A step that tells nothing and begins no call.
LEMMA QuietPromise ==
    ASSUME told' = told, \A c \in Calls : pc'[c] = "idle" <=> pc[c] = "idle"
    PROVE  UNCHANGED Promise!vars
<1>1. Events' = Events
  BY DEF Events
<1>2. Issued' = Issued
  BY DEF Issued
<1>. QED
  BY <1>1, <1>2 DEF Promise!vars, Events, Issued

\* A step that tells one call of its Result.
LEMMA TellPromise ==
    ASSUME Inv, NEW c \in Calls, pc[c] \notin {"idle", "returned"}, NEW r \in Results,
           Tell(c, r), Goto(c, "returned")
    PROVE  Promise!Notify({c})
<1>1. CallTypeOK /\ told[c] = <<>> /\ r.st \in Statuses
  BY Types DEF Inv, ToldInv, Results
<1>2. /\ told'[c] = <<r>> /\ DOMAIN told'[c] = {1} /\ told'[c][1] = r
      /\ \A d \in Calls \ {c} : told'[d] = told[d]
  BY <1>1, TellOne
<1>3. Issued' = Issued /\ c \in Issued
  BY <1>1 DEF Issued, Goto, CallTypeOK
<1>4. Events[c] = <<>>
  <2>1. DOMAIN told[c] = {}
    BY <1>1
  <2>. QED
    BY <2>1 DEF Events
<1>5. Events'[c] = <<r.st>>
  <2>1. Events'[c] = [k \in {1} |-> told'[c][k].st]
    BY <1>2 DEF Events
  <2>2. <<r.st>> = [k \in {1} |-> r.st]
    OBVIOUS
  <2>. QED
    BY <1>2, <2>1, <2>2
<1>6. \A d \in Calls \ {c} : Events'[d] = Events[d]
  BY <1>2 DEF Events
<1>. DEFINE heard == [d \in {c} |-> r.st]
<1>7. heard \in [{c} -> Statuses \cup {"message"}] /\ heard[c] = r.st
  BY <1>1
<1>8. Append(Events[c], heard[c]) = <<r.st>>
  BY <1>4, <1>7
<1>. HIDE DEF heard
<1>9. Events' = [d \in Calls |-> IF d \in {c} THEN Append(Events[d], heard[d]) ELSE Events[d]]
  <2>1. Events' = [d \in Calls |-> Events'[d]]
    BY DEF Events
  <2>. QED
    BY Zenon, <1>5, <1>6, <1>8, <2>1
<1>10. \A k \in DOMAIN Events[c] : Events[c][k] \notin Statuses
  BY <1>4
<1>11. {c} \subseteq Issued
  BY <1>3
<1>. QED
  BY Zenon, <1>3, <1>7, <1>9, <1>10, <1>11 DEF Promise!Notify, Promise!Ended, Events, Issued

\* A step that begins a call.
LEMMA BeginPromise ==
    ASSUME Inv, NEW c \in Calls, NEW f \in {"sync", "async"},
           NEW o \in {"thread", "handler", "callback"}, Begin(c, f, o)
    PROVE  Promise!Issue(c)
<1>1. c \notin Issued /\ Issued' = Issued \cup {c}
  BY Types DEF Inv, CallTypeOK, Begin, Goto, Issued
<1>2. Events' = Events
  BY DEF Begin, Events
<1>. QED
  BY ZenonT(30), <1>1, <1>2 DEF Promise!Issue, Events, Issued

(* Every step is one of CallPromise, or a stutter.                           *)
LEMMA NextPromise == Inv /\ [Next]_vars => [Promise!Next]_(Promise!vars)
<1>. SUFFICES ASSUME Inv, [Next]_vars PROVE [Promise!Next]_(Promise!vars)
  OBVIOUS
<1>. USE DEF Promise!Next
<1>1. CallTypeOK
  BY Types DEF Inv
<1>2. ASSUME NEW c \in Calls, NEW f \in {"sync", "async"}, NEW o \in {"thread", "handler", "callback"},
             Begin(c, f, o)
      PROVE  Promise!Next
  BY <1>2, BeginPromise
<1>3. ASSUME NEW c \in Calls, pc[c] \notin {"idle", "returned"}, NEW r \in Results,
             Tell(c, r), Goto(c, "returned")
      PROVE  Promise!Next
  <2>1. Promise!Notify({c}) /\ {c} \in SUBSET Calls
    BY <1>3, TellPromise
  <2>. QED
    BY <2>1
<1>4. ASSUME NEW c \in Calls, NEW at \in {"encoded", "posted", "sent"}, pc[c] # "idle",
             Goto(c, at), told' = told
      PROVE  UNCHANGED Promise!vars
  <2>1. \A d \in Calls : pc'[d] = "idle" <=> pc[d] = "idle"
    BY ZenonT(30), <1>1, <1>4 DEF Goto, CallTypeOK
  <2>. QED
    BY <1>4, <2>1, QuietPromise
<1>5. ASSUME NEW c \in Calls, CallAsync(c) PROVE [Promise!Next]_(Promise!vars)
  <2>1. CASE FailAtOnce(c)
    BY ZenonT(30), <1>3, <1>5, <2>1, FailedResult DEF FailAtOnce, CallAsync
  <2>2. CASE Goto(c, "encoded") /\ UNCHANGED told
    BY <1>4, <1>5, <2>2 DEF CallAsync
  <2>. QED
    BY <1>5, <2>1, <2>2 DEF CallAsync
<1>6. ASSUME NEW c \in Calls, ChannelCallRaw(c) \/ Send(c) PROVE UNCHANGED Promise!vars
  BY <1>4, <1>6 DEF ChannelCallRaw, Send
<1>7. ASSUME NEW c \in Calls, FailCall(c) PROVE Promise!Next
  BY ZenonT(30), <1>3, <1>7, FailedResult DEF FailCall, Conclude
<1>8. ASSUME NEW c \in Calls, RecvResponse(c) PROVE Promise!Next
  <2>1. PICK r \in Results : Conclude(c, r)
    <3>1. reply[c] \in Replies
      BY <1>1, <1>8 DEF RecvResponse, CallTypeOK
    <3>2. CASE reply[c].st # "Ok" /\ Conclude(c, Result(reply[c].st, "null"))
      BY Zenon, <3>1, <3>2 DEF Replies, Results, Result
    <3>3. ASSUME NEW v \in Parsed(reply[c].payload),
                 Conclude(c, Result(IF v = "null" THEN "Failed" ELSE "Ok", v))
          PROVE  \E r \in Results : Conclude(c, r)
      <4>1. Result(IF v = "null" THEN "Failed" ELSE "Ok", v) \in Results
        BY Zenon DEF Parsed, Result, Results, Statuses
      <4>. QED
        BY <3>3, <4>1
    <3>. QED
      BY <1>8, <3>2, <3>3 DEF RecvResponse
  <2>. QED
    BY ZenonT(30), <1>3, <1>8, <2>1 DEF RecvResponse, Conclude
<1>9. ASSUME told' = told, pc' = pc PROVE UNCHANGED Promise!vars
  BY <1>9, QuietPromise
<1>10. CASE CallbackReturns \/ CloseReset \/ \E o \in {"thread", "callback"} : CloseFlag(o)
  BY <1>9, <1>10 DEF CallbackReturns, CloseReset, CloseFlag, othersAtClose, callerVars
<1>11. CASE ServerLoop
  BY Zenon, <1>9, <1>11 DEF ServerLoop, RecvHeaders, RecvRequest, RecvReset, HandlerReturns, HandlerThrows,
                     HandlerDone, DoneLater, TypedDone, othersAtServer, callerVars
<1>12. CASE Publish
  BY <1>9, <1>12 DEF Publish, othersAtRouter, callerVars
<1>13. CASE UNCHANGED vars
  BY <1>9, <1>13 DEF vars, callerVars
<1>. QED
  BY <1>2, <1>5, <1>6, <1>7, <1>8, <1>10, <1>11, <1>12, <1>13 DEF Next, Caller, ChannelLoop

(* The typed calls implement the promise of a channel: whatever closes,      *)
(* throws, does not encode or does not parse, the owner of a call is told    *)
(* one Result and never a second.                                            *)
THEOREM TypedPromiseKept == Spec => TypedPromise
<1>1. Init => Promise!Init
  <2>. SUFFICES ASSUME Init PROVE Promise!Init
    OBVIOUS
  <2>1. Issued = {}
    BY DEF Init, Issued
  <2>2. Events = [c \in Calls |-> <<>>]
    BY DEF Init, Events
  <2>. QED
    BY <2>1, <2>2 DEF Promise!Init, Events, Issued
<1>. QED
  BY <1>1, NextPromise, InvHolds, PTL DEF Spec, TypedPromise, Promise!Spec
=============================================================================
