---------------------------- MODULE CallPromise ----------------------------
(***************************************************************************)
(* What a uRPC client channel promises its callers, whatever the network   *)
(* does (channel.h: "`done` fires exactly once", "on_message fires per     *)
(* response message in order; on_complete fires exactly once").            *)
(*                                                                         *)
(* A call is started once.  While it is open it may be handed messages;    *)
(* at some point it is handed one terminal status, and after that nothing. *)
(* A single event of the channel (a lost connection) may end many calls.   *)
(***************************************************************************)
EXTENDS Sequences

CONSTANTS Ids,      \* call ids handed out by the channel
          Status,   \* terminal statuses
          Message   \* the event "one response message"

VARIABLES issued,   \* the calls started so far
          events    \* per call, the callbacks its owner has seen

vars == <<issued, events>>

\* The owner of i has been told how the call ended.
Ended(i) == \E k \in DOMAIN events[i] : events[i][k] \in Status

Init ==
    /\ issued = {}
    /\ events = [i \in Ids |-> <<>>]

Issue(i) ==
    /\ i \in Ids \ issued
    /\ issued' = issued \cup {i}
    /\ UNCHANGED events

\* Every call in S hears one thing, and none of them had ended before.
Notify(S) ==
    /\ S \subseteq issued
    /\ \A i \in S : ~Ended(i)
    /\ \E heard \in [S -> Status \cup {Message}] :
          events' = [i \in Ids |-> IF i \in S THEN Append(events[i], heard[i])
                                             ELSE events[i]]
    /\ UNCHANGED issued

Next ==
    \/ \E i \in Ids : Issue(i)
    \/ \E S \in SUBSET Ids : Notify(S)

Spec == Init /\ [][Next]_vars
=============================================================================
