-------------------------------- MODULE Codec --------------------------------
(***************************************************************************)
(* Message framing (urpc_codec.cpp): EncodeFrame, and FrameDecoder, which  *)
(* is fed the bytes of a stream in whatever pieces the network cuts them.  *)
(*                                                                         *)
(* A byte is a digit below Base (256 in the code) and a length is written  *)
(* with LenBytes of them, most significant first (4 in the code).          *)
(***************************************************************************)
EXTENDS Integers, Sequences, SequencesExt

CONSTANTS
    Base,             \* number of byte values
    LenBytes,         \* bytes of the length field
    MaxMessageSize,   \* max_message_size_
    MaxWire           \* bound: bytes fed in all

ASSUME ConstantsAssumption ==
    /\ Base \in Nat \ {0, 1} /\ LenBytes \in Nat \ {0}
    /\ MaxMessageSize \in Nat /\ MaxWire \in Nat

VARIABLES
    buffer,        \* buffer_: bytes not yet used
    have_header,   \* have_header_
    needed,        \* needed_: payload bytes of the message at hand
    messages,      \* messages_: decoded, not yet taken
    status,        \* what the last Consume returned
    fed,           \* history: all bytes fed
    taken          \* history: messages handed out by TakeMessage

vars == <<buffer, have_header, needed, messages, status, fed, taken>>

Byte == 0..(Base - 1)
kPrefixLen == 1 + LenBytes
Messages == BoundedSeq(Byte, MaxMessageSize)

(* The types; and between calls the decoder holds less than one header or    *)
(* one message, so its memory is bounded by the limit (FR-007, Consume).     *)
TypeOK ==
    /\ buffer \in Seq(Byte) /\ fed \in Seq(Byte)
    /\ have_header \in BOOLEAN
    /\ needed \in 0..MaxMessageSize
    /\ \A m \in Range(messages) \cup Range(taken) : m \in Messages
    /\ status \in {"Ok", "Internal", "ResourceExhausted"}
    /\ status = "Ok" => Len(buffer) < (IF have_header THEN needed ELSE kPrefixLen)

Init ==
    /\ buffer = <<>> /\ have_header = FALSE /\ needed = 0 /\ messages = <<>>
    /\ status = "Ok" /\ fed = <<>> /\ taken = <<>>

-----------------------------------------------------------------------------
(* The wire format *)

\* The length field keeps the low LenBytes digits of v, as the cast does.
AppendU32BE(v) == [i \in 1..LenBytes |-> (v \div Base^(LenBytes - i)) % Base]

EncodeFrame(msg) == <<0>> \o AppendU32BE(Len(msg)) \o msg

ReadU32BE(p) == FoldLeft(LAMBDA v, b : v * Base + b, 0, p)

-----------------------------------------------------------------------------
(* FrameDecoder *)

\* Bug variant of TooLong: off by one.
TooLongOff(mlen) == mlen >= MaxMessageSize

TooLong(mlen) == mlen > MaxMessageSize

Complete(d) == Len(d.buffer) >= d.needed

\* The header of the next message: accepted, or refused and left where it is.
ReadHeader(d) ==
    LET mlen == ReadU32BE(SubSeq(d.buffer, 2, kPrefixLen))
    IN  IF d.buffer[1] # 0 THEN [d EXCEPT !.status = "Internal"]
        ELSE IF TooLong(mlen) THEN [d EXCEPT !.status = "ResourceExhausted"]
        ELSE [d EXCEPT !.needed = mlen, !.have_header = TRUE,
                       !.buffer = SubSeq(@, kPrefixLen + 1, Len(@))]

PushMessage(d) ==
    [d EXCEPT !.messages = Append(@, SubSeq(d.buffer, 1, d.needed)),
              !.buffer = SubSeq(@, d.needed + 1, Len(@)),
              !.have_header = FALSE, !.needed = 0]

RECURSIVE Drain(_)
Drain(d) ==
    IF d.have_header
    THEN IF Complete(d) THEN Drain(PushMessage(d)) ELSE d
    ELSE IF Len(d.buffer) < kPrefixLen THEN d
    ELSE LET h == ReadHeader(d) IN IF h.status = "Ok" THEN Drain(h) ELSE h

Consume(data) ==
    LET d == Drain([buffer |-> buffer \o data, have_header |-> have_header,
                    needed |-> needed, messages |-> messages, status |-> "Ok"])
    IN  /\ buffer' = d.buffer /\ have_header' = d.have_header
        /\ needed' = d.needed /\ messages' = d.messages /\ status' = d.status
        /\ fed' = fed \o data
        /\ UNCHANGED taken

\* Only called when HasMessage.
TakeMessage ==
    /\ messages # <<>>
    /\ messages' = Tail(messages)
    /\ taken' = Append(taken, Head(messages))
    /\ UNCHANGED <<buffer, have_header, needed, status, fed>>

Next ==
    \/ \E n \in 0..(MaxWire - Len(fed)) : \E data \in [1..n -> Byte] : Consume(data)
    \/ TakeMessage

Spec == Init /\ [][Next]_vars

-----------------------------------------------------------------------------
(* Reference: what a stream of bytes means *)

Wire(ms) == FlattenSeq([i \in DOMAIN ms |-> EncodeFrame(ms[i])])

\* The longest sequence of messages whose encoding the bytes begin with.
Decoded(w) ==
    LET fits == {ms \in BoundedSeq(Messages, Len(w) \div kPrefixLen) :
                   IsPrefix(Wire(ms), w)}
    IN  CHOOSE ms \in fits : \A other \in fits : Len(other) <= Len(ms)

\* What follows those messages: a header that must be refused, or not.
Verdict(w) ==
    LET rest == SubSeq(w, Len(Wire(Decoded(w))) + 1, Len(w))
    IN  IF Len(rest) < kPrefixLen THEN "Ok"
        ELSE IF rest[1] # 0 THEN "Internal"
        ELSE IF \E n \in 0..MaxMessageSize : SubSeq(rest, 2, kPrefixLen) = AppendU32BE(n)
             THEN "Ok" ELSE "ResourceExhausted"

(* However the bytes are cut into pieces and whenever messages are taken,   *)
(* FrameDecoder::Consume yields the messages whose encoding by EncodeFrame  *)
(* was received, in order, and refuses exactly a bad flag or a length over  *)
(* the limit.                                                               *)
DecodesTheWire == taken \o messages = Decoded(fed) /\ status = Verdict(fed)
=============================================================================
