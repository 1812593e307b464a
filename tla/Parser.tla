------------------------------- MODULE Parser -------------------------------
(***************************************************************************)
(* Parser::run over a mapped file: a loop that takes one frame, a big-     *)
(* endian length and a payload, off the buffer, counts it in Stats and     *)
(* hands it to the handler of its type.  One action per way through the    *)
(* loop.                                                                   *)
(*                                                                         *)
(* The handlers differ in the size of their message and in whether they    *)
(* pass it on to the engine; a call of the engine is remembered as the     *)
(* type and the offset of the message whose fields it decodes.             *)
(*                                                                         *)
(* A file is a feed cut off anywhere.  Next to its bytes it has the        *)
(* payloads the sender framed, for the properties only.  Clocks and the    *)
(* printed report are left out.                                            *)
(***************************************************************************)
EXTENDS Integers, Sequences

CONSTANTS
    Base,      \* values of a byte, 256 in the code
    Size,      \* sizeof the message, for each type dispatch knows
    Forwarded, \* the types whose handler calls the engine
    Feeds      \* the feeds a file may come from: payloads sent, bytes on the wire

Bytes == 0..(Base - 1)
Known == DOMAIN Size

ASSUME BasePositive == Base \in Nat \ {0}
ASSUME TypesAreBytes == Known \subseteq Bytes /\ Forwarded \subseteq Known
ASSUME MessagesHaveTypes == Size \in [Known -> Nat \ {0}]
ASSUME FeedsAreBytes == \A f \in Feeds : f.bytes \in Seq(Bytes)

VARIABLES
    file,    \* what is mapped
    p,       \* p - buf
    running, \* whether run has not returned
    stats,   \* Stats
    calls    \* the calls of the engine so far

vars == <<file, p, running, stats, calls>>

buf == file.bytes
len == Len(buf)

\* MUTANT: no byte swap.
LoadLe16(at) == buf[at + 2] * Base + buf[at + 1]

load_be16(at) == buf[at + 1] * Base + buf[at + 2]

payload_len == load_be16(p)

Init ==
    /\ \E f \in Feeds : \E n \in 0..Len(f.bytes) :
            file = [sent |-> f.sent, bytes |-> SubSeq(f.bytes, 1, n)]
    /\ p = 0 /\ running = TRUE
    /\ stats = [per_type |-> [t \in Bytes |-> 0], total_messages |-> 0,
                total_bytes |-> 0, total_framing_bytes |-> 0,
                parse_errors |-> 0, truncated_messages |-> 0]
    /\ calls = <<>>

on_message(s, type, n) ==
    [s EXCEPT !.per_type[type] = @ + 1,
              !.total_messages = @ + 1,
              !.total_bytes = @ + n,
              !.total_framing_bytes = @ + 2]

on_parse_error(s) == [s EXCEPT !.parse_errors = @ + 1]

on_truncated(s) == [s EXCEPT !.truncated_messages = @ + 1]

\* MUTANT: one byte short is good enough.
CastOffByOne(type, n) == n + 1 >= Size[type]

(* checked_cast succeeds. *)
checked_cast(type, n) == n >= Size[type]

-----------------------------------------------------------------------------
(* A prefix that promises more than there is ends the run behind it.       *)
TrailingFrame ==
    /\ running
    /\ p + 2 <= len
    /\ p + 2 + payload_len > len
    /\ p' = p + 2
    /\ running' = FALSE
    /\ stats' = on_parse_error(stats)
    /\ UNCHANGED <<file, calls>>

\* MUTANT: does not count it.
EmptyFrameSilent ==
    /\ running
    /\ p + 2 <= len
    /\ payload_len = 0
    /\ p' = p + 2
    /\ UNCHANGED <<file, running, stats, calls>>

(* A frame without a type byte.                                            *)
EmptyFrame ==
    /\ running
    /\ p + 2 <= len
    /\ payload_len = 0
    /\ p' = p + 2
    /\ stats' = on_parse_error(stats)
    /\ UNCHANGED <<file, running, calls>>

(* What dispatch does with a payload of n bytes at p + 2, once on_message  *)
(* made s of the counters.                                                 *)
Unknown(s, type) ==
    /\ type \notin Known
    /\ stats' = on_parse_error(s)
    /\ UNCHANGED calls

Truncated(s, type, n) ==
    /\ type \in Known /\ ~checked_cast(type, n)
    /\ stats' = on_truncated(s)
    /\ UNCHANGED calls

(* The handlers that only look at the message.                             *)
Inform(s, type, n) ==
    /\ type \in Known \ Forwarded /\ checked_cast(type, n)
    /\ stats' = s
    /\ UNCHANGED calls

(* The handlers that decode it for the engine.                             *)
Forward(s, type, n) ==
    /\ type \in Forwarded /\ checked_cast(type, n)
    /\ stats' = s
    /\ calls' = Append(calls, [type |-> type, at |-> p + 2])

Dispatch ==
    LET n == payload_len
        type == buf[p + 3]
        counted == on_message(stats, type, n)
    IN  /\ running
        /\ p + 2 <= len
        /\ n > 0 /\ p + 2 + n <= len
        /\ p' = p + 2 + n
        /\ \/ Unknown(counted, type)
           \/ Truncated(counted, type, n)
           \/ Inform(counted, type, n)
           \/ Forward(counted, type, n)
        /\ UNCHANGED <<file, running>>

(* Less than a prefix is left.                                             *)
Return ==
    /\ running
    /\ p + 2 > len
    /\ running' = FALSE
    /\ UNCHANGED <<file, p, stats, calls>>

Next == TrailingFrame \/ EmptyFrame \/ Dispatch \/ Return

Spec == Init /\ [][Next]_vars

-----------------------------------------------------------------------------
(* Properties.                                                             *)

Counters ==
    [per_type : [Bytes -> Nat], total_messages : Nat, total_bytes : Nat,
     total_framing_bytes : Nat, parse_errors : Nat, truncated_messages : Nat]

(* Every variable has its type.                                            *)
TypeOK ==
    /\ buf \in Seq(Bytes)
    /\ p \in Nat
    /\ running \in BOOLEAN
    /\ stats \in Counters
    /\ calls \in Seq([type : Forwarded, at : Nat])

(* The fields the engine is called with lie inside the buffer and inside   *)
(* their own frame: the next message, prefix included, begins behind them. *)
CallsStayInFrame ==
    /\ p <= len
    /\ \A i \in DOMAIN calls :
        LET behind == calls[i].at + Size[calls[i].type]
        IN  /\ behind <= p
            /\ i < Len(calls) => behind + 2 <= calls[i + 1].at

(* What the report says of bytes, messages and errors explains how far run *)
(* came: what it read without counting are the prefixes of frames it       *)
(* reported as errors, and a run without errors has read all but at most   *)
(* one byte.                                                               *)
ReportExplainsBytes ==
    LET counted == stats.total_bytes + stats.total_framing_bytes
    IN  /\ stats.total_framing_bytes = 2 * stats.total_messages
        /\ counted <= p /\ p <= counted + 2 * stats.parse_errors
        /\ Len(calls) + stats.truncated_messages <= stats.total_messages
        /\ ~running /\ stats.parse_errors = 0 => len - p < 2

(* Where each payload begins when it is framed behind those before it,     *)
(* and one more for what would come next.                                  *)
Starts(sent) ==
    LET start[i \in 1..(Len(sent) + 1)] ==
            IF i = 1 THEN 2 ELSE start[i - 1] + Len(sent[i - 1]) + 2
    IN  start

(* The bytes of a feed are its payloads, each behind its length, and       *)
(* nothing else.  Only FeedDelivered needs feeds like that.                *)
IsFramed(f) ==
    LET start == Starts(f.sent)
    IN  /\ f.sent \in Seq(Seq(Bytes))
        /\ Len(f.bytes) = start[Len(f.sent) + 1] - 2
        /\ \A i \in DOMAIN f.sent :
              /\ f.bytes[start[i] - 1] * Base + f.bytes[start[i]] = Len(f.sent[i])
              /\ \A k \in DOMAIN f.sent[i] : f.bytes[start[i] + k] = f.sent[i][k]

(* The messages the engine should hear of: of a type it handles, long      *)
(* enough, and whole in the file.                                          *)
Due ==
    {i \in DOMAIN file.sent :
        LET message == file.sent[i]
        IN  /\ message # <<>>
            /\ message[1] \in Forwarded
            /\ Len(message) >= Size[message[1]]
            /\ Starts(file.sent)[i] + Len(message) <= len}

CallFor(i) == [type |-> file.sent[i][1], at |-> Starts(file.sent)[i]]

(* The engine is called for exactly the messages that are due, for each    *)
(* once and in the order they were sent.  Empty, short and unknown         *)
(* messages on the way never make the parser lose the frame boundaries.    *)
FeedDelivered ==
    ~running =>
        /\ {calls[k] : k \in DOMAIN calls} = {CallFor(i) : i \in Due}
        /\ \A k \in 1..(Len(calls) - 1) : calls[k].at < calls[k + 1].at

=============================================================================
