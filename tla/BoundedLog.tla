----------------------------- MODULE BoundedLog -----------------------------
(***************************************************************************)
(* What a user of the logger may rely on: a queue of at most Capacity      *)
(* accepted messages, and a file that receives them in order.  Messages    *)
(* are numbered in the order they were accepted.                           *)
(***************************************************************************)
EXTENDS Integers, Sequences

CONSTANT Capacity \* messages that may wait

VARIABLES
    accepted, \* how many messages were accepted so far
    pending,  \* those still waiting
    written,  \* what the file holds since it was last opened
    faulty    \* whether the file may refuse part of what it is given

Init == accepted = 0 /\ pending = <<>> /\ written = <<>> /\ faulty \in BOOLEAN

Accept ==
    /\ Len(pending) < Capacity
    /\ pending' = Append(pending, accepted)
    /\ accepted' = accepted + 1
    /\ UNCHANGED <<written, faulty>>

(* The n oldest messages leave the queue and the first k of them reach the *)
(* file.                                                                   *)
Deliver(n, k) ==
    /\ k < n => faulty
    /\ pending' = SubSeq(pending, n + 1, Len(pending))
    /\ written' = written \o SubSeq(pending, 1, k)
    /\ UNCHANGED <<accepted, faulty>>

(* The file is truncated; what waits, waits.                               *)
Reopen == written' = <<>> /\ UNCHANGED <<accepted, pending, faulty>>

Next ==
    \/ Accept
    \/ \E n \in 1..Len(pending) : \E k \in 0..n : Deliver(n, k)
    \/ Reopen

Spec == Init /\ [][Next]_<<accepted, pending, written, faulty>>

=============================================================================
