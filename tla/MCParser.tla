------------------------------ MODULE MCParser ------------------------------
(***************************************************************************)
(* Values for the constants of Parser: bytes of three values, so that a    *)
(* payload of four needs both bytes of its length; an informational type,  *)
(* a type for the engine and an unknown one.                               *)
(***************************************************************************)
EXTENDS Parser, SequencesExt

CONSTANTS MaxPayload, MaxFrames

SizeTwoTypes == (1 :> 3) @@ (2 :> 2)

(* A type byte and, behind it, bytes that would pass for a type or for a   *)
(* length.                                                                 *)
Payloads ==
    {<<>>} \cup
    {<<t>> \o [i \in 1..n |-> b] : t \in Bytes, b \in {0, 1}, n \in 0..(MaxPayload - 1)}

Frame(m) == <<Len(m) \div Base, Len(m) % Base>> \o m

(* Everything a sender may frame.                                          *)
Framed ==
    {[sent |-> sent, bytes |-> FlattenSeq([i \in DOMAIN sent |-> Frame(sent[i])])] :
        sent \in UNION {[1..k -> Payloads] : k \in 0..MaxFrames}}

ASSUME FeedsAreFramed == \A f \in Feeds : IsFramed(f)

=============================================================================
