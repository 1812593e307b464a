------------------------------- MODULE Lists -------------------------------
(***************************************************************************)
(* Ordered insertion and removal by value on sequences: what walking an    *)
(* intrusive linked list does to the sequence the list stands for.         *)
(***************************************************************************)
EXTENDS Integers, Sequences, FiniteSets, Functions

(* The number of elements at the front of seq that belong to S: how far a  *)
(* walk `while (cur && cur in S) cur = cur->next' gets.                    *)
LeadingRun(seq, S) ==
    Cardinality({j \in DOMAIN seq : \A k \in 1..j : seq[k] \in S})

(* seq with e linked in right after its leading run of elements of S.      *)
InsertAfterRun(seq, S, e) ==
    LET n == LeadingRun(seq, S)
    IN  SubSeq(seq, 1, n) \o <<e>> \o SubSeq(seq, n + 1, Len(seq))

(* seq with the first occurrence of e unlinked; seq itself without one.    *)
Unlink(seq, e) ==
    LET n == LeadingRun(seq, Range(seq) \ {e})
    IN  SubSeq(seq, 1, n) \o SubSeq(seq, n + 2, Len(seq))

=============================================================================
