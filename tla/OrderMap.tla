------------------------------ MODULE OrderMap ------------------------------
(***************************************************************************)
(* What the engine takes its order index for: a map from the reference     *)
(* numbers of live orders to their slots, and its size.                    *)
(***************************************************************************)
EXTENDS Integers

CONSTANTS Ids, OrderSlots, Null

VARIABLES map, size

Init == map = [id \in Ids |-> Null] /\ size = 0

Put(id, o) ==
    /\ map[id] = Null
    /\ map' = [map EXCEPT ![id] = o]
    /\ size' = size + 1

Take(id) ==
    /\ map[id] # Null
    /\ map' = [map EXCEPT ![id] = Null]
    /\ size' = size - 1

Next == \E id \in Ids : Take(id) \/ \E o \in OrderSlots : Put(id, o)

Spec == Init /\ [][Next]_<<map, size>>

=============================================================================
