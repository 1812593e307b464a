---------------------------- MODULE KeyValueMap -----------------------------
(***************************************************************************)
(* What FlatHashMap promises: a bounded map from keys to values.  A key    *)
(* without a value is mapped to Null.                                      *)
(***************************************************************************)
EXTENDS Integers, FiniteSets

CONSTANTS Keys, Values, Capacity, Null

VARIABLES
    map,
    stored \* size(); also counts the times the empty key was stored

Used == {k \in Keys : map[k] # Null}

Init == map = [k \in Keys |-> Null] /\ stored = 0

Put(k, v) ==
    /\ map[k] = Null /\ Cardinality(Used) < Capacity
    /\ map' = [map EXCEPT ![k] = v]
    /\ stored' = stored + 1

Overwrite(k, v) ==
    /\ map[k] # Null
    /\ map' = [map EXCEPT ![k] = v]
    /\ UNCHANGED stored

(* The empty key takes no room and is never found.                         *)
PutEmptyKey ==
    /\ Cardinality(Used) < Capacity
    /\ stored' = stored + 1
    /\ UNCHANGED map

Take(k) ==
    /\ map[k] # Null
    /\ map' = [map EXCEPT ![k] = Null]
    /\ stored' = stored - 1

Clear == map' = [k \in Keys |-> Null] /\ stored' = 0

Next ==
    \/ PutEmptyKey
    \/ Clear
    \/ \E k \in Keys : Take(k) \/ \E v \in Values : Put(k, v) \/ Overwrite(k, v)

Spec == Init /\ [][Next]_<<map, stored>>

=============================================================================
