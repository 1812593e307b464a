---------------------------- MODULE FlatHashMap -----------------------------
(***************************************************************************)
(* FlatHashMap: open addressing with linear probing.  There are no         *)
(* tombstones; erase repairs the probe chain by taking every entry behind  *)
(* the hole out and inserting it again.  The repair loop is modelled turn  *)
(* by turn, everything else is one step.                                   *)
(*                                                                         *)
(* The hash function is any function: it is chosen in the initial state.   *)
(* A full map refuses an insert (the assertion there is compiled out of    *)
(* the release build).  The engine's level maps are FlatHashMaps and one   *)
(* of their keys, kEmptyPrice, is the mark of a free cell, so it is among  *)
(* the keys that insert and erase are called with.                         *)
(***************************************************************************)
EXTENDS Integers, FiniteSets

CONSTANTS
    Keys,       \* keys other than kEmpty
    Values,     \* pointers the map is given
    Capacity,   \* kCapacity, a power of two: i & mask is i % Capacity
    Empty,      \* kEmpty
    Null,       \* nullptr
    MaxSentinel \* bound: how far size_ may run ahead of the entries

ASSUME CapacityPositive == Capacity \in Nat \ {0}
ASSUME EmptyIsNoKey == Empty \notin Keys
ASSUME NullIsNoValue == Null \notin Values

VARIABLES
    home,   \* hash(k) & mask
    keys,   \* keys_
    values, \* values_
    size,   \* size_
    cursor  \* j in the repair loop of erase, -1 outside of it

vars == <<home, keys, values, size, cursor>>

Cells == 0..(Capacity - 1)
After(i) == (i + 1) % Capacity

(* How far behind its home a cell is probed for k.                         *)
Distance(k, i) == (i - home[k] + Capacity) % Capacity

(* The cells of table at which a probe for k stops: the first, in probing  *)
(* order, that is empty or holds k.  There is none if the table is full    *)
(* and does not have k.                                                    *)
Stops(table, k) ==
    LET ends == {i \in Cells : table[i] \in {Empty, k}}
    IN  {i \in ends : \A j \in ends : Distance(k, i) <= Distance(k, j)}

(* find                                                                    *)
Find(k) ==
    IF \E i \in Stops(keys, k) : keys[i] = k /\ k # Empty
    THEN values[CHOOSE i \in Stops(keys, k) : TRUE]
    ELSE Null

Init ==
    /\ home \in [Keys \cup {Empty} -> Cells]
    /\ keys = [i \in Cells |-> Empty]
    /\ values = [i \in Cells |-> Null]
    /\ size = 0
    /\ cursor = -1

(* insert                                                                  *)
Insert(k, v) ==
    /\ cursor = -1
    /\ \E i \in Stops(keys, k) :
          /\ keys' = [keys EXCEPT ![i] = k]
          /\ values' = [values EXCEPT ![i] = v]
          /\ size' = IF keys[i] = Empty THEN size + 1 ELSE size
    /\ size' <= Cardinality({i \in Cells : keys'[i] # Empty}) + MaxSentinel
    /\ UNCHANGED <<home, cursor>>

\* MUTANT: leaves a hole in the probe chains.
EraseUnrepaired(k) ==
    /\ cursor = -1
    /\ \E i \in Stops(keys, k) :
          /\ keys[i] = k /\ k # Empty
          /\ keys' = [keys EXCEPT ![i] = Empty]
          /\ values' = [values EXCEPT ![i] = Null]
    /\ size' = size - 1
    /\ UNCHANGED <<home, cursor>>

(* erase, up to the repair loop.  For an absent key, and for kEmpty, it    *)
(* does nothing.                                                           *)
Erase(k) ==
    /\ cursor = -1
    /\ \E i \in Stops(keys, k) :
          /\ keys[i] = k /\ k # Empty
          /\ keys' = [keys EXCEPT ![i] = Empty]
          /\ values' = [values EXCEPT ![i] = Null]
          /\ cursor' = After(i)
    /\ size' = size - 1
    /\ UNCHANGED home

\* MUTANT: goes on with the entry it moved.
RepairRestarts ==
    /\ cursor # -1
    /\ IF keys[cursor] = Empty
       THEN cursor' = -1 /\ UNCHANGED <<keys, values>>
       ELSE LET taken == [keys EXCEPT ![cursor] = Empty]
                k == keys[cursor]
            IN  \E i \in Stops(taken, k) :
                   /\ keys' = [taken EXCEPT ![i] = k]
                   /\ values' = [values EXCEPT ![cursor] = Null, ![i] = values[cursor]]
                   /\ cursor' = i
    /\ UNCHANGED <<home, size>>

\* MUTANT: inserts into the table before the entry is taken out of it.
RepairKeepsOld ==
    /\ cursor # -1
    /\ IF keys[cursor] = Empty
       THEN cursor' = -1 /\ UNCHANGED <<keys, values>>
       ELSE /\ \E i \in Stops(keys, keys[cursor]) :
                  /\ keys' = [keys EXCEPT ![i] = keys[cursor]]
                  /\ values' = [values EXCEPT ![i] = values[cursor]]
            /\ cursor' = After(cursor)
    /\ UNCHANGED <<home, size>>

(* One turn of the repair loop: the entry under the cursor is taken out    *)
(* and inserted again; its cell is free, so the insert finds room.         *)
Repair ==
    /\ cursor # -1
    /\ IF keys[cursor] = Empty
       THEN cursor' = -1 /\ UNCHANGED <<keys, values>>
       ELSE LET taken == [keys EXCEPT ![cursor] = Empty]
                k == keys[cursor]
            IN  \E i \in Stops(taken, k) :
                   /\ keys' = [taken EXCEPT ![i] = k]
                   /\ values' = [values EXCEPT ![cursor] = Null, ![i] = values[cursor]]
                   /\ cursor' = After(cursor)
    /\ UNCHANGED <<home, size>>

(* clear                                                                   *)
Clear ==
    /\ cursor = -1
    /\ keys' = [i \in Cells |-> Empty]
    /\ values' = [i \in Cells |-> Null]
    /\ size' = 0
    /\ UNCHANGED <<home, cursor>>

Next ==
    \/ Repair
    \/ Clear
    \/ \E k \in Keys \cup {Empty} :
          Erase(k) \/ \E v \in Values : Insert(k, v)

Spec == Init /\ [][Next]_vars

(* erase runs its loop to the end before it returns.                       *)
FairSpec == Spec /\ WF_vars(Repair)

-----------------------------------------------------------------------------
(* A key has one cell, in the middle of a repair too: a second copy would  *)
(* come back to life when the first is erased.                             *)
KeysUnique ==
    \A i, j \in Cells : keys[i] = keys[j] /\ keys[i] # Empty => i = j

(* The repair loop ends, for a map that was full when erase began too: the *)
(* loop has no bound of its own.                                           *)
EraseEnds == cursor # -1 ~> cursor = -1

(* The table by content, as between the steps of a repair find may miss.   *)
Contents ==
    [k \in Keys |-> IF \E i \in Cells : keys[i] = k
                    THEN values[CHOOSE i \in Cells : keys[i] = k] ELSE Null]

KV == INSTANCE KeyValueMap WITH map <- Contents, stored <- size

(* Whatever collides, the table behaves as a bounded map, and the repair   *)
(* loop changes nothing a user can see.                                    *)
ImplementsKeyValueMap == KV!Spec

(* Between calls find returns what the abstract map has: find gives up at  *)
(* the first free cell, so no free cell may lie between the home of a key  *)
(* and its cell.                                                           *)
FindIsLookup == cursor = -1 => \A k \in Keys : Find(k) = Contents[k]

=============================================================================
