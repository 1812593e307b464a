-------------------------- MODULE DirectOrderIndex --------------------------
(***************************************************************************)
(* DirectOrderIndex: an array indexed by the low bits of the order id, and *)
(* an overflow map for the ids whose cell is taken.                        *)
(*                                                                         *)
(* The array holds pointers only.  To tell whether a cell belongs to an id *)
(* the code reads order_id through the pointer, so the index is right only *)
(* as long as the memory behind its pointers is: memory is a variable      *)
(* here, and a slot that is released holds anything afterwards (release    *)
(* writes a free-list link over order_id).                                 *)
(*                                                                         *)
(* The actions are the index calls of the engine with what the engine does *)
(* around them.  Between the find that admits a new id and the insert that *)
(* enters it, the engine acquires a slot, erases and releases the order a  *)
(* replace takes out, and constructs the new order, which writes the new   *)
(* id into memory: these are steps of their own, and `adding' says how far *)
(* the engine is.  clear() is never called, and the statistic collisions_  *)
(* is left out.                                                            *)
(***************************************************************************)
EXTENDS Integers, FiniteSets

CONSTANTS
    Ids,        \* OrderReferenceNumber values
    OrderSlots, \* slots of the order pool
    Capacity,   \* kCapacity, a power of two: id & kMask is id % Capacity
    Null

ASSUME IdsAreNat == Ids \subseteq Nat
ASSUME CapacityPositive == Capacity \in Nat \ {0}
ASSUME NullIsNoSlot == Null \notin OrderSlots

VARIABLES
    slots,      \* slots_
    overflow,   \* overflow_, Null for an absent key
    count,      \* count_
    orderId,    \* order_id as it stands in the memory of each order slot
    live,       \* the order slots that are acquired
    adding      \* the order on its way into the index, or Null

index == <<slots, overflow, count>>
vars == <<index, orderId, live, adding>>

Cells == 0..(Capacity - 1)
Cell(id) == id % Capacity

(* `slots_[id & kMask]' is set and its order has this id.                  *)
Hit(id) == slots[Cell(id)] # Null /\ orderId[slots[Cell(id)]] = id

\* MUTANT: the overflow is not searched.
FindArrayOnly(id) == IF Hit(id) THEN slots[Cell(id)] ELSE Null

Find(id) == IF Hit(id) THEN slots[Cell(id)] ELSE overflow[id]

Init ==
    /\ slots = [c \in Cells |-> Null]
    /\ overflow = [id \in Ids |-> Null]
    /\ count = 0
    /\ orderId \in [OrderSlots -> Ids]
    /\ live = {}
    /\ adding = Null

(* order_pool_.release: the free-list link overwrites order_id.            *)
Release(o, garbage) ==
    /\ live' = live \ {o}
    /\ orderId' = [orderId EXCEPT ![o] = garbage]

(* insert returns false: the order in the cell has this id as it stands in *)
(* memory now, or the cell is taken and emplace finds the key.             *)
Refused(id) ==
    /\ slots[Cell(id)] # Null
    /\ orderId[slots[Cell(id)]] = id \/ overflow[id] # Null

\* MUTANT: the order in the taken cell is replaced.
StoreEvicts(id, o) ==
    /\ slots' = [slots EXCEPT ![Cell(id)] = o]
    /\ count' = count + 1
    /\ UNCHANGED overflow

(* insert returns true.                                                    *)
Store(id, o) ==
    /\ count' = count + 1
    /\ IF slots[Cell(id)] = Null
       THEN slots' = [slots EXCEPT ![Cell(id)] = o] /\ UNCHANGED overflow
       ELSE overflow' = [overflow EXCEPT ![id] = o] /\ UNCHANGED slots

\* MUTANT: the cell is cleared whoever it belongs to.
EraseAnyCell(id) ==
    /\ count' = count - 1
    /\ IF slots[Cell(id)] # Null
       THEN slots' = [slots EXCEPT ![Cell(id)] = Null] /\ UNCHANGED overflow
       ELSE overflow' = [overflow EXCEPT ![id] = Null] /\ UNCHANGED slots

\* MUTANT: the overflow branch does not count.
EraseUncounted(id) ==
    /\ count' = IF Hit(id) THEN count - 1 ELSE count
    /\ IF Hit(id)
       THEN slots' = [slots EXCEPT ![Cell(id)] = Null] /\ UNCHANGED overflow
       ELSE overflow' = [overflow EXCEPT ![id] = Null] /\ UNCHANGED slots

\* MUTANT: the cell keeps its pointer.
EraseKeepsCell(id) ==
    /\ count' = count - 1
    /\ overflow' = IF Hit(id) THEN overflow ELSE [overflow EXCEPT ![id] = Null]
    /\ UNCHANGED slots

(* erase, after find(id) returned an order.                                *)
Erase(id) ==
    /\ count' = count - 1
    /\ IF Hit(id)
       THEN slots' = [slots EXCEPT ![Cell(id)] = Null] /\ UNCHANGED overflow
       ELSE overflow' = [overflow EXCEPT ![id] = Null] /\ UNCHANGED slots

(* on_add_order (old = Null) and on_order_replace up to the acquire.  All  *)
(* of their lookups are done by then.                                      *)
Begin(old, id, o) ==
    /\ adding = Null
    /\ old # Null => Find(old) # Null
    /\ Find(id) = Null
    /\ o \notin live
    /\ live' = live \cup {o}
    /\ adding' = [id |-> id, slot |-> o, old |-> old, built |-> FALSE]
    /\ UNCHANGED <<index, orderId>>

(* on_order_replace erases and releases the order it takes out.            *)
TakeOld(garbage) ==
    /\ adding # Null
    /\ adding.old # Null
    /\ Release(Find(adding.old), garbage)
    /\ Erase(adding.old)
    /\ adding' = [adding EXCEPT !.old = Null]

(* The constructor writes order_id into the slot acquired before.          *)
Construct ==
    /\ adding # Null
    /\ adding.old = Null /\ ~adding.built
    /\ orderId' = [orderId EXCEPT ![adding.slot] = adding.id]
    /\ adding' = [adding EXCEPT !.built = TRUE]
    /\ UNCHANGED <<index, live>>

(* The book has no level for the order: it never reaches the index.        *)
Abandon(garbage) ==
    /\ adding # Null
    /\ adding.built
    /\ Release(adding.slot, garbage)
    /\ adding' = Null
    /\ UNCHANGED index

(* The order is indexed or, if insert refuses it, rolled back.             *)
Insert(garbage) ==
    /\ adding # Null
    /\ adding.built
    /\ adding' = Null
    /\ IF Refused(adding.id)
       THEN Release(adding.slot, garbage) /\ UNCHANGED index
       ELSE Store(adding.id, adding.slot) /\ UNCHANGED <<orderId, live>>

(* An indexed order is erased and its slot released.                       *)
Remove(id, garbage) ==
    /\ adding = Null
    /\ Find(id) # Null
    /\ Release(Find(id), garbage)
    /\ Erase(id)
    /\ UNCHANGED adding

Next ==
    \/ \E old \in Ids \cup {Null}, id \in Ids, o \in OrderSlots : Begin(old, id, o)
    \/ Construct
    \/ \E garbage \in Ids :
          \/ TakeOld(garbage)
          \/ Abandon(garbage)
          \/ Insert(garbage)
          \/ \E id \in Ids : Remove(id, garbage)

Spec == Init /\ [][Next]_vars

-----------------------------------------------------------------------------
(* Every variable has its type.                                            *)
TypeOK ==
    /\ slots \in [Cells -> OrderSlots \cup {Null}]
    /\ overflow \in [Ids -> OrderSlots \cup {Null}]
    /\ count \in Int
    /\ orderId \in [OrderSlots -> Ids]
    /\ live \subseteq OrderSlots
    /\ adding \in {Null} \cup [id : Ids, slot : OrderSlots,
                               old : Ids \cup {Null}, built : BOOLEAN]

(* A cell or an overflow entry never points into released memory, and what *)
(* it points to carries an id that belongs there.                          *)
NoStalePointer ==
    /\ \A c \in Cells : slots[c] # Null =>
          slots[c] \in live /\ Cell(orderId[slots[c]]) = c
    /\ \A id \in Ids : overflow[id] # Null =>
          overflow[id] \in live /\ orderId[overflow[id]] = id

(* An id is in the array or in the overflow, never in both: erase would    *)
(* leave the second entry behind, pointing to a released slot.             *)
NoDoubleEntry == \A id \in Ids : Hit(id) => overflow[id] = Null

(* Until insert the new order is in a slot of its own that the index does  *)
(* not know, and its id is as absent as it was when it was looked up.      *)
AddingApart ==
    adding # Null =>
        /\ adding.slot \in live
        /\ \A c \in Cells : slots[c] # adding.slot
        /\ \A id \in Ids : overflow[id] # adding.slot
        /\ Find(adding.id) = Null
        /\ adding.old # Null => Find(adding.old) # Null
        /\ adding.built => orderId[adding.slot] = adding.id

(* What every step of the index preserves.                                 *)
IndexInv == TypeOK /\ NoStalePointer /\ NoDoubleEntry /\ AddingApart

(* When an order is about to be inserted, insert does not refuse it, in    *)
(* the memory as it is now: since its id was looked up, a replace has      *)
(* erased and released another order, and the constructor has written the  *)
(* id into a slot; a pointer left behind to that slot would make insert    *)
(* take the order for its own duplicate.  The engine would roll it back,   *)
(* in a replace with the old order gone.                                   *)
InsertNeverRefused == adding # Null /\ adding.built => ~Refused(adding.id)

(* size(), a number the report prints, is that of the ids find succeeds    *)
(* for.                                                                    *)
SizeMatches == count = Cardinality({id \in Ids : Find(id) # Null})

Contents == [id \in Ids |-> Find(id)]

OM == INSTANCE OrderMap WITH map <- Contents, size <- count

(* Collisions, reused slots and re-insertions included, the index behaves  *)
(* as a plain map: a hit is the order that was inserted under this id.     *)
ImplementsOrderMap == OM!Spec

=============================================================================
