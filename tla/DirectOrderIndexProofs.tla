----------------------- MODULE DirectOrderIndexProofs -----------------------
(***************************************************************************)
(* For any set of ids, any pool and any capacity: the index points into    *)
(* live memory only, holds an id at most once, and implements the map the  *)
(* engine takes it for.                                                    *)
(***************************************************************************)
EXTENDS DirectOrderIndex, FiniteSetTheorems, TLAPS

(* The mask keeps every id inside the array.                               *)
LEMMA CellInRange == \A id \in Ids : Cell(id) \in Cells
  BY IdsAreNat, CapacityPositive DEF Cell, Cells

(* What find returns is the live order with that id, or nullptr.           *)
LEMMA FoundIsLive ==
  ASSUME IndexInv, NEW id \in Ids
  PROVE  /\ Find(id) \in OrderSlots \cup {Null}
         /\ Find(id) # Null => Find(id) \in live /\ orderId[Find(id)] = id
         /\ Find(id) = Null => ~Hit(id) /\ overflow[id] = Null
  BY CellInRange, NullIsNoSlot
  DEF IndexInv, TypeOK, NoStalePointer, NoDoubleEntry, Find, Hit

(* Both entries an order can have.                                         *)
LEMMA OneOwner ==
  ASSUME IndexInv
  PROVE  /\ \A c, d \in Cells : slots[c] = slots[d] /\ slots[c] # Null => c = d
         /\ \A id, jd \in Ids :
               overflow[id] = overflow[jd] /\ overflow[id] # Null => id = jd
         /\ \A c \in Cells, id \in Ids :
               ~(slots[c] = overflow[id] /\ slots[c] # Null)
<1>1. \A c, d \in Cells : slots[c] = slots[d] /\ slots[c] # Null => c = d
  BY DEF IndexInv, NoStalePointer
<1>2. \A id, jd \in Ids :
          overflow[id] = overflow[jd] /\ overflow[id] # Null => id = jd
  BY DEF IndexInv, NoStalePointer
<1>3. ASSUME NEW c \in Cells, NEW id \in Ids, slots[c] = overflow[id], slots[c] # Null
      PROVE  FALSE
  <2>1. orderId[slots[c]] = id /\ Cell(id) = c
    BY <1>3 DEF IndexInv, NoStalePointer
  <2>2. Hit(id)
    BY <2>1, <1>3 DEF Hit
  <2>. QED  BY <2>2, <1>3 DEF IndexInv, NoDoubleEntry
<1>. QED  BY <1>1, <1>2, <1>3

(* What entering an order in a slot of its own does to the index.          *)
LEMMA StoreIsPut ==
  ASSUME IndexInv, NEW id \in Ids, NEW o \in OrderSlots,
         o \in live, orderId[o] = id, Find(id) = Null,
         \A c \in Cells : slots[c] # o, \A jd \in Ids : overflow[jd] # o,
         Store(id, o), UNCHANGED <<orderId, live>>
  PROVE  /\ NoStalePointer' /\ NoDoubleEntry'
         /\ Contents' = [Contents EXCEPT ![id] = o]
<1>. USE CellInRange, NullIsNoSlot
<1>1. ~Hit(id) /\ overflow[id] = Null
  BY FoundIsLive
<1>2. CASE slots[Cell(id)] = Null
  <2>1. slots' = [slots EXCEPT ![Cell(id)] = o] /\ overflow' = overflow
    BY <1>2 DEF Store
  <2>2. NoStalePointer'
    BY <2>1 DEF IndexInv, TypeOK, NoStalePointer
  <2>3. NoDoubleEntry'
    BY <1>1, <2>1 DEF IndexInv, TypeOK, NoStalePointer, NoDoubleEntry, Hit
  <2>4. \A jd \in Ids : Find(jd)' = IF jd = id THEN o ELSE Find(jd)
    BY <1>1, <1>2, <2>1 DEF Find, Hit, IndexInv, TypeOK, NoStalePointer
  <2>. QED  BY <2>2, <2>3, <2>4 DEF Contents
<1>3. CASE slots[Cell(id)] # Null
  <2>1. slots' = slots /\ overflow' = [overflow EXCEPT ![id] = o]
    BY <1>3 DEF Store
  <2>2. NoStalePointer'
    BY <2>1 DEF IndexInv, TypeOK, NoStalePointer
  <2>3. NoDoubleEntry'
    BY <1>1, <2>1 DEF IndexInv, TypeOK, NoStalePointer, NoDoubleEntry, Hit
  <2>4. \A jd \in Ids : Find(jd)' = IF jd = id THEN o ELSE Find(jd)
    BY <1>1, <1>3, <2>1 DEF Find, Hit, IndexInv, TypeOK, NoStalePointer
  <2>. QED  BY <2>2, <2>3, <2>4 DEF Contents
<1>. QED  BY <1>2, <1>3

(* What erasing an id and releasing its slot does: no pointer to the slot  *)
(* is left, and find changes for that id only.                             *)
LEMMA EraseIsTake ==
  ASSUME IndexInv, NEW id \in Ids, NEW garbage \in Ids,
         Find(id) # Null, Release(Find(id), garbage), Erase(id)
  PROVE  /\ NoStalePointer' /\ NoDoubleEntry'
         /\ Contents' = [Contents EXCEPT ![id] = Null]
         /\ \A c \in Cells : slots'[c] = slots[c] \/ slots'[c] = Null
         /\ \A jd \in Ids : overflow'[jd] = overflow[jd] \/ overflow'[jd] = Null
<1>. USE CellInRange, NullIsNoSlot DEF Release
<1>1. Find(id) \in OrderSlots /\ Find(id) # Null
  BY FoundIsLive
<1>2. CASE Hit(id)
  <2>1. /\ slots' = [slots EXCEPT ![Cell(id)] = Null] /\ overflow' = overflow
        /\ Find(id) = slots[Cell(id)]
    BY <1>2 DEF Erase, Find
  <2>2. NoStalePointer'
    BY <1>1, <2>1, OneOwner DEF IndexInv, TypeOK, NoStalePointer
  <2>3. NoDoubleEntry'
    BY <1>1, <1>2, <2>1, OneOwner DEF IndexInv, TypeOK, NoDoubleEntry, Hit
  <2>4. overflow[id] = Null
    BY <1>2 DEF IndexInv, NoDoubleEntry
  <2>5. \A jd \in Ids : Find(jd)' = IF jd = id THEN Null ELSE Find(jd)
    BY <1>1, <1>2, <2>1, <2>4, OneOwner DEF Find, Hit, IndexInv, TypeOK, NoStalePointer
  <2>6. /\ \A c \in Cells : slots'[c] = slots[c] \/ slots'[c] = Null
        /\ \A jd \in Ids : overflow'[jd] = overflow[jd] \/ overflow'[jd] = Null
    BY <2>1 DEF IndexInv, TypeOK
  <2>. QED  BY <2>2, <2>3, <2>5, <2>6 DEF Contents
<1>3. CASE ~Hit(id)
  <2>1. /\ slots' = slots /\ overflow' = [overflow EXCEPT ![id] = Null]
        /\ Find(id) = overflow[id]
    BY <1>3 DEF Erase, Find
  <2>2. NoStalePointer'
    BY <1>1, <2>1, OneOwner DEF IndexInv, TypeOK, NoStalePointer
  <2>3. NoDoubleEntry'
    BY <1>1, <1>3, <2>1, OneOwner DEF IndexInv, TypeOK, NoDoubleEntry, Hit
  <2>5. \A jd \in Ids : Find(jd)' = IF jd = id THEN Null ELSE Find(jd)
    BY <1>1, <1>3, <2>1, OneOwner DEF Find, Hit, IndexInv, TypeOK, NoStalePointer
  <2>6. /\ \A c \in Cells : slots'[c] = slots[c] \/ slots'[c] = Null
        /\ \A jd \in Ids : overflow'[jd] = overflow[jd] \/ overflow'[jd] = Null
    BY <2>1 DEF IndexInv, TypeOK
  <2>. QED  BY <2>2, <2>3, <2>5, <2>6 DEF Contents
<1>. QED  BY <1>2, <1>3

(* A write to a slot the index does not point to changes nothing it sees.  *)
LEMMA UnseenWrite ==
  ASSUME IndexInv, NEW o \in OrderSlots, NEW id \in Ids, UNCHANGED index,
         \A c \in Cells : slots[c] # o, \A jd \in Ids : overflow[jd] # o,
         orderId' = [orderId EXCEPT ![o] = id],
         live' = live \/ live' = live \ {o}
  PROVE  NoStalePointer' /\ NoDoubleEntry' /\ Contents' = Contents
<1>. USE CellInRange DEF index
<1>1. NoStalePointer'
  BY DEF IndexInv, TypeOK, NoStalePointer
<1>2. \A jd \in Ids : Hit(jd)' = Hit(jd)
  BY DEF IndexInv, TypeOK, Hit
<1>3. NoDoubleEntry'
  BY <1>2 DEF IndexInv, NoDoubleEntry
<1>4. \A jd \in Ids : Find(jd)' = Find(jd)
  BY <1>2 DEF Find
<1>. QED  BY <1>1, <1>3, <1>4 DEF Contents

(* The order on its way is where the actions that finish it expect it.     *)
LEMMA AddingIsFresh ==
  ASSUME IndexInv, adding # Null
  PROVE  /\ adding.id \in Ids /\ adding.slot \in OrderSlots
         /\ adding.old \in Ids \cup {Null}
         /\ adding.slot \in live /\ Find(adding.id) = Null
         /\ \A c \in Cells : slots[c] # adding.slot
         /\ \A id \in Ids : overflow[id] # adding.slot
  BY DEF IndexInv, TypeOK, AddingApart

(* insert has no reason to refuse the order on its way.                    *)
LEMMA NotRefused == IndexInv => InsertNeverRefused
<1>. SUFFICES ASSUME IndexInv, adding # Null PROVE ~Refused(adding.id)
  BY DEF InsertNeverRefused
<1>. QED  BY AddingIsFresh, FoundIsLive DEF Refused, Hit

(* A lookup that fails and an acquire touch nothing the index sees.        *)
LEMMA BeginKeepsIndex ==
  ASSUME IndexInv, NEW old \in Ids \cup {Null}, NEW id \in Ids, NEW o \in OrderSlots,
         Begin(old, id, o)
  PROVE  IndexInv' /\ Contents' = Contents
<1>. USE CellInRange, NullIsNoSlot DEF Begin, index
<1>1. TypeOK'
  BY DEF IndexInv, TypeOK
<1>2. NoStalePointer' /\ NoDoubleEntry'
  BY DEF IndexInv, NoStalePointer, NoDoubleEntry, Hit
<1>3. \A jd \in Ids : Find(jd)' = Find(jd)
  BY DEF Find, Hit
<1>4. /\ \A c \in Cells : slots[c] # o
      /\ \A jd \in Ids : overflow[jd] # o
  BY DEF IndexInv, NoStalePointer
<1>5. AddingApart'
  BY <1>3, <1>4 DEF AddingApart
<1>. QED  BY <1>1, <1>2, <1>3, <1>5 DEF IndexInv, Contents

(* The order a replace takes out is found under its id until then.         *)
LEMMA TakeOldKeepsIndex ==
  ASSUME IndexInv, NEW garbage \in Ids, TakeOld(garbage)
  PROVE  IndexInv' /\ OM!Take(adding.old)
<1>. USE AddingIsFresh DEF TakeOld
<1>1. adding.old \in Ids /\ Find(adding.old) # Null
  BY DEF IndexInv, AddingApart
<1>2. Find(adding.old) \in OrderSlots /\ Find(adding.old) # adding.slot
  BY <1>1, FoundIsLive, CellInRange DEF Find
<1>3. /\ NoStalePointer' /\ NoDoubleEntry'
      /\ Contents' = [Contents EXCEPT ![adding.old] = Null]
      /\ \A c \in Cells : slots'[c] = slots[c] \/ slots'[c] = Null
      /\ \A jd \in Ids : overflow'[jd] = overflow[jd] \/ overflow'[jd] = Null
  BY <1>1, EraseIsTake
<1>4. TypeOK'
  BY <1>1, <1>2, CellInRange DEF IndexInv, TypeOK, Erase, Release
<1>5. /\ adding'.id = adding.id /\ adding'.slot = adding.slot
      /\ adding'.old = Null /\ adding'.built = adding.built
  BY DEF IndexInv, TypeOK
<1>6. Find(adding.id)' = Null
  <2>1. Contents'[adding.id] = Null
    BY <1>3 DEF Contents
  <2>. QED  BY <2>1, <1>5 DEF Contents
<1>7. adding.built => orderId'[adding.slot] = adding.id
  BY <1>2 DEF IndexInv, TypeOK, AddingApart, Release
<1>8. AddingApart'
  BY <1>2, <1>3, <1>5, <1>6, <1>7, NullIsNoSlot DEF AddingApart, Release
<1>9. OM!Take(adding.old)
  BY <1>1, <1>3 DEF OM!Take, Contents, Erase
<1>. QED  BY <1>3, <1>4, <1>8, <1>9 DEF IndexInv

(* The constructor writes where the index does not look.                   *)
LEMMA ConstructKeepsIndex ==
  ASSUME IndexInv, Construct
  PROVE  IndexInv' /\ Contents' = Contents
<1>. USE AddingIsFresh DEF Construct
<1>1. NoStalePointer' /\ NoDoubleEntry' /\ Contents' = Contents
  BY UnseenWrite
<1>2. TypeOK'
  BY DEF IndexInv, TypeOK, index
<1>3. /\ adding'.id = adding.id /\ adding'.slot = adding.slot
      /\ adding'.old = Null
  BY DEF IndexInv, TypeOK
<1>4. Find(adding.id)' = Null
  <2>1. Contents'[adding.id] = Null
    BY <1>1 DEF Contents
  <2>. QED  BY <2>1, <1>3 DEF Contents
<1>5. AddingApart'
  BY <1>3, <1>4 DEF AddingApart, index, IndexInv, TypeOK
<1>. QED  BY <1>1, <1>2, <1>5 DEF IndexInv

(* Nor does the release of an order that never reached the index.          *)
LEMMA AbandonKeepsIndex ==
  ASSUME IndexInv, NEW garbage \in Ids, Abandon(garbage)
  PROVE  IndexInv' /\ Contents' = Contents
<1>. USE AddingIsFresh DEF Abandon, Release
<1>1. NoStalePointer' /\ NoDoubleEntry' /\ Contents' = Contents
  BY UnseenWrite
<1>2. TypeOK'
  BY DEF IndexInv, TypeOK, index
<1>. QED  BY <1>1, <1>2 DEF IndexInv, AddingApart

(* The order on its way is entered, since insert does not refuse it.       *)
LEMMA InsertKeepsIndex ==
  ASSUME IndexInv, NEW garbage \in Ids, Insert(garbage)
  PROVE  IndexInv' /\ OM!Put(adding.id, adding.slot)
<1>. USE AddingIsFresh DEF Insert
<1>1. Store(adding.id, adding.slot) /\ UNCHANGED <<orderId, live>>
  BY NotRefused DEF InsertNeverRefused
<1>2. orderId[adding.slot] = adding.id
  BY DEF IndexInv, AddingApart
<1>3. /\ NoStalePointer' /\ NoDoubleEntry'
      /\ Contents' = [Contents EXCEPT ![adding.id] = adding.slot]
  BY <1>1, <1>2, StoreIsPut
<1>4. TypeOK'
  BY <1>1, CellInRange DEF IndexInv, TypeOK, Store
<1>5. OM!Put(adding.id, adding.slot)
  BY <1>1, <1>3 DEF OM!Put, Contents, Store
<1>. QED  BY <1>3, <1>4, <1>5 DEF IndexInv, AddingApart

(* Erasing an id and releasing its slot leaves no pointer to that slot.    *)
LEMMA RemoveKeepsIndex ==
  ASSUME IndexInv, NEW id \in Ids, NEW garbage \in Ids, Remove(id, garbage)
  PROVE  IndexInv' /\ OM!Take(id)
<1>. USE DEF Remove
<1>1. /\ NoStalePointer' /\ NoDoubleEntry'
      /\ Contents' = [Contents EXCEPT ![id] = Null]
  BY EraseIsTake
<1>2. TypeOK'
  BY FoundIsLive, CellInRange DEF IndexInv, TypeOK, Erase, Release
<1>3. OM!Take(id)
  BY <1>1 DEF OM!Take, Contents, Erase
<1>. QED  BY <1>1, <1>2, <1>3 DEF IndexInv, AddingApart

(* Any step keeps the index whole, and is a step of the map or none.       *)
LEMMA StepOfIndex ==
  ASSUME IndexInv, [Next]_vars
  PROVE  /\ IndexInv'
         /\ \/ \E id \in Ids, o \in OrderSlots : OM!Put(id, o)
            \/ \E id \in Ids : OM!Take(id)
            \/ Contents' = Contents /\ count' = count
<1>1. CASE UNCHANGED vars
  BY <1>1
  DEF vars, index, IndexInv, TypeOK, NoStalePointer, NoDoubleEntry, AddingApart,
      Hit, Find, Contents
<1>2. ASSUME NEW old \in Ids \cup {Null}, NEW id \in Ids, NEW o \in OrderSlots,
             Begin(old, id, o)
      PROVE  IndexInv' /\ Contents' = Contents /\ count' = count
  BY <1>2, BeginKeepsIndex DEF Begin, index
<1>3. CASE Construct
  BY <1>3, ConstructKeepsIndex DEF Construct, index
<1>4. ASSUME NEW garbage \in Ids, TakeOld(garbage)
      PROVE  IndexInv' /\ \E id \in Ids : OM!Take(id)
  <2>1. adding.old \in Ids
    BY <1>4, AddingIsFresh DEF TakeOld
  <2>. QED  BY <1>4, <2>1, TakeOldKeepsIndex
<1>5. ASSUME NEW garbage \in Ids, Abandon(garbage)
      PROVE  IndexInv' /\ Contents' = Contents /\ count' = count
  BY <1>5, AbandonKeepsIndex DEF Abandon, index
<1>6. ASSUME NEW garbage \in Ids, Insert(garbage)
      PROVE  IndexInv' /\ \E id \in Ids, o \in OrderSlots : OM!Put(id, o)
  <2>1. adding.id \in Ids /\ adding.slot \in OrderSlots
    BY <1>6, AddingIsFresh DEF Insert
  <2>. QED  BY <1>6, <2>1, InsertKeepsIndex
<1>7. ASSUME NEW id \in Ids, NEW garbage \in Ids, Remove(id, garbage)
      PROVE  IndexInv' /\ OM!Take(id)
  BY <1>7, RemoveKeepsIndex
<1>8. CASE Next
  BY <1>2, <1>3, <1>4, <1>5, <1>6, <1>7, <1>8 DEF Next
<1>. QED  BY <1>1, <1>8

(* The empty index is whole.                                               *)
LEMMA IndexInvInitially == Init => IndexInv
  BY NullIsNoSlot
  DEF Init, IndexInv, TypeOK, NoStalePointer, NoDoubleEntry, AddingApart, Hit

(* The invariant of the index, from the start and for ever.                *)
THEOREM IndexIsWhole == Spec => []IndexInv
<1>1. IndexInv /\ [Next]_vars => IndexInv'
  BY StepOfIndex
<1>. QED  BY <1>1, IndexInvInitially, PTL DEF Spec

(* No pointer in the array or in the overflow outlives its order.          *)
THEOREM PointersAreLive == Spec => []NoStalePointer
<1>1. IndexInv => NoStalePointer
  BY DEF IndexInv
<1>. QED  BY <1>1, IndexIsWhole, PTL

(* An id is never in the array and in the overflow at once.                *)
THEOREM EntriesAreUnique == Spec => []NoDoubleEntry
<1>1. IndexInv => NoDoubleEntry
  BY DEF IndexInv
<1>. QED  BY <1>1, IndexIsWhole, PTL

(* insert never refuses the order the engine constructed for it, whatever  *)
(* was erased, released and written since its id was looked up: the        *)
(* engine's rollback branches are not reached.                             *)
THEOREM InsertNeverFails == Spec => []InsertNeverRefused
  BY NotRefused, IndexIsWhole, PTL

-----------------------------------------------------------------------------
(* The index behaves as a plain map, whatever collides with whatever.      *)
THEOREM IndexIsAMap == Spec => ImplementsOrderMap
<1>1. Init => OM!Init
  BY CellInRange DEF Init, OM!Init, Contents, Find, Hit
<1>2. IndexInv /\ [Next]_vars => [OM!Next]_<<Contents, count>>
  BY StepOfIndex DEF OM!Next
<1>. QED  BY <1>1, <1>2, IndexIsWhole, PTL DEF Spec, ImplementsOrderMap, OM!Spec

-----------------------------------------------------------------------------
Found == {id \in Ids : Find(id) # Null}

(* The count is the size of a finite set.  IndexInv says nothing of count. *)
CountInv == IsFiniteSet(Found) /\ count = Cardinality(Found)

(* insert and erase keep count_ in step with what find succeeds for.       *)
LEMMA CountInvInductive == IndexInv /\ CountInv /\ [Next]_vars => CountInv'
<1>. SUFFICES ASSUME IndexInv, CountInv, [Next]_vars PROVE CountInv'
  OBVIOUS
<1>1. ASSUME NEW id \in Ids, NEW o \in OrderSlots, OM!Put(id, o)
      PROVE  CountInv'
  <2>1. Found' = Found \cup {id} /\ id \notin Found /\ count' = count + 1
    BY <1>1, NullIsNoSlot DEF OM!Put, Contents, Found
  <2>. QED  BY <2>1, FS_AddElement DEF CountInv
<1>2. ASSUME NEW id \in Ids, OM!Take(id)
      PROVE  CountInv'
  <2>1. Found' = Found \ {id} /\ id \in Found /\ count' = count - 1
    BY <1>2 DEF OM!Take, Contents, Found
  <2>. QED  BY <2>1, FS_RemoveElement DEF CountInv
<1>3. CASE Contents' = Contents /\ count' = count
  BY <1>3 DEF CountInv, Found, Contents
<1>. QED  BY <1>1, <1>2, <1>3, StepOfIndex

(* size() counts the ids that find succeeds for.                           *)
THEOREM SizeIsRight == Spec => []SizeMatches
<1>1. Init => CountInv
  <2>. SUFFICES ASSUME Init PROVE CountInv
    OBVIOUS
  <2>1. Found = {}
    BY CellInRange DEF Init, Found, Find, Hit
  <2>. QED  BY <2>1, FS_EmptySet DEF Init, CountInv
<1>2. CountInv => SizeMatches
  BY DEF CountInv, SizeMatches, Found
<1>. QED
  BY <1>1, <1>2, CountInvInductive, IndexIsWhole, PTL DEF Spec

=============================================================================
