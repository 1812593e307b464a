--------------------------- MODULE IntrusiveBook ----------------------------
(***************************************************************************)
(* One OrderBook as it lies in memory: orders and price levels that are    *)
(* linked by hand in both directions, the pointers to the best levels, the *)
(* level maps with their bounded room, and the pool of levels with the     *)
(* free list inside its slots.  MatchingEngine takes the lists for         *)
(* sequences and the maps for unbounded; here is why it may.               *)
(*                                                                         *)
(* The caller, the engine, gives add_order an order it has constructed and *)
(* the other operations an order that rests.  A map is what FlatHashMap    *)
(* promises, in the release build: full, it refuses a new key, and nobody  *)
(* looks at the result.  The key kEmptyPrice is left to MatchingEngine.    *)
(***************************************************************************)
EXTENDS Integers, Sequences, FiniteSets, Functions, Lists, MemoryPool

CONSTANTS
    OrderSlots,    \* slots of order_pool_
    LevelCapacity, \* slots of level_pool_
    Prices,        \* Price values in use
    Quantities,    \* Shares values a message may carry
    MapCapacity    \* kPriceLevelMapCapacity

LevelSlots == 0..(LevelCapacity - 1)
Sides == {"Buy", "Sell"}

ASSUME SizesAreNat == LevelCapacity \in Nat /\ MapCapacity \in Nat
ASSUME ValuesAreNat == Prices \subseteq Nat /\ Prices # {} /\ Quantities \subseteq Nat
ASSUME SlotsAreFinite == IsFiniteSet(OrderSlots) /\ IsFiniteSet(Prices)
ASSUME NullIsNoSlot == Null \notin OrderSlots \cup LevelSlots

VARIABLES
    orders,  \* memory of the order slots
    levels,  \* memory of the level slots, but for price_cents
    pool,    \* level_pool_; price_cents is the first word of a level
    book,    \* the members of OrderBook
    resting  \* the orders that the caller's index knows

vars == <<orders, levels, pool, book, resting>>

(* What a slot holds that nobody may look at.                              *)
BlankOrder == [side |-> "Buy", price |-> 0, shares |-> 0, next |-> Null, prev |-> Null]
BlankLevel == [total |-> 0, head |-> Null, tail |-> Null, count |-> 0,
               prev |-> Null, next |-> Null]

EmptyBook ==
    [best    |-> [s \in Sides |-> Null],
     map     |-> [s \in Sides |-> [p \in Prices |-> Null]],
     nLevels |-> [s \in Sides |-> 0],
     nOrders |-> 0]

Init ==
    /\ orders = [o \in OrderSlots |-> BlankOrder]
    /\ levels = [v \in LevelSlots |-> BlankLevel]
    /\ pool = NewPool(LevelCapacity)
    /\ book = EmptyBook
    /\ resting = {}

-----------------------------------------------------------------------------
(* Writes through a pointer that may be null: `if (x) x->next = y'.        *)
SetNext(mem, x, y) == [z \in DOMAIN mem |->
                          IF z = x THEN [mem[z] EXCEPT !.next = y] ELSE mem[z]]
SetPrev(mem, x, y) == [z \in DOMAIN mem |->
                          IF z = x THEN [mem[z] EXCEPT !.prev = y] ELSE mem[z]]

NextOf(mem) == [z \in DOMAIN mem |-> mem[z].next]

(* The memory an operation works on; see MatchingEngine.  An operator      *)
(* whose comment starts with MUTANT is the next one with a bug.            *)
Heap == [orders |-> orders, levels |-> levels, pool |-> pool, book |-> book]

Commit(h) ==
    /\ orders' = h.orders
    /\ levels' = h.levels
    /\ pool' = h.pool
    /\ book' = h.book

LevelList(h, s) == Follow(NextOf(h.levels), h.book.best[s])
Queue(h, v) == Follow(NextOf(h.orders), h.levels[v].head)

\* MUTANT: joins at the head.
PushFront(h, v, o) ==
    LET lvl == h.levels[v]
    IN  [h EXCEPT !.orders = SetPrev([@ EXCEPT ![o].next = lvl.head, ![o].prev = Null],
                                     lvl.head, o),
                  !.levels[v] = [lvl EXCEPT !.tail = IF @ = Null THEN o ELSE @,
                                            !.head = o,
                                            !.total = @ + h.orders[o].shares,
                                            !.count = @ + 1]]

(* PriceLevel::push_back                                                   *)
PushBack(h, v, o) ==
    LET lvl == h.levels[v]
    IN  [h EXCEPT !.orders = SetNext([@ EXCEPT ![o].next = Null, ![o].prev = lvl.tail],
                                     lvl.tail, o),
                  !.levels[v] = [lvl EXCEPT !.head = IF lvl.tail = Null THEN o ELSE @,
                                            !.tail = o,
                                            !.total = @ + h.orders[o].shares,
                                            !.count = @ + 1]]

\* MUTANT: the order behind o still points back at it.
UnlinkOneWay(h, v, o) ==
    LET next == h.orders[o].next
        prev == h.orders[o].prev
    IN  [h EXCEPT !.orders = [SetNext(@, prev, next) EXCEPT ![o] = BlankOrder],
                  !.levels[v].head = IF prev = Null THEN next ELSE @,
                  !.levels[v].tail = IF next = Null THEN prev ELSE @,
                  !.levels[v].count = @ - 1]

(* PriceLevel::unlink; the caller releases the order.                      *)
UnlinkOrder(h, v, o) ==
    LET next == h.orders[o].next
        prev == h.orders[o].prev
    IN  [h EXCEPT !.orders = [SetPrev(SetNext(@, prev, next), next, prev)
                                EXCEPT ![o] = BlankOrder],
                  !.levels[v].head = IF prev = Null THEN next ELSE @,
                  !.levels[v].tail = IF next = Null THEN prev ELSE @,
                  !.levels[v].count = @ - 1]

-----------------------------------------------------------------------------
(* find_level                                                              *)
FindLevel(h, s, p) == h.book.map[s][p]

(* FlatHashMap::insert: a known key is overwritten, a new one needs room.  *)
MapInsert(map, p, v) ==
    IF map[p] # Null \/ Cardinality({k \in Prices : map[k] # Null}) < MapCapacity
    THEN [map EXCEPT ![p] = v] ELSE map

(* The levels of a side that come before price p.                          *)
Better(h, s, p) ==
    {v \in Range(LevelList(h, s)) :
        IF s = "Buy" THEN h.pool.word[v] > p ELSE h.pool.word[v] < p}

\* MUTANT: the level behind does not point back at the new one.
InsertLevelSortedOneWay(h, s, v) ==
    LET list == LevelList(h, s)
        n == LeadingRun(list, Better(h, s, h.pool.word[v]))
        prev == IF n = 0 THEN Null ELSE list[n]
        cur == IF n = Len(list) THEN Null ELSE list[n + 1]
    IN  [h EXCEPT !.levels = SetNext([@ EXCEPT ![v].prev = prev, ![v].next = cur], prev, v),
                  !.book.best[s] = IF prev = Null THEN v ELSE @]

(* insert_level_sorted                                                     *)
InsertLevelSorted(h, s, v) ==
    LET list == LevelList(h, s)
        n == LeadingRun(list, Better(h, s, h.pool.word[v]))
        prev == IF n = 0 THEN Null ELSE list[n]
        cur == IF n = Len(list) THEN Null ELSE list[n + 1]
    IN  [h EXCEPT !.levels = SetPrev(SetNext([@ EXCEPT ![v].prev = prev, ![v].next = cur],
                                             prev, v), cur, v),
                  !.book.best[s] = IF prev = Null THEN v ELSE @]

InsertLevelIntoMap(h, s, v) ==
    [h EXCEPT !.book.map[s] = MapInsert(@, h.pool.word[v], v),
              !.book.nLevels[s] = @ + 1]

(* remove_level_from_list                                                  *)
RemoveLevelFromList(h, s, v) ==
    LET next == h.levels[v].next
        prev == h.levels[v].prev
    IN  [h EXCEPT !.levels = [SetPrev(SetNext(@, prev, next), next, prev)
                                EXCEPT ![v].prev = Null, ![v].next = Null],
                  !.book.best[s] = IF prev = Null THEN next ELSE @]

EraseLevelFromMap(h, s, v) ==
    [h EXCEPT !.book.map[s] = [p \in Prices |-> IF p = h.pool.word[v] THEN Null ELSE @[p]],
              !.book.nLevels[s] = @ - 1]

ReleaseLevel(h, v) ==
    [h EXCEPT !.pool = Release(@, v), !.levels[v] = BlankLevel]

(* A new level: acquire, reset, link.                                      *)
OpenLevel(h, s, p) ==
    LET v == h.pool.head
        fresh == [h EXCEPT !.pool = Construct(Acquire(@), v, p), !.levels[v] = BlankLevel]
    IN  InsertLevelIntoMap(InsertLevelSorted(fresh, s, v), s, v)

\* MUTANT: released first, so that the map is asked to erase a link.
CloseReleasedLevel(h, s, v) ==
    EraseLevelFromMap(ReleaseLevel(RemoveLevelFromList(h, s, v), v), s, v)

(* A level that has become empty: unlink, release.                         *)
CloseLevel(h, s, v) ==
    ReleaseLevel(EraseLevelFromMap(RemoveLevelFromList(h, s, v), s, v), v)

(* What execute_order and remove_order share once the order has to go.     *)
Detach(h, v, o) ==
    LET s == h.orders[o].side
        left == [UnlinkOrder(h, v, o) EXCEPT !.book.nOrders = @ - 1]
    IN  IF left.levels[v].count = 0 THEN CloseLevel(left, s, v) ELSE left

-----------------------------------------------------------------------------
(* add_order; the order is given back if there is no level for it.         *)
AddOrder(o, s, p, q) ==
    LET new == [Heap EXCEPT !.orders[o] = [side |-> s, price |-> p, shares |-> q,
                                           next |-> Null, prev |-> Null]]
        found == FindLevel(new, s, p)
        opened == IF found = Null THEN OpenLevel(new, s, p) ELSE new
        v == IF found = Null THEN pool.head ELSE found
    IN  /\ o \notin resting
        /\ found # Null \/ ~Exhausted(pool)
        /\ Commit([PushBack(opened, v, o) EXCEPT !.book.nOrders = @ + 1])
        /\ resting' = resting \cup {o}

(* execute_order, and cancel_order, which calls it.                        *)
ExecuteOrder(o, q) ==
    LET v == FindLevel(Heap, orders[o].side, orders[o].price)
        dead == q >= orders[o].shares
        filled == IF dead THEN orders[o].shares ELSE q
        reduced == [Heap EXCEPT !.levels[v].total = @ - filled,
                                !.orders[o].shares = @ - filled]
    IN  /\ o \in resting /\ v # Null
        /\ Commit(IF dead THEN Detach(reduced, v, o) ELSE reduced)
        /\ resting' = IF dead THEN resting \ {o} ELSE resting

(* remove_order                                                            *)
RemoveOrder(o) ==
    LET v == FindLevel(Heap, orders[o].side, orders[o].price)
    IN  /\ o \in resting /\ v # Null
        /\ Commit(Detach([Heap EXCEPT !.levels[v].total = @ - orders[o].shares], v, o))
        /\ resting' = resting \ {o}

(* for_each_order, as the orders it visits.                                *)
Visited(h) ==
    UNION {Range(Queue(h, v)) : v \in UNION {Range(LevelList(h, s)) : s \in Sides}}

(* clear_levels, after the caller has given back the orders visited: bids, *)
(* then asks, each next_level read before its level is released.           *)
ClearLevels ==
    LET list == LevelList(Heap, "Buy") \o LevelList(Heap, "Sell")
        released[n \in 0..Len(list)] ==
            IF n = 0 THEN pool ELSE Release(released[n - 1], list[n])
    IN  /\ orders' = [o \in OrderSlots |->
                         IF o \in Visited(Heap) THEN BlankOrder ELSE orders[o]]
        /\ levels' = [v \in LevelSlots |->
                         IF v \in Range(list) THEN BlankLevel ELSE levels[v]]
        /\ pool' = released[Len(list)]
        /\ book' = EmptyBook
        /\ resting' = resting \ Visited(Heap)

Next ==
    \/ ClearLevels
    \/ \E o \in OrderSlots :
          \/ RemoveOrder(o)
          \/ \E q \in Quantities :
                \/ ExecuteOrder(o, q)
                \/ \E s \in Sides, p \in Prices : AddOrder(o, s, p, q)

Spec == Init /\ [][Next]_vars

-----------------------------------------------------------------------------
(* Properties.                                                             *)

(* list is linked in both directions in mem.                               *)
Mirrored(mem, list) ==
    \A i \in DOMAIN list :
        mem[list[i]].prev = IF i = 1 THEN Null ELSE list[i - 1]

Linked(s) == Range(LevelList(Heap, s))

SharesOf(queue) ==
    FoldFunction(+, 0, [i \in DOMAIN queue |-> orders[queue[i]].shares])

(* The orders of a level, walked forwards from head_order, are the ones    *)
(* walked backwards from tail_order; order_count and total_shares count    *)
(* them; and the orders that rest are exactly those on the walks.  A wrong *)
(* prev_ is never read before a later unlink trusts it.                    *)
QueuesLinked ==
    /\ \A s \in Sides : \A v \in Linked(s) :
          LET queue == Queue(Heap, v)
          IN  /\ Mirrored(orders, queue)
              /\ levels[v].count = Len(queue) /\ queue # <<>>
              /\ levels[v].tail = queue[Len(queue)]
              /\ levels[v].total = SharesOf(queue)
              /\ \A o \in Range(queue) : orders[o].side = s /\ orders[o].price = pool.word[v]
    /\ resting = Visited(Heap)
    /\ book.nOrders = Cardinality(resting)

(* The levels of a side hang off its best one in both directions, strictly *)
(* from best to worst, and the map of the side finds them all and nothing  *)
(* else.                                                                   *)
LevelsLinked ==
    \A s \in Sides :
        LET list == LevelList(Heap, s)
            px(i) == pool.word[list[i]]
        IN  /\ Mirrored(levels, list)
            /\ book.nLevels[s] = Len(list)
            /\ \A i, j \in DOMAIN list : i < j =>
                  IF s = "Buy" THEN px(i) > px(j) ELSE px(i) < px(j)
            /\ \A i \in DOMAIN list : book.map[s][px(i)] = list[i]
            /\ \A p \in Prices : book.map[s][p] # Null => book.map[s][p] \in Range(list)

(* The free list inside the slots holds each slot once that is in neither  *)
(* list of levels, and no other: a slot is never handed out twice and      *)
(* never lost, whatever its owner wrote over the link.                     *)
FreeListWhole ==
    LET free == FreeList(pool)
    IN  /\ IsInjective(free)
        /\ Range(free) = LevelSlots \ UNION {Linked(s) : s \in Sides}

(* The one book as MarketBook sees it; an order is known by its slot.      *)
Market ==
    [l \in {1} |-> [s \in Sides |-> [p \in Prices |->
        LET v == book.map[s][p]
            queue == IF v = Null THEN <<>> ELSE Queue(Heap, v)
        IN  [i \in DOMAIN queue |-> [id |-> queue[i], shares |-> orders[queue[i]].shares]]]]]

MB == INSTANCE MarketBook WITH market <- Market, Locates <- {1}, Ids <- OrderSlots

(* Hand-made links amount to queues in time priority.                      *)
ImplementsMarketBook == MB!Spec

=============================================================================
