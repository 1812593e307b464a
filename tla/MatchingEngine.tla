--------------------------- MODULE MatchingEngine ---------------------------
(***************************************************************************)
(* The order-book rebuild engine: MatchingEngine with the OrderBooks, the  *)
(* price levels, the two shared memory pools and the order index it owns.  *)
(*                                                                         *)
(* One action is one message handler on_*.  The engine runs on one thread, *)
(* so a handler is one step; what is hard is the bookkeeping a handler has *)
(* to keep consistent over five structures (index, order slots, level      *)
(* slots, per-book lists, counters) along every early return.              *)
(*                                                                         *)
(* Abstractions.  An intrusive list is the sequence of slots it links; the *)
(* free list of a pool is a bag of slots (which free slot comes first does *)
(* not matter, a slot on the list twice does); the order index is a map    *)
(* from ids to slots; the level map never fills up.  MPIDs, timestamps,    *)
(* match numbers, the high-water marks peak_* and the attributes of an     *)
(* instrument that no handler reads are left out.                          *)
(***************************************************************************)
EXTENDS Integers, Sequences, FiniteSets, Functions, Lists

CONSTANTS
    Locates,     \* StockLocate values in use
    Ids,         \* OrderReferenceNumber values in use
    Prices,      \* Price values in use
    Quantities,  \* Shares values a message may carry
    OrderSlots,  \* slots of order_pool_
    LevelSlots,  \* slots of level_pool_
    EmptyPrice,  \* kEmptyPrice, the key that marks a free cell of a level map
    Null         \* nullptr

ASSUME LocatesNonempty == Locates # {}
ASSUME PricesAreNat == Prices # {} /\ Prices \subseteq Nat /\ EmptyPrice \in Nat
ASSUME QuantitiesAreNat == Quantities \subseteq Nat
ASSUME PoolsAreFinite == IsFiniteSet(OrderSlots) /\ IsFiniteSet(LevelSlots)
ASSUME NullIsNoSlot == Null \notin OrderSlots \cup LevelSlots \cup Ids

VARIABLES
    orders,      \* memory of the order slots
    freeOrders,  \* how often each order slot is on the free list
    levels,      \* memory of the level slots
    freeLevels,  \* how often each level slot is on the free list
    book,        \* the OrderBook of each instrument
    instruments, \* whether an Instrument and its book exist
    index,       \* order_index_: id -> order slot or Null
    live,        \* stats_.live_orders and stats_.live_levels
    counted      \* the counters of EngineStats the last message incremented

vars == <<orders, freeOrders, levels, freeLevels, book, instruments, index,
          live, counted>>

Sides == {"Buy", "Sell"}

(* A slot on a free list is never read before it is constructed again; its *)
(* contents are given one fixed value.                                     *)
BlankOrder ==
    [id |-> Null, locate |-> CHOOSE l \in Locates : TRUE, side |-> "Buy",
     price |-> CHOOSE p \in Prices : TRUE, shares |-> 0]
BlankLevel == [price |-> 0, total |-> 0, queue |-> <<>>]

EmptyBook ==
    [list    |-> [s \in Sides |-> <<>>],
     map     |-> [s \in Sides |-> [p \in Prices |-> Null]],
     nLevels |-> [s \in Sides |-> 0],
     nOrders |-> 0]

-----------------------------------------------------------------------------
(* The memory a handler works on.  The operators below take it and return  *)
(* it changed, so that a handler can do several things in a row.  An       *)
(* operator whose comment starts with MUTANT is no part of the engine: it  *)
(* is the next operator with a bug, to show which property notices it.     *)
Heap == [orders |-> orders, freeOrders |-> freeOrders, levels |-> levels,
         freeLevels |-> freeLevels, book |-> book]

Commit(h) ==
    /\ orders' = h.orders
    /\ freeOrders' = h.freeOrders
    /\ levels' = h.levels
    /\ freeLevels' = h.freeLevels
    /\ book' = h.book

(* MemoryPool::acquire: a slot of the free list, nullptr if there is none. *)
Acquirable(free) ==
    IF \A x \in DOMAIN free : free[x] = 0 THEN {Null}
    ELSE {x \in DOMAIN free : free[x] > 0}

TakeOrder(h, o) == [h EXCEPT !.freeOrders[o] = @ - 1]

ReleaseOrder(h, o) ==
    [h EXCEPT !.freeOrders[o] = @ + 1, !.orders[o] = BlankOrder]

NewOrder(h, o, id, l, s, p, q) ==
    [h EXCEPT !.orders[o] =
        [id |-> id, locate |-> l, side |-> s, price |-> p, shares |-> q]]

-----------------------------------------------------------------------------
(* One OrderBook.                                                          *)

(* FlatHashMap with kEmpty = kEmptyPrice: that key is never found, and     *)
(* storing it or erasing it leaves the map as it was.                      *)
FindLevel(h, l, s, p) == IF p = EmptyPrice THEN Null ELSE h.book[l].map[s][p]
MapSet(map, p, v) == IF p = EmptyPrice THEN map ELSE [map EXCEPT ![p] = v]

(* The levels of the list of a side that the insertion walk passes.        *)
Better(h, list, s, p) ==
    {v \in Range(list) : IF s = "Buy" THEN h.levels[v].price > p
                                      ELSE h.levels[v].price < p}

(* insert_level_sorted and insert_level_into_map on book b.                *)
LinkLevel(h, b, s, p, v) ==
    [b EXCEPT !.list[s] = InsertAfterRun(@, Better(h, @, s, p), v),
              !.map[s] = MapSet(@, p, v),
              !.nLevels[s] = @ + 1]

\* MUTANT: the map still finds the level.
UnlinkLevelKeepsKey(b, s, p, v) ==
    [b EXCEPT !.list[s] = Unlink(@, v), !.nLevels[s] = @ - 1]

(* remove_level_from_list and erase_level_from_map on book b.              *)
UnlinkLevel(b, s, p, v) ==
    [b EXCEPT !.list[s] = Unlink(@, v),
              !.map[s] = MapSet(@, p, Null),
              !.nLevels[s] = @ - 1]

OpenLevel(h, l, s, p, v) ==
    [h EXCEPT !.freeLevels[v] = @ - 1,
              !.levels[v] = [price |-> p, total |-> 0, queue |-> <<>>],
              !.book[l] = LinkLevel(h, h.book[l], s, p, v)]

\* MUTANT: the slot is not given back.
CloseLevelKeepsSlot(h, l, s, v) ==
    [h EXCEPT !.levels[v] = BlankLevel,
              !.book[l] = UnlinkLevel(h.book[l], s, h.levels[v].price, v)]

CloseLevel(h, l, s, v) ==
    [h EXCEPT !.freeLevels[v] = @ + 1,
              !.levels[v] = BlankLevel,
              !.book[l] = UnlinkLevel(h.book[l], s, h.levels[v].price, v)]

\* MUTANT: last in, first out.
EnqueueInFront(level, o, q) ==
    [level EXCEPT !.queue = <<o>> \o @, !.total = @ + q]

(* PriceLevel::push_back of an order with q shares.                        *)
Enqueue(level, o, q) ==
    [level EXCEPT !.queue = Append(@, o), !.total = @ + q]

PushBack(h, l, v, o) ==
    [h EXCEPT !.levels[v] = Enqueue(h.levels[v], o, h.orders[o].shares),
              !.book[l].nOrders = @ + 1]

(* OrderBook::add_order: its outcomes, one per level slot it may acquire.  *)
BookAdd(h, l, o) ==
    LET s == h.orders[o].side
        p == h.orders[o].price
        found == FindLevel(h, l, s, p)
    IN  IF found # Null THEN {[rc |-> 1, heap |-> PushBack(h, l, found, o)]}
        ELSE {IF v = Null THEN [rc |-> 0, heap |-> h]
              ELSE [rc |-> 2, heap |-> PushBack(OpenLevel(h, l, s, p, v), l, v, o)]
                : v \in Acquirable(h.freeLevels)}

(* What execute_order and remove_order share once the order has to go.     *)
Detach(h, l, v, o) ==
    LET rest == Unlink(h.levels[v].queue, o)
        left == [h EXCEPT !.levels[v].queue = rest, !.book[l].nOrders = @ - 1]
    IN  IF rest = <<>>
        THEN [rc |-> 2, heap |-> CloseLevel(left, l, h.orders[o].side, v)]
        ELSE [rc |-> 1, heap |-> left]

\* MUTANT: a fill for more than the order has left is not cut down to it.
BookExecuteUncut(h, l, o, q) ==
    LET ord == h.orders[o]
        v == FindLevel(h, l, ord.side, ord.price)
        reduced == [h EXCEPT !.levels[v].total = @ - q, !.orders[o].shares = @ - q]
    IN  CASE v = Null -> [rc |-> -1, heap |-> h]
          [] v # Null /\ q # ord.shares -> [rc |-> 0, heap |-> reduced]
          [] v # Null /\ q = ord.shares -> Detach(reduced, l, v, o)

\* MUTANT: an order filled to the last share stays.
BookExecuteKeepsDead(h, l, o, q) ==
    LET ord == h.orders[o]
        v == FindLevel(h, l, ord.side, ord.price)
        filled == IF q >= ord.shares THEN ord.shares ELSE q
        reduced == [h EXCEPT !.levels[v].total = @ - filled,
                             !.orders[o].shares = @ - filled]
    IN  CASE v = Null -> [rc |-> -1, heap |-> h]
          [] v # Null /\ q <= ord.shares -> [rc |-> 0, heap |-> reduced]
          [] v # Null /\ q > ord.shares -> Detach(reduced, l, v, o)

(* OrderBook::execute_order, and cancel_order, which calls it.             *)
BookExecute(h, l, o, q) ==
    LET ord == h.orders[o]
        v == FindLevel(h, l, ord.side, ord.price)
        filled == IF q >= ord.shares THEN ord.shares ELSE q
        reduced == [h EXCEPT !.levels[v].total = @ - filled,
                             !.orders[o].shares = @ - filled]
    IN  CASE v = Null -> [rc |-> -1, heap |-> h]
          [] v # Null /\ q < ord.shares -> [rc |-> 0, heap |-> reduced]
          [] v # Null /\ q >= ord.shares -> Detach(reduced, l, v, o)

\* MUTANT: unlink where unlink_and_deduct is due.
BookRemoveNoDeduct(h, l, o) ==
    LET v == FindLevel(h, l, h.orders[o].side, h.orders[o].price)
    IN  IF v = Null THEN [rc |-> 0, heap |-> h] ELSE Detach(h, l, v, o)

(* OrderBook::remove_order.                                                *)
BookRemove(h, l, o) ==
    LET ord == h.orders[o]
        v == FindLevel(h, l, ord.side, ord.price)
    IN  IF v = Null THEN [rc |-> 0, heap |-> h]
        ELSE Detach([h EXCEPT !.levels[v].total = @ - ord.shares], l, v, o)

\* MUTANT: one side only.
LevelsOfBids(h, l) == Range(h.book[l].list["Buy"])

LevelsOf(h, l) == Range(h.book[l].list["Buy"]) \cup Range(h.book[l].list["Sell"])

(* OrderBook::for_each_order, as the set of orders it visits.              *)
OrdersOf(h, l) == UNION {Range(h.levels[v].queue) : v \in LevelsOf(h, l)}

(* OrderBook::clear_levels.                                                *)
ClearLevels(h, l) ==
    [h EXCEPT !.freeLevels = [v \in LevelSlots |->
                    IF v \in LevelsOf(h, l) THEN @[v] + 1 ELSE @[v]],
              !.levels = [v \in LevelSlots |->
                    IF v \in LevelsOf(h, l) THEN BlankLevel ELSE @[v]],
              !.book[l] = EmptyBook]

-----------------------------------------------------------------------------
Init ==
    /\ orders = [o \in OrderSlots |-> BlankOrder]
    /\ freeOrders = [o \in OrderSlots |-> 1]
    /\ levels = [v \in LevelSlots |-> BlankLevel]
    /\ freeLevels = [v \in LevelSlots |-> 1]
    /\ book = [l \in Locates |-> EmptyBook]
    /\ instruments = [l \in Locates |-> "absent"]
    /\ index = [id \in Ids |-> Null]
    /\ live = [orders |-> 0, levels |-> 0]
    /\ counted = {}

(* The counters only: the message is dropped.                              *)
Reject(counters) ==
    /\ counted' = counters
    /\ UNCHANGED <<orders, freeOrders, levels, freeLevels, book, index, live>>

(* `if (n >= k) n -= k; else n = 0'                                        *)
Decrease(n, k) == IF n >= k THEN n - k ELSE 0

Home(id) == orders[index[id]].locate

(* A message that names the wrong instrument is redirected to the home of  *)
(* the order, and counted.                                                 *)
Mismatch(l, id) ==
    IF index[id] # Null /\ Home(id) # l THEN {"locate_mismatches"} ELSE {}

Known(id) == index[id] # Null /\ instruments[Home(id)] = "booked"

\* MUTANT: the order slot is not given back.
RetireKeepsSlot(h, id, rc) ==
    /\ Commit(h)
    /\ index' = [index EXCEPT ![id] = Null]
    /\ live' = [orders |-> Decrease(live.orders, 1),
                levels |-> IF rc = 2 THEN Decrease(live.levels, 1) ELSE live.levels]

\* MUTANT: the index still knows the order.
RetireKeepsIndex(h, id, rc) ==
    /\ Commit(ReleaseOrder(h, index[id]))
    /\ live' = [orders |-> Decrease(live.orders, 1),
                levels |-> IF rc = 2 THEN Decrease(live.levels, 1) ELSE live.levels]
    /\ UNCHANGED index

\* MUTANT: the gauge of levels is forgotten.
RetireKeepsLevelGauge(h, id, rc) ==
    /\ Commit(ReleaseOrder(h, index[id]))
    /\ index' = [index EXCEPT ![id] = Null]
    /\ live' = [live EXCEPT !.orders = Decrease(@, 1)]

(* The tail of a handler that took the order out of its book: index, pool  *)
(* and gauges follow.  h is the heap remove_order or execute_order left.   *)
Retire(h, id, rc) ==
    /\ Commit(ReleaseOrder(h, index[id]))
    /\ index' = [index EXCEPT ![id] = Null]
    /\ live' = [orders |-> Decrease(live.orders, 1),
                levels |-> IF rc = 2 THEN Decrease(live.levels, 1) ELSE live.levels]

\* MUTANT: no check.
NeverDuplicate(id) == FALSE

(* order_index_.find(id) != nullptr on the id of an order about to be added. *)
Duplicate(id) == index[id] # Null

\* MUTANT: the slot leaks.
AbandonLeaks(h, o) == Commit(h)

(* No level slot for the new order: its own slot goes back to the pool.    *)
Abandon(h, o) == Commit(ReleaseOrder(h, o))

(* on_stock_directory; the instrument may already exist.                   *)
OnStockDirectory(l) ==
    /\ instruments' = [instruments EXCEPT ![l] = IF @ = "absent" THEN "listed" ELSE @]
    /\ Reject(IF instruments[l] = "absent" THEN {"instruments_registered"} ELSE {})

(* on_add_order ('A', 'F').                                                *)
OnAddOrder(l, id, s, q, p) ==
    \/ /\ Duplicate(id)
       /\ Reject({"duplicate_adds", "unknown_order_events"})
       /\ UNCHANGED instruments
    \/ /\ ~Duplicate(id)
       /\ instruments' = [instruments EXCEPT ![l] = "booked"]
       /\ \E o \in Acquirable(freeOrders) :
            \/ /\ o = Null
               /\ Reject({"add_rejected_pool_exhausted", "pool_exhausted"})
            \/ /\ o # Null
               /\ \E r \in BookAdd(NewOrder(TakeOrder(Heap, o), o, id, l, s, p, q), l, o) :
                    \/ /\ r.rc = 0
                       /\ Abandon(r.heap, o)
                       /\ counted' = {"add_rejected_level_pool_exhausted", "pool_exhausted"}
                       /\ UNCHANGED <<index, live>>
                    \/ /\ r.rc # 0
                       /\ Commit(r.heap)
                       /\ index' = [index EXCEPT ![id] = o]
                       /\ live' = [orders |-> live.orders + 1,
                                   levels |-> live.levels + (IF r.rc = 2 THEN 1 ELSE 0)]
                       /\ counted' = {"add_orders"}

(* What on_order_executed, on_order_executed_with_price and on_order_cancel *)
(* do, up to the counter of accepted messages.                             *)
Reduce(counter, l, id, q) ==
    /\ UNCHANGED instruments
    /\ \/ /\ ~Known(id)
          /\ Reject(Mismatch(l, id) \cup {"unknown_order_events"})
       \/ /\ Known(id)
          /\ LET r == BookExecute(Heap, Home(id), index[id], q)
             IN  \/ /\ r.rc = -1
                    /\ Reject(Mismatch(l, id) \cup {"level_missing", "unknown_order_events"})
                 \/ /\ r.rc = 0
                    /\ Commit(r.heap)
                    /\ counted' = Mismatch(l, id) \cup {counter}
                    /\ UNCHANGED <<index, live>>
                 \/ /\ r.rc > 0
                    /\ Retire(r.heap, id, r.rc)
                    /\ counted' = Mismatch(l, id) \cup {counter}

OnOrderExecuted(l, id, q) == Reduce("order_executed", l, id, q)
OnOrderExecutedWithPrice(l, id, q) == Reduce("order_executed_with_price", l, id, q)
OnOrderCancel(l, id, q) == Reduce("order_cancel", l, id, q)

(* on_order_delete ('D').                                                  *)
OnOrderDelete(l, id) ==
    /\ UNCHANGED instruments
    /\ \/ /\ ~Known(id)
          /\ Reject(Mismatch(l, id) \cup {"unknown_order_events"})
       \/ /\ Known(id)
          /\ LET r == BookRemove(Heap, Home(id), index[id])
             IN  \/ /\ r.rc = 0
                    /\ Reject(Mismatch(l, id) \cup {"level_missing", "unknown_order_events"})
                 \/ /\ r.rc # 0
                    /\ Retire(r.heap, id, r.rc)
                    /\ counted' = Mismatch(l, id) \cup {"order_delete"}

(* The second half of on_order_replace: the old order is gone, slot o is   *)
(* at hand, and the new order goes into the book.  The old order's level   *)
(* may just have been released, so this may acquire the same slot.         *)
Substitute(h, l, old, id, o, s, q, p, rm, mismatch) ==
    \E r \in BookAdd(NewOrder(ReleaseOrder(h, index[old]), o, id, l, s, p, q), l, o) :
        LET liveOrders == Decrease(live.orders, 1)
            liveLevels == IF rm = 2 THEN Decrease(live.levels, 1) ELSE live.levels
        IN  \/ /\ r.rc = 0
               /\ Abandon(r.heap, o)
               /\ index' = [index EXCEPT ![old] = Null]
               /\ live' = [orders |-> liveOrders, levels |-> liveLevels]
               /\ counted' = mismatch \cup
                    {"add_rejected_level_pool_exhausted", "pool_exhausted"}
            \/ /\ r.rc # 0
               /\ Commit(r.heap)
               /\ index' = [index EXCEPT ![old] = Null, ![id] = o]
               /\ live' = [orders |-> liveOrders + 1,
                           levels |-> liveLevels + (IF r.rc = 2 THEN 1 ELSE 0)]
               /\ counted' = mismatch \cup {"order_replace"}

(* on_order_replace ('U').                                                 *)
OnOrderReplace(l, old, id, q, p) ==
    /\ UNCHANGED instruments
    /\ \/ /\ index[old] = Null
          /\ Reject({"unknown_order_events"})
       \/ /\ index[old] # Null
          /\ Duplicate(id)
          /\ Reject(Mismatch(l, old) \cup {"duplicate_adds", "unknown_order_events"})
       \/ /\ index[old] # Null
          /\ ~Duplicate(id)
          /\ IF ~Known(old)
             THEN Reject(Mismatch(l, old) \cup {"unknown_order_events"})
             ELSE \E o \in Acquirable(freeOrders) :
                    \/ /\ o = Null
                       /\ Reject(Mismatch(l, old) \cup
                            {"replace_rejected_pool_exhausted", "pool_exhausted"})
                    \/ /\ o # Null
                       /\ LET r == BookRemove(TakeOrder(Heap, o), Home(old), index[old])
                          IN  \/ /\ r.rc = 0
                                 /\ Reject(Mismatch(l, old) \cup
                                      {"level_missing", "unknown_order_events"})
                              \/ /\ r.rc # 0
                                 /\ Substitute(r.heap, Home(old), old, id, o,
                                        orders[index[old]].side, q, p, r.rc,
                                        Mismatch(l, old))

(* on_cross_trade ('Q'): only the closing cross clears the book.           *)
OnCrossTrade(l, closing) ==
    /\ counted' = {"cross_trades"}
    /\ UNCHANGED instruments
    /\ IF ~closing \/ instruments[l] # "booked"
       THEN UNCHANGED <<orders, freeOrders, levels, freeLevels, book, index, live>>
       ELSE LET gone == OrdersOf(Heap, l)
                ids == {orders[o].id : o \in gone}
            IN  /\ Commit([ClearLevels(Heap, l) EXCEPT
                      !.orders = [o \in OrderSlots |->
                            IF o \in gone THEN BlankOrder ELSE @[o]],
                      !.freeOrders = [o \in OrderSlots |->
                            IF o \in gone THEN @[o] + 1 ELSE @[o]]])
                /\ index' = [id \in Ids |-> IF id \in ids THEN Null ELSE index[id]]
                /\ live' = [orders |-> Decrease(live.orders, Cardinality(gone)),
                            levels |-> Decrease(live.levels,
                                         book[l].nLevels["Buy"] + book[l].nLevels["Sell"])]

(* on_non_cross_trade ('P') and on_broken_trade ('B'): informational.      *)
OnNonCrossTrade == Reject({"non_cross_trades"}) /\ UNCHANGED instruments
OnBrokenTrade == Reject({"broken_trades"}) /\ UNCHANGED instruments

Next ==
    \/ OnNonCrossTrade
    \/ OnBrokenTrade
    \/ \E l \in Locates :
          \/ OnStockDirectory(l)
          \/ \E closing \in BOOLEAN : OnCrossTrade(l, closing)
          \/ \E id \in Ids :
                \/ OnOrderDelete(l, id)
                \/ \E q \in Quantities :
                      \/ OnOrderExecuted(l, id, q)
                      \/ OnOrderExecutedWithPrice(l, id, q)
                      \/ OnOrderCancel(l, id, q)
                \/ \E q \in Quantities, p \in Prices :
                      \/ \E s \in Sides : OnAddOrder(l, id, s, q, p)
                      \/ \E new \in Ids : OnOrderReplace(l, id, new, q, p)

Spec == Init /\ [][Next]_vars

-----------------------------------------------------------------------------
(* Properties.                                                             *)

OrderRecords ==
    [id : Ids \cup {Null}, locate : Locates, side : Sides, price : Prices,
     shares : Nat]
LevelRecords == [price : Nat, total : Int, queue : Seq(OrderSlots)]
BookRecords ==
    [list    : [Sides -> Seq(LevelSlots)],
     map     : [Sides -> [Prices -> LevelSlots \cup {Null}]],
     nLevels : [Sides -> Int],
     nOrders : Int]

Counters ==
    {"add_orders", "order_executed", "order_executed_with_price", "order_cancel",
     "order_delete", "order_replace", "non_cross_trades", "cross_trades",
     "broken_trades", "instruments_registered", "add_rejected_pool_exhausted",
     "add_rejected_level_pool_exhausted", "replace_rejected_pool_exhausted",
     "duplicate_adds", "locate_mismatches", "level_missing",
     "unknown_order_events", "pool_exhausted"}

(* Every variable has its type; the gauges live_orders and live_levels     *)
(* never go below zero.                                                    *)
TypeOK ==
    /\ orders \in [OrderSlots -> OrderRecords]
    /\ freeOrders \in [OrderSlots -> Int]
    /\ levels \in [LevelSlots -> LevelRecords]
    /\ freeLevels \in [LevelSlots -> Int]
    /\ book \in [Locates -> BookRecords]
    /\ instruments \in [Locates -> {"absent", "listed", "booked"}]
    /\ index \in [Ids -> OrderSlots \cup {Null}]
    /\ live \in [orders : Nat, levels : Nat]
    /\ counted \subseteq Counters

(* Where a slot is linked: an order in queues, a level in lists.           *)
QueuePlaces(o) ==
    {x \in LevelSlots \X (1..Cardinality(OrderSlots)) :
        x[2] \in DOMAIN levels[x[1]].queue /\ levels[x[1]].queue[x[2]] = o}
ListPlaces(v) ==
    {x \in Locates \X Sides \X (1..Cardinality(LevelSlots)) :
        LET list == book[x[1]].list[x[2]]
        IN  x[3] \in DOMAIN list /\ list[x[3]] = v}

(* Every order slot is on the free list once and nowhere else, or is in    *)
(* one queue of one book, once, and is named by exactly one id of the      *)
(* index: no path through the handlers leaks a slot, releases it twice or  *)
(* links it twice.                                                         *)
OrderSlotsAccounted ==
    \A o \in OrderSlots :
        /\ freeOrders[o] \in {0, 1}
        /\ Cardinality(QueuePlaces(o)) = 1 - freeOrders[o]
        /\ Cardinality({id \in Ids : index[id] = o}) = 1 - freeOrders[o]

(* Every level slot is on the free list once and in no book, or is in one  *)
(* list of one book, once.                                                 *)
LevelSlotsAccounted ==
    \A v \in LevelSlots :
        /\ freeLevels[v] \in {0, 1}
        /\ Cardinality(ListPlaces(v)) = 1 - freeLevels[v]

(* The index never dangles: the slot it gives for an id holds the order    *)
(* with that id, the order's instrument has a book, and the order rests in *)
(* that book on its side at its price.                                     *)
IndexAgreesWithBook ==
    \A id \in Ids : index[id] # Null =>
        LET o == index[id]
            ord == orders[o]
        IN  /\ ord.id = id
            /\ instruments[ord.locate] = "booked"
            /\ \E v \in Range(book[ord.locate].list[ord.side]) :
                  levels[v].price = ord.price /\ o \in Range(levels[v].queue)

(* Best price first, one level per price, no empty level, and the map of a *)
(* side finds exactly the levels of its list.  (Levels at kEmptyPrice      *)
(* cannot be found and are exempt from being unique and found.)            *)
BooksSorted ==
    \A l \in Locates, s \in Sides :
        LET list == book[l].list[s]
            px(i) == levels[list[i]].price
        IN  /\ \A i, j \in DOMAIN list : i < j =>
                    \/ IF s = "Buy" THEN px(i) > px(j) ELSE px(i) < px(j)
                    \/ px(i) = EmptyPrice /\ px(j) = EmptyPrice
            /\ \A i \in DOMAIN list :
                    /\ levels[list[i]].queue # <<>>
                    /\ FindLevel(Heap, l, s, px(i)) =
                          IF px(i) = EmptyPrice THEN Null ELSE list[i]
            /\ \A p \in Prices : book[l].map[s][p] # Null =>
                    book[l].map[s][p] \in Range(list)

SharesOf(queue) ==
    FoldFunction(+, 0, [i \in DOMAIN queue |-> orders[queue[i]].shares])

(* The total of a level, which best_bid_shares and best_ask_shares report, *)
(* is the sum of what its orders have left, and never wraps below zero.    *)
TotalsMatch ==
    \A v \in LevelSlots : levels[v].total = SharesOf(levels[v].queue)

Used(free) == {x \in DOMAIN free : free[x] = 0}

(* When the report warns of an accounting bug or of a leak.                *)
LeakWarning ==
    \/ live.orders # 0 /\ Used(freeOrders) = {}
    \/ live.orders = 0 /\ Used(freeOrders) # {}

(* The end-of-day leak check cannot fire: the gauges, the counts of the    *)
(* books, the size of the index and the pools tell the same story at every *)
(* message boundary.                                                       *)
GaugesMatch ==
    /\ ~LeakWarning
    /\ live.orders = Cardinality(Used(freeOrders))
    /\ live.orders = Cardinality({id \in Ids : index[id] # Null})
    /\ live.levels = Cardinality(Used(freeLevels))
    /\ \A l \in Locates :
          /\ book[l].nOrders = Cardinality(OrdersOf(Heap, l))
          /\ \A s \in Sides : book[l].nLevels[s] = Len(book[l].list[s])

(* While an id is indexed its slot, instrument, side and price stay, and   *)
(* its shares only shrink.  The handlers keep raw Order pointers across    *)
(* calls, and DirectOrderIndex reads order_id through its slots.           *)
OrdersStayPut ==
    [][\A id \in Ids : index[id] # Null /\ index'[id] # Null =>
          LET o == index[id]
          IN  /\ index'[id] = o
              /\ orders'[o] = [orders[o] EXCEPT !.shares = orders'[o].shares]
              /\ orders'[o].shares <= orders[o].shares]_vars

(* A closing cross leaves nothing of its instrument behind, orders that no *)
(* other message can reach any more included.                              *)
ClosingCrossReclaims ==
    [][\A l \in Locates : OnCrossTrade(l, TRUE) =>
          /\ \A id \in Ids : index'[id] # Null => orders'[index'[id]].locate # l
          /\ \A o \in OrderSlots : orders[o].id # Null /\ orders[o].locate = l =>
                freeOrders'[o] = freeOrders[o] + 1]_vars

-----------------------------------------------------------------------------
(* The resting orders a message can reach, as MarketBook sees them.        *)
Market ==
    [l \in Locates |-> [s \in Sides |-> [p \in Prices \ {EmptyPrice} |->
        LET v == FindLevel(Heap, l, s, p)
        IN  IF v = Null THEN <<>>
            ELSE [i \in DOMAIN levels[v].queue |->
                    [id |-> orders[levels[v].queue[i]].id,
                     shares |-> orders[levels[v].queue[i]].shares]]]]]

MB == INSTANCE MarketBook WITH market <- Market, Prices <- Prices \ {EmptyPrice}

(* The engine implements the abstract book: time priority is kept, every   *)
(* message touches one order (a replace: one order and its successor) of   *)
(* one book, and ids never clash.                                          *)
ImplementsMarketBook == MB!Spec

(* "on any failure leave the old order untouched" (on_order_replace): a    *)
(* message rejected for want of a level slot changes no book.              *)
LevelFailureKeepsBook ==
    [][ "add_rejected_level_pool_exhausted" \in counted' => Market' = Market ]_vars

(* "Rejected events (book unchanged)" (EngineStats), for locate_mismatches. *)
MismatchKeepsBook ==
    [][ "locate_mismatches" \in counted' => Market' = Market ]_vars

=============================================================================
