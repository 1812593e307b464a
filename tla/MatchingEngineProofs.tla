------------------------ MODULE MatchingEngineProofs ------------------------
(***************************************************************************)
(* Theorems about MatchingEngine, for every value of its constants: its    *)
(* state stays well typed, every message keeps EngineInv and with it what  *)
(* the runs check of pools, index, books and gauges, and the engine        *)
(* implements MarketBook.                                                  *)
(*                                                                         *)
(*  1. The argument works on the heap a handler passes along.              *)
(*     HeapInv(h, D) says that heap h is in order but for the order slots  *)
(*     D, which a handler has in its hands: taken from the pool, or        *)
(*     unlinked and not released.  Each operator of the model moves one    *)
(*     slot into or out of D, and between messages D is empty.             *)
(*  2. Consistent adds the index, the instruments and the gauges.  Every   *)
(*     handler is followed call by call, from the message to the heap it   *)
(*     commits.                                                            *)
(*  3. View(h) is the market that heap h shows, and QueueAt one queue of   *)
(*     it.  Each operator on the heap has a lemma that says what it does   *)
(*     to the view: acquiring, constructing and releasing a slot nothing,  *)
(*     because HeapInv has that slot in no queue; add_order appends to one *)
(*     queue or nothing; remove_order takes one entry out; execute_order   *)
(*     takes it out or makes it smaller; clearing empties one book.  Ids   *)
(*     are what tells two entries of a queue apart, which is why the index *)
(*     is in the argument.                                                 *)
(***************************************************************************)
EXTENDS MatchingEngine, ListLemmas

-----------------------------------------------------------------------------
(* The heap a handler works on.                                            *)
Heaps == [orders     : [OrderSlots -> OrderRecords],
          freeOrders : [OrderSlots -> Int],
          levels     : [LevelSlots -> LevelRecords],
          freeLevels : [LevelSlots -> Int],
          book       : [Locates -> BookRecords]]

(* Blank memory is of the type of what the slots hold.                     *)
LEMMA BlankTypes ==
    /\ BlankOrder \in OrderRecords
    /\ BlankLevel \in LevelRecords
    /\ EmptyBook \in BookRecords
<1>1. (CHOOSE l \in Locates : TRUE) \in Locates
  BY LocatesNonempty
<1>2. (CHOOSE p \in Prices : TRUE) \in Prices
  BY PricesAreNat
<1>3. BlankOrder \in OrderRecords
  BY <1>1, <1>2 DEF BlankOrder, OrderRecords, Sides
<1>4. BlankLevel \in LevelRecords
  BY EmptySeq DEF BlankLevel, LevelRecords
<1>5. EmptyBook \in BookRecords
  BY EmptySeq DEF EmptyBook, BookRecords
<1> QED  BY <1>3, <1>4, <1>5

(* The memory a handler starts from is well typed.                         *)
LEMMA HeapType == TypeOK => Heap \in Heaps
BY DEF TypeOK, Heap, Heaps

(* acquire keeps the memory well typed.                                    *)
LEMMA TakeType ==
    ASSUME NEW h \in Heaps, NEW o \in OrderSlots
    PROVE  TakeOrder(h, o) \in Heaps
BY DEF TakeOrder, Heaps

(* release keeps the memory well typed.                                    *)
LEMMA ReleaseType ==
    ASSUME NEW h \in Heaps, NEW o \in OrderSlots
    PROVE  ReleaseOrder(h, o) \in Heaps
<1>1. h.orders \in [OrderSlots -> OrderRecords] /\ h.freeOrders \in [OrderSlots -> Int]
  BY DEF Heaps
<1>2. [h.orders EXCEPT ![o] = BlankOrder] \in [OrderSlots -> OrderRecords]
  BY <1>1, BlankTypes
<1>3. [h.freeOrders EXCEPT ![o] = h.freeOrders[o] + 1] \in [OrderSlots -> Int]
  BY <1>1
<1>4. ReleaseOrder(h, o) = [h EXCEPT
          !.freeOrders = [h.freeOrders EXCEPT ![o] = h.freeOrders[o] + 1],
          !.orders = [h.orders EXCEPT ![o] = BlankOrder]]
  BY DEF ReleaseOrder
<1> QED  BY <1>2, <1>3, <1>4 DEF Heaps

(* So does constructing an order in a slot.                                *)
LEMMA NewOrderType ==
    ASSUME NEW h \in Heaps, NEW o \in OrderSlots, NEW id \in Ids,
           NEW l \in Locates, NEW s \in Sides, NEW p \in Prices,
           NEW q \in Quantities
    PROVE  NewOrder(h, o, id, l, s, p, q) \in Heaps
<1>1. [id |-> id, locate |-> l, side |-> s, price |-> p, shares |-> q] \in OrderRecords
  BY QuantitiesAreNat DEF OrderRecords
<1> QED  BY <1>1 DEF NewOrder, Heaps

(* The parts of a well-typed memory.                                       *)
LEMMA HeapParts ==
    ASSUME NEW h \in Heaps
    PROVE  /\ h.orders \in [OrderSlots -> OrderRecords]
           /\ h.freeOrders \in [OrderSlots -> Int]
           /\ h.levels \in [LevelSlots -> LevelRecords]
           /\ h.freeLevels \in [LevelSlots -> Int]
           /\ h.book \in [Locates -> BookRecords]
BY DEF Heaps

(* acquire returns a slot of its pool or nullptr.                          *)
LEMMA AcquirableType ==
    ASSUME NEW S, NEW free \in [S -> Int], NEW x \in Acquirable(free)
    PROVE  x \in S \cup {Null}
BY DEF Acquirable

(* find_level returns a level slot or nullptr.                             *)
LEMMA FindLevelType ==
    ASSUME NEW h \in Heaps, NEW l \in Locates, NEW s \in Sides, NEW p \in Prices
    PROVE  FindLevel(h, l, s, p) \in LevelSlots \cup {Null}
<1>1. h.book[l].map \in [Sides -> [Prices -> LevelSlots \cup {Null}]]
  BY HeapParts DEF BookRecords
<1> QED  BY <1>1 DEF FindLevel

(* Storing or erasing a key keeps a level map well typed.                  *)
LEMMA MapSetType ==
    ASSUME NEW map \in [Prices -> LevelSlots \cup {Null}], NEW p,
           NEW v \in LevelSlots \cup {Null}
    PROVE  MapSet(map, p, v) \in [Prices -> LevelSlots \cup {Null}]
BY DEF MapSet

(* Linking a level into the list and the map of a side.                    *)
LEMMA LinkLevelType ==
    ASSUME NEW h, NEW b \in BookRecords, NEW s \in Sides, NEW p, NEW v \in LevelSlots
    PROVE  LinkLevel(h, b, s, p, v) \in BookRecords
<1>1. b.list \in [Sides -> Seq(LevelSlots)]
  BY DEF BookRecords
<1>2. b.map \in [Sides -> [Prices -> LevelSlots \cup {Null}]]
  BY DEF BookRecords
<1>3. b.nLevels \in [Sides -> Int]
  BY DEF BookRecords
<1>4. InsertAfterRun(b.list[s], Better(h, b.list[s], s, p), v) \in Seq(LevelSlots)
  BY <1>1, InsertType
<1>5. MapSet(b.map[s], p, v) \in [Prices -> LevelSlots \cup {Null}]
  BY <1>2, MapSetType
<1>6. [b.list EXCEPT ![s] = InsertAfterRun(b.list[s], Better(h, b.list[s], s, p), v)] \in [Sides -> Seq(LevelSlots)]
  BY <1>1, <1>4
<1>7. [b.map EXCEPT ![s] = MapSet(b.map[s], p, v)] \in [Sides -> [Prices -> LevelSlots \cup {Null}]]
  BY <1>2, <1>5
<1>8. [b.nLevels EXCEPT ![s] = b.nLevels[s] + 1] \in [Sides -> Int]
  BY <1>3
<1>9. LinkLevel(h, b, s, p, v) =
        [b EXCEPT !.list = [b.list EXCEPT ![s] = InsertAfterRun(b.list[s], Better(h, b.list[s], s, p), v)],
                  !.map = [b.map EXCEPT ![s] = MapSet(b.map[s], p, v)],
                  !.nLevels = [b.nLevels EXCEPT ![s] = b.nLevels[s] + 1]]
  BY DEF LinkLevel, BookRecords
<1> QED  BY <1>6, <1>7, <1>8, <1>9 DEF BookRecords

(* Unlinking it from both.                                                 *)
LEMMA UnlinkLevelType ==
    ASSUME NEW b \in BookRecords, NEW s \in Sides, NEW p, NEW v \in LevelSlots
    PROVE  UnlinkLevel(b, s, p, v) \in BookRecords
<1>1. b.list \in [Sides -> Seq(LevelSlots)]
  BY DEF BookRecords
<1>2. b.map \in [Sides -> [Prices -> LevelSlots \cup {Null}]]
  BY DEF BookRecords
<1>3. b.nLevels \in [Sides -> Int]
  BY DEF BookRecords
<1>4. Unlink(b.list[s], v) \in Seq(LevelSlots)
  BY <1>1, UnlinkType
<1>5. MapSet(b.map[s], p, Null) \in [Prices -> LevelSlots \cup {Null}]
  BY <1>2, MapSetType
<1>6. [b.list EXCEPT ![s] = Unlink(b.list[s], v)] \in [Sides -> Seq(LevelSlots)]
  BY <1>1, <1>4
<1>7. [b.map EXCEPT ![s] = MapSet(b.map[s], p, Null)] \in [Sides -> [Prices -> LevelSlots \cup {Null}]]
  BY <1>2, <1>5
<1>8. [b.nLevels EXCEPT ![s] = b.nLevels[s] - 1] \in [Sides -> Int]
  BY <1>3
<1>9. UnlinkLevel(b, s, p, v) =
        [b EXCEPT !.list = [b.list EXCEPT ![s] = Unlink(b.list[s], v)],
                  !.map = [b.map EXCEPT ![s] = MapSet(b.map[s], p, Null)],
                  !.nLevels = [b.nLevels EXCEPT ![s] = b.nLevels[s] - 1]]
  BY DEF UnlinkLevel, BookRecords
<1> QED  BY <1>6, <1>7, <1>8, <1>9 DEF BookRecords

(* Opening a level keeps the memory well typed.                            *)
LEMMA OpenLevelType ==
    ASSUME NEW h \in Heaps, NEW l \in Locates, NEW s \in Sides, NEW p \in Prices,
           NEW v \in LevelSlots
    PROVE  OpenLevel(h, l, s, p, v) \in Heaps
<1> DEFINE lv == [price |-> p, total |-> 0, queue |-> <<>>]
           b == LinkLevel(h, h.book[l], s, p, v)
<1>1. lv \in LevelRecords
  BY PricesAreNat, EmptySeq DEF LevelRecords
<1>2. b \in BookRecords
  BY HeapParts, LinkLevelType
<1>3. OpenLevel(h, l, s, p, v) = [h EXCEPT
          !.freeLevels = [h.freeLevels EXCEPT ![v] = h.freeLevels[v] - 1],
          !.levels = [h.levels EXCEPT ![v] = lv],
          !.book = [h.book EXCEPT ![l] = b]]
  BY DEF OpenLevel, Heaps
<1>4. [h.freeLevels EXCEPT ![v] = h.freeLevels[v] - 1] \in [LevelSlots -> Int]
  BY HeapParts
<1> HIDE DEF lv, b
<1>5. [h.levels EXCEPT ![v] = lv] \in [LevelSlots -> LevelRecords]
  BY <1>1, HeapParts
<1>6. [h.book EXCEPT ![l] = b] \in [Locates -> BookRecords]
  BY <1>2, HeapParts
<1> QED  BY <1>3, <1>4, <1>5, <1>6 DEF Heaps

(* Closing a level keeps the memory well typed.                            *)
LEMMA CloseLevelType ==
    ASSUME NEW h \in Heaps, NEW l \in Locates, NEW s \in Sides, NEW v \in LevelSlots
    PROVE  CloseLevel(h, l, s, v) \in Heaps
<1> DEFINE b == UnlinkLevel(h.book[l], s, h.levels[v].price, v)
<1>1. b \in BookRecords
  BY HeapParts, UnlinkLevelType
<1>2. CloseLevel(h, l, s, v) = [h EXCEPT
          !.freeLevels = [h.freeLevels EXCEPT ![v] = h.freeLevels[v] + 1],
          !.levels = [h.levels EXCEPT ![v] = BlankLevel],
          !.book = [h.book EXCEPT ![l] = b]]
  BY DEF CloseLevel, Heaps
<1>3. [h.freeLevels EXCEPT ![v] = h.freeLevels[v] + 1] \in [LevelSlots -> Int]
  BY HeapParts
<1>4. [h.levels EXCEPT ![v] = BlankLevel] \in [LevelSlots -> LevelRecords]
  BY BlankTypes, HeapParts
<1> HIDE DEF b
<1>5. [h.book EXCEPT ![l] = b] \in [Locates -> BookRecords]
  BY <1>1, HeapParts
<1> QED  BY <1>2, <1>3, <1>4, <1>5 DEF Heaps

(* The heap with other contents in a level, and another count of orders.   *)
WriteLevel(h, l, v, lv, n) ==
    [h EXCEPT !.levels = [h.levels EXCEPT ![v] = lv],
              !.book = [h.book EXCEPT ![l] = [h.book[l] EXCEPT !.nOrders = n]]]

(* So does writing to a level.                                             *)
LEMMA WriteLevelType ==
    ASSUME NEW h \in Heaps, NEW l \in Locates, NEW v \in LevelSlots,
           NEW lv \in LevelRecords, NEW n \in Int
    PROVE  WriteLevel(h, l, v, lv, n) \in Heaps
<1>1. h.book[l] \in BookRecords
  BY HeapParts
<1>2. [h.book[l] EXCEPT !.nOrders = n] \in BookRecords
  BY <1>1 DEF BookRecords
<1>3. [h.book EXCEPT ![l] = [h.book[l] EXCEPT !.nOrders = n]] \in [Locates -> BookRecords]
  BY <1>2, HeapParts
<1>4. [h.levels EXCEPT ![v] = lv] \in [LevelSlots -> LevelRecords]
  BY HeapParts
<1> QED  BY <1>3, <1>4 DEF Heaps, WriteLevel

(* PriceLevel::push_back yields a level.                                   *)
LEMMA EnqueueType ==
    ASSUME NEW lv \in LevelRecords, NEW o \in OrderSlots, NEW q \in Int
    PROVE  Enqueue(lv, o, q) \in LevelRecords
<1>1. Append(lv.queue, o) \in Seq(OrderSlots)
  BY AppendProperties DEF LevelRecords
<1>2. lv.total + q \in Int
  BY DEF LevelRecords
<1> QED  BY <1>1, <1>2 DEF Enqueue, LevelRecords

(* Appending an order to its level keeps the memory well typed.            *)
LEMMA PushBackType ==
    ASSUME NEW h \in Heaps, NEW l \in Locates, NEW v \in LevelSlots, NEW o \in OrderSlots
    PROVE  PushBack(h, l, v, o) \in Heaps
<1> DEFINE lv == Enqueue(h.levels[v], o, h.orders[o].shares)
           n == h.book[l].nOrders + 1
<1>1. lv \in LevelRecords
  BY HeapParts, EnqueueType DEF OrderRecords
<1>2. n \in Int
  BY HeapParts DEF BookRecords
<1>3. PushBack(h, l, v, o) = WriteLevel(h, l, v, lv, n)
  BY DEF PushBack, Heaps, WriteLevel
<1> HIDE DEF lv, n
<1> QED  BY <1>1, <1>2, <1>3, WriteLevelType

-----------------------------------------------------------------------------
(* OrderBook's operations.                                                 *)
LEMMA OrderParts ==
    ASSUME NEW h \in Heaps, NEW o \in OrderSlots
    PROVE  /\ h.orders[o].side \in Sides
           /\ h.orders[o].price \in Prices
           /\ h.orders[o].locate \in Locates
           /\ h.orders[o].shares \in Nat
<1>1. h.orders[o] \in OrderRecords
  BY HeapParts
<1> QED  BY <1>1 DEF OrderRecords

(* OrderBook::add_order keeps the memory well typed, also when it fails.   *)
LEMMA BookAddType ==
    ASSUME NEW h \in Heaps, NEW l \in Locates, NEW o \in OrderSlots,
           NEW r \in BookAdd(h, l, o)
    PROVE  r.heap \in Heaps /\ r.rc \in {0, 1, 2}
<1> DEFINE s == h.orders[o].side
           p == h.orders[o].price
           found == FindLevel(h, l, s, p)
<1>1. s \in Sides /\ p \in Prices
  BY OrderParts
<1>2. found \in LevelSlots \cup {Null}
  BY <1>1, FindLevelType
<1>3. CASE found # Null
  <2>1. r = [rc |-> 1, heap |-> PushBack(h, l, found, o)]
    BY <1>3 DEF BookAdd
  <2> QED  BY <1>2, <1>3, <2>1, PushBackType
<1>4. CASE found = Null
  <2>1. PICK v \in Acquirable(h.freeLevels) :
          r = IF v = Null THEN [rc |-> 0, heap |-> h]
              ELSE [rc |-> 2, heap |-> PushBack(OpenLevel(h, l, s, p, v), l, v, o)]
    BY <1>4 DEF BookAdd
  <2>2. v \in LevelSlots \cup {Null}
    BY HeapParts, AcquirableType
  <2>3. CASE v = Null
    BY <2>1, <2>3
  <2>4. CASE v # Null
    <3>1. OpenLevel(h, l, s, p, v) \in Heaps
      BY <1>1, <2>2, <2>4, OpenLevelType
    <3>2. PushBack(OpenLevel(h, l, s, p, v), l, v, o) \in Heaps
      BY <2>2, <2>4, <3>1, PushBackType
    <3> QED  BY <2>1, <2>4, <3>2
  <2> QED  BY <2>3, <2>4
<1> QED  BY <1>3, <1>4

(* Taking an order out of its level keeps the memory well typed.           *)
LEMMA DetachType ==
    ASSUME NEW h \in Heaps, NEW l \in Locates, NEW v \in LevelSlots, NEW o \in OrderSlots
    PROVE  Detach(h, l, v, o).heap \in Heaps /\ Detach(h, l, v, o).rc \in {1, 2}
<1> DEFINE rest == Unlink(h.levels[v].queue, o)
           lv == [h.levels[v] EXCEPT !.queue = rest]
           n == h.book[l].nOrders - 1
           left == [h EXCEPT !.levels[v].queue = rest, !.book[l].nOrders = @ - 1]
<1>1. h.levels[v] \in LevelRecords /\ h.book[l] \in BookRecords
  BY HeapParts
<1>2. rest \in Seq(OrderSlots)
  BY <1>1, UnlinkType DEF LevelRecords
<1>3. lv \in LevelRecords
  BY <1>1, <1>2 DEF LevelRecords
<1>4. n \in Int
  BY <1>1 DEF BookRecords
<1>5. left = WriteLevel(h, l, v, lv, n)
  BY DEF WriteLevel, Heaps
<1>6. left \in Heaps
  <2> HIDE DEF left, lv, n
  <2> QED  BY <1>3, <1>4, <1>5, WriteLevelType
<1>7. CloseLevel(left, l, h.orders[o].side, v) \in Heaps
  <2> HIDE DEF left
  <2> QED  BY <1>6, OrderParts, CloseLevelType
<1>8. Detach(h, l, v, o) =
        IF rest = <<>>
        THEN [rc |-> 2, heap |-> CloseLevel(left, l, h.orders[o].side, v)]
        ELSE [rc |-> 1, heap |-> left]
  BY DEF Detach
<1> HIDE DEF left, rest
<1> QED  BY <1>6, <1>7, <1>8

(* execute_order and cancel_order never leave an order short of shares.    *)
LEMMA BookExecuteType ==
    ASSUME NEW h \in Heaps, NEW l \in Locates, NEW o \in OrderSlots,
           NEW q \in Quantities
    PROVE  /\ BookExecute(h, l, o, q).heap \in Heaps
           /\ BookExecute(h, l, o, q).rc \in {-1, 0, 1, 2}
<1> DEFINE ord == h.orders[o]
           v == FindLevel(h, l, ord.side, ord.price)
           filled == IF q >= ord.shares THEN ord.shares ELSE q
           reduced == [h EXCEPT !.levels[v].total = @ - filled,
                                !.orders[o].shares = @ - filled]
<1>1. ord \in OrderRecords /\ ord.shares \in Nat /\ q \in Nat
  BY HeapParts, OrderParts, QuantitiesAreNat
<1>2. v \in LevelSlots \cup {Null}
  BY OrderParts, FindLevelType
<1>3. CASE v = Null
  BY <1>3 DEF BookExecute
<1>4. CASE v # Null
  <2>1. v \in LevelSlots
    BY <1>2, <1>4
  <2>2. filled \in Nat /\ ord.shares - filled \in Nat
    BY <1>1
  <2>3. [ord EXCEPT !.shares = ord.shares - filled] \in OrderRecords
    BY <1>1, <2>2 DEF OrderRecords
  <2>4. [h.orders EXCEPT ![o] = [ord EXCEPT !.shares = ord.shares - filled]]
            \in [OrderSlots -> OrderRecords]
    BY <2>3, HeapParts
  <2>5. [h.levels[v] EXCEPT !.total = h.levels[v].total - filled] \in LevelRecords
    <3>1. h.levels[v] \in LevelRecords
      BY <2>1, HeapParts
    <3> HIDE DEF filled
    <3> QED  BY <2>2, <3>1, SMTT(90) DEF LevelRecords
  <2>6. [h.levels EXCEPT ![v] = [h.levels[v] EXCEPT !.total = h.levels[v].total - filled]]
            \in [LevelSlots -> LevelRecords]
    BY <2>5, HeapParts
  <2>7. reduced \in Heaps
    <3>1. reduced = [h EXCEPT
            !.levels = [h.levels EXCEPT ![v] =
                          [h.levels[v] EXCEPT !.total = h.levels[v].total - filled]],
            !.orders = [h.orders EXCEPT ![o] = [ord EXCEPT !.shares = ord.shares - filled]]]
      BY DEF Heaps
    <3> HIDE DEF reduced, v, filled, ord
    <3> QED  BY <2>4, <2>6, <3>1 DEF Heaps
  <2>8. CASE q < ord.shares
    <3>1. BookExecute(h, l, o, q) = [rc |-> 0, heap |-> reduced]
      BY <1>1, <1>4, <2>8 DEF BookExecute
    <3> HIDE DEF reduced
    <3> QED  BY <2>7, <3>1
  <2>9. CASE q >= ord.shares
    <3>1. BookExecute(h, l, o, q) = Detach(reduced, l, v, o)
      BY <1>1, <1>4, <2>9 DEF BookExecute
    <3> HIDE DEF reduced, v
    <3> QED  BY <2>1, <2>7, <3>1, DetachType
  <2> QED  BY <1>1, <2>8, <2>9
<1> QED  BY <1>3, <1>4

(* remove_order keeps the memory well typed.                               *)
LEMMA BookRemoveType ==
    ASSUME NEW h \in Heaps, NEW l \in Locates, NEW o \in OrderSlots
    PROVE  /\ BookRemove(h, l, o).heap \in Heaps
           /\ BookRemove(h, l, o).rc \in {0, 1, 2}
<1> DEFINE ord == h.orders[o]
           v == FindLevel(h, l, ord.side, ord.price)
           deducted == [h EXCEPT !.levels[v].total = @ - ord.shares]
<1>1. ord.shares \in Nat
  BY OrderParts
<1>2. v \in LevelSlots \cup {Null}
  BY OrderParts, FindLevelType
<1>3. CASE v = Null
  BY <1>3 DEF BookRemove
<1>4. CASE v # Null
  <2>1. v \in LevelSlots
    BY <1>2, <1>4
  <2>2. [h.levels[v] EXCEPT !.total = h.levels[v].total - ord.shares] \in LevelRecords
    <3>1. h.levels[v] \in LevelRecords
      BY <2>1, HeapParts
    <3> QED  BY <1>1, <3>1, SMTT(30) DEF LevelRecords
  <2>3. [h.levels EXCEPT ![v] =
            [h.levels[v] EXCEPT !.total = h.levels[v].total - ord.shares]]
            \in [LevelSlots -> LevelRecords]
    BY <2>2, HeapParts
  <2>4. deducted \in Heaps
    <3>1. deducted = [h EXCEPT !.levels = [h.levels EXCEPT ![v] =
                [h.levels[v] EXCEPT !.total = h.levels[v].total - ord.shares]]]
      BY DEF Heaps
    <3> HIDE DEF deducted, v, ord
    <3> QED  BY <2>3, <3>1 DEF Heaps
  <2>5. BookRemove(h, l, o) = Detach(deducted, l, v, o)
    BY <1>4 DEF BookRemove
  <2> HIDE DEF deducted, v
  <2> QED  BY <2>1, <2>4, <2>5, DetachType
<1> QED  BY <1>3, <1>4

(* clear_levels keeps the memory well typed.                               *)
LEMMA ClearLevelsType ==
    ASSUME NEW h \in Heaps, NEW l \in Locates
    PROVE  ClearLevels(h, l) \in Heaps
<1> DEFINE free == [v \in LevelSlots |->
                IF v \in LevelsOf(h, l) THEN h.freeLevels[v] + 1 ELSE h.freeLevels[v]]
           memory == [v \in LevelSlots |->
                IF v \in LevelsOf(h, l) THEN BlankLevel ELSE h.levels[v]]
<1>1. free \in [LevelSlots -> Int]
  BY HeapParts
<1>2. memory \in [LevelSlots -> LevelRecords]
  BY HeapParts, BlankTypes
<1>3. [h.book EXCEPT ![l] = EmptyBook] \in [Locates -> BookRecords]
  BY HeapParts, BlankTypes
<1>4. ClearLevels(h, l) = [h EXCEPT !.freeLevels = free, !.levels = memory,
                              !.book = [h.book EXCEPT ![l] = EmptyBook]]
  BY DEF ClearLevels, Heaps
<1> HIDE DEF free, memory
<1> QED  BY <1>1, <1>2, <1>3, <1>4 DEF Heaps

-----------------------------------------------------------------------------
(* Type correctness.                                                       *)

HeapTypeOK ==
    /\ orders \in [OrderSlots -> OrderRecords]
    /\ freeOrders \in [OrderSlots -> Int]
    /\ levels \in [LevelSlots -> LevelRecords]
    /\ freeLevels \in [LevelSlots -> Int]
    /\ book \in [Locates -> BookRecords]

(* A handler that stores a well-typed memory leaves the state so.          *)
LEMMA CommitType ==
    ASSUME NEW h \in Heaps, Commit(h)
    PROVE  HeapTypeOK'
BY HeapParts DEF Commit, HeapTypeOK

(* A message that is only counted keeps the types.                         *)
LEMMA RejectType ==
    ASSUME TypeOK, NEW c \in SUBSET Counters, Reject(c)
    PROVE  /\ HeapTypeOK'
           /\ index' \in [Ids -> OrderSlots \cup {Null}]
           /\ live' \in [orders : Nat, levels : Nat]
           /\ counted' \subseteq Counters
BY DEF TypeOK, Reject, HeapTypeOK

(* A gauge is never decreased below zero.                                  *)
LEMMA DecreaseType ==
    ASSUME NEW n \in Nat, NEW k \in Int
    PROVE  Decrease(n, k) \in Nat
BY DEF Decrease

(* An id the handlers go on with names a slot, whose order has a home.     *)
LEMMA KnownType ==
    ASSUME TypeOK, NEW id \in Ids, index[id] # Null
    PROVE  index[id] \in OrderSlots /\ Home(id) \in Locates
<1>1. index[id] \in OrderSlots
  BY DEF TypeOK
<1>2. orders[index[id]] \in OrderRecords
  BY <1>1 DEF TypeOK
<1> QED  BY <1>1, <1>2 DEF Home, OrderRecords

(* The counter of a mismatch is a counter.                                 *)
LEMMA MismatchType == \A l, id : Mismatch(l, id) \subseteq Counters
BY DEF Mismatch, Counters

(* Taking a filled or deleted order out of index and pool is well typed.   *)
LEMMA RetireType ==
    ASSUME TypeOK, NEW h \in Heaps, NEW id \in Ids, index[id] # Null, NEW rc,
           Retire(h, id, rc)
    PROVE  /\ HeapTypeOK'
           /\ index' \in [Ids -> OrderSlots \cup {Null}]
           /\ live' \in [orders : Nat, levels : Nat]
<1>1. ReleaseOrder(h, index[id]) \in Heaps
  BY KnownType, ReleaseType
<1>2. HeapTypeOK'
  BY <1>1, CommitType DEF Retire
<1>3. index' \in [Ids -> OrderSlots \cup {Null}]
  BY DEF Retire, TypeOK
<1>4. live.orders \in Nat /\ live.levels \in Nat
  BY DEF TypeOK
<1>5. Decrease(live.orders, 1) \in Nat /\ Decrease(live.levels, 1) \in Nat
  <2>1. 1 \in Int
    OBVIOUS
  <2> QED  BY <1>4, <2>1, DecreaseType
<1>6. live' \in [orders : Nat, levels : Nat]
  BY <1>4, <1>5 DEF Retire
<1> QED  BY <1>2, <1>3, <1>6

(* on_add_order keeps the types along each of its returns.                 *)
LEMMA AddOrderTyped ==
    ASSUME TypeOK, NEW l \in Locates, NEW id \in Ids, NEW s \in Sides,
           NEW q \in Quantities, NEW p \in Prices, OnAddOrder(l, id, s, q, p)
    PROVE  TypeOK'
<1>1. CASE Reject({"duplicate_adds", "unknown_order_events"}) /\ UNCHANGED instruments
  <2>1. {"duplicate_adds", "unknown_order_events"} \in SUBSET Counters
    BY DEF Counters
  <2> QED  BY <1>1, <2>1, RejectType DEF TypeOK, HeapTypeOK
<1>2. ASSUME instruments' = [instruments EXCEPT ![l] = "booked"],
             NEW o \in Acquirable(freeOrders), o = Null,
             Reject({"add_rejected_pool_exhausted", "pool_exhausted"})
      PROVE  TypeOK'
  <2>1. {"add_rejected_pool_exhausted", "pool_exhausted"} \in SUBSET Counters
    BY DEF Counters
  <2> QED  BY <1>2, <2>1, RejectType DEF TypeOK, HeapTypeOK
<1>3. ASSUME instruments' = [instruments EXCEPT ![l] = "booked"],
             NEW o \in Acquirable(freeOrders), o # Null,
             NEW r \in BookAdd(NewOrder(TakeOrder(Heap, o), o, id, l, s, p, q), l, o),
             \/ /\ r.rc = 0
                /\ Abandon(r.heap, o)
                /\ counted' = {"add_rejected_level_pool_exhausted", "pool_exhausted"}
                /\ UNCHANGED <<index, live>>
             \/ /\ r.rc # 0
                /\ Commit(r.heap)
                /\ index' = [index EXCEPT ![id] = o]
                /\ live' = [orders |-> live.orders + 1,
                            levels |-> live.levels + (IF r.rc = 2 THEN 1 ELSE 0)]
                /\ counted' = {"add_orders"}
      PROVE  TypeOK'
  <2>1. o \in OrderSlots
    BY <1>3, AcquirableType DEF TypeOK
  <2>2. NewOrder(TakeOrder(Heap, o), o, id, l, s, p, q) \in Heaps
    BY <2>1, HeapType, TakeType, NewOrderType
  <2>3. r.heap \in Heaps /\ r.rc \in {0, 1, 2}
    BY <1>3, <2>1, <2>2, BookAddType
  <2>4. instruments' \in [Locates -> {"absent", "listed", "booked"}]
    BY <1>3 DEF TypeOK
  <2>5. CASE r.rc = 0
    <3>1. HeapTypeOK'
      BY <1>3, <2>1, <2>3, <2>5, ReleaseType, CommitType DEF Abandon
    <3> QED  BY <1>3, <2>4, <2>5, <3>1 DEF TypeOK, HeapTypeOK, Counters
  <2>6. CASE r.rc # 0
    <3>1. HeapTypeOK'
      BY <1>3, <2>3, <2>6, CommitType
    <3>2. index' \in [Ids -> OrderSlots \cup {Null}]
      BY <1>3, <2>1, <2>6 DEF TypeOK
    <3>3. live' \in [orders : Nat, levels : Nat]
      BY <1>3, <2>6 DEF TypeOK
    <3>4. counted' \subseteq Counters
      BY <1>3, <2>6 DEF Counters
    <3> QED  BY <2>4, <3>1, <3>2, <3>3, <3>4 DEF TypeOK, HeapTypeOK
  <2> QED  BY <2>5, <2>6
<1> QED  BY <1>1, <1>2, <1>3 DEF OnAddOrder

(* So do on_order_executed, its variant with price, and on_order_cancel.   *)
LEMMA ReduceTyped ==
    ASSUME TypeOK, NEW c \in Counters, NEW l \in Locates, NEW id \in Ids,
           NEW q \in Quantities, Reduce(c, l, id, q)
    PROVE  TypeOK'
<1> DEFINE m == Mismatch(l, id)
           r == BookExecute(Heap, Home(id), index[id], q)
<1>1. m \subseteq Counters
  BY MismatchType
<1>2. instruments' = instruments
  BY DEF Reduce
<1>3. CASE Reject(m \cup {"unknown_order_events"})
  <2>1. m \cup {"unknown_order_events"} \in SUBSET Counters
    BY <1>1 DEF Counters
  <2> QED  BY <1>2, <1>3, <2>1, RejectType DEF TypeOK, HeapTypeOK
<1>4. CASE /\ Known(id)
           /\ \/ r.rc = -1 /\ Reject(m \cup {"level_missing", "unknown_order_events"})
              \/ /\ r.rc = 0
                 /\ Commit(r.heap)
                 /\ counted' = m \cup {c}
                 /\ UNCHANGED <<index, live>>
              \/ r.rc > 0 /\ Retire(r.heap, id, r.rc) /\ counted' = m \cup {c}
  <2>1. index[id] # Null /\ index[id] \in OrderSlots /\ Home(id) \in Locates
    BY <1>4, KnownType DEF Known
  <2>2. r.heap \in Heaps
    BY <2>1, HeapType, BookExecuteType
  <2>3. m \cup {"level_missing", "unknown_order_events"} \in SUBSET Counters
    BY <1>1 DEF Counters
  <2> HIDE DEF m, r
  <2>4. CASE Reject(m \cup {"level_missing", "unknown_order_events"})
    BY <1>2, <2>3, <2>4, RejectType DEF TypeOK, HeapTypeOK
  <2>5. CASE Commit(r.heap) /\ counted' = m \cup {c} /\ UNCHANGED <<index, live>>
    <3>1. HeapTypeOK'
      BY <2>2, <2>5, CommitType
    <3> QED  BY <1>1, <1>2, <2>5, <3>1 DEF TypeOK, HeapTypeOK
  <2>6. CASE Retire(r.heap, id, r.rc) /\ counted' = m \cup {c}
    BY <1>1, <1>2, <2>1, <2>2, <2>6, RetireType DEF TypeOK, HeapTypeOK
  <2> QED  BY <1>4, <2>4, <2>5, <2>6
<1> QED  BY <1>3, <1>4 DEF Reduce

(* So does on_order_delete.                                                *)
LEMMA DeleteTyped ==
    ASSUME TypeOK, NEW l \in Locates, NEW id \in Ids, OnOrderDelete(l, id)
    PROVE  TypeOK'
<1> DEFINE m == Mismatch(l, id)
           r == BookRemove(Heap, Home(id), index[id])
<1>1. m \subseteq Counters
  BY MismatchType
<1>2. instruments' = instruments
  BY DEF OnOrderDelete
<1>3. CASE Reject(m \cup {"unknown_order_events"})
  <2>1. m \cup {"unknown_order_events"} \in SUBSET Counters
    BY <1>1 DEF Counters
  <2> QED  BY <1>2, <1>3, <2>1, RejectType DEF TypeOK, HeapTypeOK
<1>4. CASE /\ Known(id)
           /\ \/ r.rc = 0 /\ Reject(m \cup {"level_missing", "unknown_order_events"})
              \/ r.rc # 0 /\ Retire(r.heap, id, r.rc) /\ counted' = m \cup {"order_delete"}
  <2>1. index[id] # Null /\ index[id] \in OrderSlots /\ Home(id) \in Locates
    BY <1>4, KnownType DEF Known
  <2>2. r.heap \in Heaps
    BY <2>1, HeapType, BookRemoveType
  <2>3. m \cup {"level_missing", "unknown_order_events"} \in SUBSET Counters
    BY <1>1 DEF Counters
  <2>4. m \cup {"order_delete"} \subseteq Counters
    BY <1>1 DEF Counters
  <2> HIDE DEF m, r
  <2>5. CASE Reject(m \cup {"level_missing", "unknown_order_events"})
    BY <1>2, <2>3, <2>5, RejectType DEF TypeOK, HeapTypeOK
  <2>6. CASE Retire(r.heap, id, r.rc) /\ counted' = m \cup {"order_delete"}
    BY <1>2, <2>1, <2>2, <2>4, <2>6, RetireType DEF TypeOK, HeapTypeOK
  <2> QED  BY <1>4, <2>5, <2>6
<1> QED  BY <1>3, <1>4 DEF OnOrderDelete

(* So does on_order_replace.                                               *)
LEMMA ReplaceTyped ==
    ASSUME TypeOK, NEW l \in Locates, NEW old \in Ids, NEW id \in Ids,
           NEW q \in Quantities, NEW p \in Prices, OnOrderReplace(l, old, id, q, p)
    PROVE  TypeOK'
<1> DEFINE m == Mismatch(l, old)
           r(o) == BookRemove(TakeOrder(Heap, o), Home(old), index[old])
<1>1. m \subseteq Counters
  BY MismatchType
<1>2. instruments' = instruments
  BY DEF OnOrderReplace
<1>3. CASE \/ Reject({"unknown_order_events"})
           \/ Reject(m \cup {"duplicate_adds", "unknown_order_events"})
           \/ Reject(m \cup {"unknown_order_events"})
           \/ Reject(m \cup {"replace_rejected_pool_exhausted", "pool_exhausted"})
           \/ Reject(m \cup {"level_missing", "unknown_order_events"})
  <2>1. PICK c \in SUBSET Counters : Reject(c)
    <3>1. /\ {"unknown_order_events"} \in SUBSET Counters
          /\ m \cup {"duplicate_adds", "unknown_order_events"} \in SUBSET Counters
          /\ m \cup {"unknown_order_events"} \in SUBSET Counters
          /\ m \cup {"replace_rejected_pool_exhausted", "pool_exhausted"} \in SUBSET Counters
          /\ m \cup {"level_missing", "unknown_order_events"} \in SUBSET Counters
      BY <1>1 DEF Counters
    <3> HIDE DEF m
    <3> QED  BY <1>3, <3>1
  <2> QED  BY <1>2, <2>1, RejectType DEF TypeOK, HeapTypeOK
<1>4. ASSUME Known(old), NEW o \in Acquirable(freeOrders), o # Null,
             Substitute(r(o).heap, Home(old), old, id, o, orders[index[old]].side,
                        q, p, r(o).rc, m)
      PROVE  TypeOK'
  <2> DEFINE h0 == NewOrder(ReleaseOrder(r(o).heap, index[old]), o, id, Home(old),
                            orders[index[old]].side, p, q)
             n == Decrease(live.orders, 1)
             k == IF r(o).rc = 2 THEN Decrease(live.levels, 1) ELSE live.levels
  <2>1. o \in OrderSlots
    BY <1>4, AcquirableType DEF TypeOK
  <2>2. index[old] # Null /\ index[old] \in OrderSlots /\ Home(old) \in Locates
    BY <1>4, KnownType DEF Known
  <2>3. r(o).heap \in Heaps
    BY <2>1, <2>2, HeapType, TakeType, BookRemoveType
  <2>4. orders[index[old]].side \in Sides
    BY <2>2 DEF TypeOK, OrderRecords
  <2>5. h0 \in Heaps
    <3>1. ReleaseOrder(r(o).heap, index[old]) \in Heaps
      BY <2>2, <2>3, ReleaseType
    <3> QED  BY <2>1, <2>2, <2>4, <3>1, NewOrderType
  <2>6. n \in Nat /\ k \in Nat
    <3>1. 1 \in Int /\ live.orders \in Nat /\ live.levels \in Nat
      BY DEF TypeOK
    <3> QED  BY <3>1, DecreaseType
  <2>7. PICK a \in BookAdd(h0, Home(old), o) :
          \/ /\ a.rc = 0
             /\ Abandon(a.heap, o)
             /\ index' = [index EXCEPT ![old] = Null]
             /\ live' = [orders |-> n, levels |-> k]
             /\ counted' = m \cup {"add_rejected_level_pool_exhausted", "pool_exhausted"}
          \/ /\ a.rc # 0
             /\ Commit(a.heap)
             /\ index' = [index EXCEPT ![old] = Null, ![id] = o]
             /\ live' = [orders |-> n + 1, levels |-> k + (IF a.rc = 2 THEN 1 ELSE 0)]
             /\ counted' = m \cup {"order_replace"}
    BY <1>4 DEF Substitute
  <2> HIDE DEF h0, n, k
  <2>8. a.heap \in Heaps
    BY <2>1, <2>2, <2>5, BookAddType
  <2>9. HeapTypeOK'
    BY <2>1, <2>7, <2>8, ReleaseType, CommitType DEF Abandon
  <2>10. index' \in [Ids -> OrderSlots \cup {Null}]
    BY <2>1, <2>7 DEF TypeOK
  <2>11. live' \in [orders : Nat, levels : Nat]
    BY <2>6, <2>7
  <2>12. counted' \subseteq Counters
    <3> HIDE DEF m
    <3> QED  BY <1>1, <2>7 DEF Counters
  <2> QED  BY <1>2, <2>9, <2>10, <2>11, <2>12 DEF TypeOK, HeapTypeOK
<1> HIDE DEF m
<1> QED  BY <1>3, <1>4 DEF OnOrderReplace, m

(* The orders a book visits lie in slots of the order pool.                *)
LEMMA OrdersOfType ==
    ASSUME NEW h \in Heaps, NEW l \in Locates
    PROVE  LevelsOf(h, l) \subseteq LevelSlots /\ OrdersOf(h, l) \subseteq OrderSlots
<1>1. h.book[l] \in BookRecords
  BY HeapParts
<1>2. \A s \in Sides : Range(h.book[l].list[s]) \subseteq LevelSlots
  BY <1>1, RangeOfSeq DEF BookRecords
<1>3. LevelsOf(h, l) \subseteq LevelSlots
  BY <1>2 DEF LevelsOf, Sides
<1>4. \A v \in LevelSlots : Range(h.levels[v].queue) \subseteq OrderSlots
  <2>1. TAKE v \in LevelSlots
  <2>2. h.levels[v].queue \in Seq(OrderSlots)
    BY HeapParts DEF LevelRecords
  <2> QED  BY <2>2, RangeOfSeq
<1> QED  BY <1>3, <1>4 DEF OrdersOf

(* So does on_cross_trade.                                                 *)
LEMMA CrossTradeTyped ==
    ASSUME TypeOK, NEW l \in Locates, NEW closing \in BOOLEAN, OnCrossTrade(l, closing)
    PROVE  TypeOK'
<1> DEFINE gone == OrdersOf(Heap, l)
           ids == {orders[o].id : o \in gone}
           h == ClearLevels(Heap, l)
           h2 == [h EXCEPT
                    !.orders = [o \in OrderSlots |->
                            IF o \in gone THEN BlankOrder ELSE h.orders[o]],
                    !.freeOrders = [o \in OrderSlots |->
                            IF o \in gone THEN h.freeOrders[o] + 1 ELSE h.freeOrders[o]]]
           k == book[l].nLevels["Buy"] + book[l].nLevels["Sell"]
<1>1. counted' = {"cross_trades"} /\ instruments' = instruments
  BY DEF OnCrossTrade
<1>2. counted' \subseteq Counters
  BY <1>1 DEF Counters
<1>3. CASE UNCHANGED <<orders, freeOrders, levels, freeLevels, book, index, live>>
  BY <1>1, <1>2, <1>3 DEF TypeOK
<1>4. CASE /\ Commit(h2)
           /\ index' = [id \in Ids |-> IF id \in ids THEN Null ELSE index[id]]
           /\ live' = [orders |-> Decrease(live.orders, Cardinality(gone)),
                       levels |-> Decrease(live.levels, k)]
  <2>1. gone \subseteq OrderSlots
    BY HeapType, OrdersOfType
  <2>2. h \in Heaps
    BY HeapType, ClearLevelsType
  <2>3. h2 \in Heaps
    <3> HIDE DEF h, gone
    <3>1. [o \in OrderSlots |-> IF o \in gone THEN BlankOrder ELSE h.orders[o]]
              \in [OrderSlots -> OrderRecords]
      BY <2>2, HeapParts, BlankTypes
    <3>2. [o \in OrderSlots |-> IF o \in gone THEN h.freeOrders[o] + 1 ELSE h.freeOrders[o]]
              \in [OrderSlots -> Int]
      BY <2>2, HeapParts
    <3> QED  BY <2>2, <3>1, <3>2 DEF Heaps
  <2>4. HeapTypeOK'
    <3> HIDE DEF h2
    <3> QED  BY <1>4, <2>3, CommitType
  <2>5. index' \in [Ids -> OrderSlots \cup {Null}]
    <3> HIDE DEF ids
    <3> QED  BY <1>4 DEF TypeOK
  <2>6. Cardinality(gone) \in Nat
    BY <2>1, PoolsAreFinite, FS_Subset, FS_CardinalityType
  <2>7. k \in Int
    <3>1. book[l].nLevels \in [Sides -> Int]
      BY DEF TypeOK, BookRecords
    <3> QED  BY <3>1 DEF Sides
  <2>8. live.orders \in Nat /\ live.levels \in Nat
    BY DEF TypeOK
  <2>9. live' \in [orders : Nat, levels : Nat]
    <3> HIDE DEF gone, k
    <3> QED  BY <1>4, <2>6, <2>7, <2>8, DecreaseType
  <2> QED  BY <1>1, <1>2, <2>4, <2>5, <2>9 DEF TypeOK, HeapTypeOK
<1>5. \/ UNCHANGED <<orders, freeOrders, levels, freeLevels, book, index, live>>
      \/ /\ Commit(h2)
         /\ index' = [id \in Ids |-> IF id \in ids THEN Null ELSE index[id]]
         /\ live' = [orders |-> Decrease(live.orders, Cardinality(gone)),
                     levels |-> Decrease(live.levels, k)]
  BY DEF OnCrossTrade
<1> QED  BY <1>3, <1>4, <1>5

(* A new engine is well typed.                                             *)
LEMMA InitTyped == Init => TypeOK
BY BlankTypes DEF Init, TypeOK

(* Every message keeps the engine well typed.                              *)
LEMMA NextTyped == TypeOK /\ [Next]_vars => TypeOK'
<1> SUFFICES ASSUME TypeOK, [Next]_vars PROVE TypeOK'
  OBVIOUS
<1>1. CASE OnNonCrossTrade
  <2>1. {"non_cross_trades"} \in SUBSET Counters  BY DEF Counters
  <2> QED  BY <1>1, <2>1, RejectType DEF OnNonCrossTrade, TypeOK, HeapTypeOK
<1>2. CASE OnBrokenTrade
  <2>1. {"broken_trades"} \in SUBSET Counters  BY DEF Counters
  <2> QED  BY <1>2, <2>1, RejectType DEF OnBrokenTrade, TypeOK, HeapTypeOK
<1>3. ASSUME NEW l \in Locates, OnStockDirectory(l) PROVE TypeOK'
  <2>1. {"instruments_registered"} \in SUBSET Counters /\ {} \in SUBSET Counters
    BY DEF Counters
  <2>2. HeapTypeOK' /\ index' \in [Ids -> OrderSlots \cup {Null}]
        /\ live' \in [orders : Nat, levels : Nat] /\ counted' \subseteq Counters
    BY <1>3, <2>1, RejectType DEF OnStockDirectory
  <2>3. instruments' \in [Locates -> {"absent", "listed", "booked"}]
    BY <1>3 DEF OnStockDirectory, TypeOK
  <2> QED  BY <2>2, <2>3 DEF TypeOK, HeapTypeOK
<1>4. ASSUME NEW l \in Locates, NEW closing \in BOOLEAN, OnCrossTrade(l, closing)
      PROVE  TypeOK'
  BY <1>4, CrossTradeTyped
<1>5. ASSUME NEW l \in Locates, NEW id \in Ids, OnOrderDelete(l, id) PROVE TypeOK'
  BY <1>5, DeleteTyped
<1>6. ASSUME NEW l \in Locates, NEW id \in Ids, NEW q \in Quantities,
             \/ OnOrderExecuted(l, id, q)
             \/ OnOrderExecutedWithPrice(l, id, q)
             \/ OnOrderCancel(l, id, q)
      PROVE  TypeOK'
  <2>1. /\ "order_executed" \in Counters
        /\ "order_executed_with_price" \in Counters
        /\ "order_cancel" \in Counters
    BY DEF Counters
  <2> QED  BY <1>6, <2>1, ReduceTyped
           DEF OnOrderExecuted, OnOrderExecutedWithPrice, OnOrderCancel
<1>7. ASSUME NEW l \in Locates, NEW id \in Ids, NEW q \in Quantities, NEW p \in Prices,
             NEW s \in Sides, OnAddOrder(l, id, s, q, p)
      PROVE  TypeOK'
  BY <1>7, AddOrderTyped
<1>8. ASSUME NEW l \in Locates, NEW id \in Ids, NEW q \in Quantities, NEW p \in Prices,
             NEW new \in Ids, OnOrderReplace(l, id, new, q, p)
      PROVE  TypeOK'
  BY <1>8, ReplaceTyped
<1>9. CASE UNCHANGED vars
  BY <1>9 DEF vars, TypeOK
<1> QED  BY <1>1, <1>2, <1>3, <1>4, <1>5, <1>6, <1>7, <1>8, <1>9 DEF Next

(* Every variable of the engine keeps its type, whatever the messages, the *)
(* pool sizes and the number of instruments: in particular a fill never    *)
(* takes an order below zero shares, and the gauges never wrap.            *)
THEOREM TypeCorrect == Spec => []TypeOK
BY InitTyped, NextTyped, PTL DEF Spec

-----------------------------------------------------------------------------
(* The invariant.                                                          *)

QueueOf(h, v) == Range(h.levels[v].queue)
ListOf(h, l, s) == Range(h.book[l].list[s])

(* A slot on the free list is there once, blank, and in nobody's hands.    *)
FreeOrdersInv(h, D) ==
    \A o \in OrderSlots :
        /\ h.freeOrders[o] \in {0, 1}
        /\ h.freeOrders[o] = 1 => o \notin D /\ h.orders[o].id = Null

(* A slot is in one place of one queue if it is neither free nor in D.     *)
QueuesInv(h, D) ==
    /\ \A v \in LevelSlots : IsInjective(h.levels[v].queue)
    /\ \A v, w \in LevelSlots : QueueOf(h, v) \cap QueueOf(h, w) # {} => v = w
    /\ \A o \in OrderSlots :
          (\E v \in LevelSlots : o \in QueueOf(h, v)) <=> h.freeOrders[o] = 0 /\ o \notin D

(* A level is in a list or free; exactly the free ones have no orders.     *)
ListsInv(h) ==
    /\ \A v \in LevelSlots :
          /\ h.freeLevels[v] \in {0, 1}
          /\ h.freeLevels[v] = 1 <=> h.levels[v].queue = <<>>
          /\ h.freeLevels[v] = 0 <=> \E l \in Locates, s \in Sides : v \in ListOf(h, l, s)
    /\ \A l \in Locates, s \in Sides :
          /\ IsInjective(h.book[l].list[s])
          /\ h.book[l].nLevels[s] = Len(h.book[l].list[s])

(* The orders of a level belong there.                                     *)
HomesInv(h) ==
    \A l \in Locates, s \in Sides : \A v \in ListOf(h, l, s) : \A o \in QueueOf(h, v) :
        /\ h.orders[o].locate = l
        /\ h.orders[o].side = s
        /\ h.orders[o].price = h.levels[v].price

(* A map finds the levels of its list, but for those at kEmptyPrice.       *)
MapFinds(h, l, s) ==
    /\ \A p \in Prices : h.book[l].map[s][p] # Null =>
          /\ p # EmptyPrice
          /\ h.book[l].map[s][p] \in ListOf(h, l, s)
          /\ h.levels[h.book[l].map[s][p]].price = p
    /\ \A v \in ListOf(h, l, s) : h.levels[v].price # EmptyPrice =>
          h.book[l].map[s][h.levels[v].price] = v

MapsInv(h) == \A l \in Locates, s \in Sides : MapFinds(h, l, s)

(* Price a may come before price b in the list of side s.                  *)
Before(s, a, b) ==
    \/ IF s = "Buy" THEN a > b ELSE a < b
    \/ a = EmptyPrice /\ b = EmptyPrice

ListSorted(h, l, s) ==
    \A i, j \in DOMAIN h.book[l].list[s] :
        i < j => Before(s, h.levels[h.book[l].list[s][i]].price,
                           h.levels[h.book[l].list[s][j]].price)

SortedInv(h) == \A l \in Locates, s \in Sides : ListSorted(h, l, s)

(* The orders in the queues of book l.                                     *)
Rests(h, D, l) ==
    {o \in OrderSlots : h.freeOrders[o] = 0 /\ o \notin D /\ h.orders[o].locate = l}

CountsInv(h, D) ==
    \A l \in Locates : h.book[l].nOrders = Cardinality(Rests(h, D, l))

(* The total of a level is what its orders have left.                      *)
TotalsInv(h) ==
    \A v \in LevelSlots : h.levels[v].total = SharesIn(h.orders, h.levels[v].queue)

HeapInv(h, D) ==
    /\ h \in Heaps
    /\ FreeOrdersInv(h, D)
    /\ QueuesInv(h, D)
    /\ ListsInv(h)
    /\ HomesInv(h)
    /\ MapsInv(h)
    /\ SortedInv(h)
    /\ CountsInv(h, D)

(* The index finds the orders that are not free, and no other.             *)
IndexInv ==
    /\ \A id \in Ids : index[id] # Null =>
          freeOrders[index[id]] = 0 /\ orders[index[id]].id = id
    /\ \A o \in OrderSlots : freeOrders[o] = 0 =>
          /\ orders[o].id \in Ids
          /\ index[orders[o].id] = o
          /\ instruments[orders[o].locate] = "booked"

GaugesInv ==
    /\ live.orders = Cardinality(Used(freeOrders))
    /\ live.levels = Cardinality(Used(freeLevels))

EngineInv ==
    /\ TypeOK
    /\ HeapInv(Heap, {})
    /\ TotalsInv(Heap)
    /\ IndexInv
    /\ GaugesInv

-----------------------------------------------------------------------------
(* What follows from the invariant.                                        *)

(* The types of the parts of a heap.                                       *)
LEMMA PartsOf ==
    ASSUME NEW h \in Heaps
    PROVE  /\ \A v \in LevelSlots :
                /\ h.levels[v].queue \in Seq(OrderSlots)
                /\ QueueOf(h, v) \subseteq OrderSlots
                /\ h.levels[v].price \in Nat
           /\ \A l \in Locates, s \in Sides :
                /\ h.book[l].list[s] \in Seq(LevelSlots)
                /\ ListOf(h, l, s) \subseteq LevelSlots
                /\ h.book[l].map[s] \in [Prices -> LevelSlots \cup {Null}]
                /\ h.book[l].nLevels[s] \in Int
           /\ \A l \in Locates : h.book[l].nOrders \in Int
<1>1. ASSUME NEW v \in LevelSlots
      PROVE  /\ h.levels[v].queue \in Seq(OrderSlots)
             /\ QueueOf(h, v) \subseteq OrderSlots
             /\ h.levels[v].price \in Nat
  <2>1. h.levels[v].queue \in Seq(OrderSlots) /\ h.levels[v].price \in Nat
    BY HeapParts DEF LevelRecords
  <2> QED  BY <2>1, RangeOfSeq DEF QueueOf
<1>2. ASSUME NEW l \in Locates, NEW s \in Sides
      PROVE  /\ h.book[l].list[s] \in Seq(LevelSlots)
             /\ ListOf(h, l, s) \subseteq LevelSlots
             /\ h.book[l].map[s] \in [Prices -> LevelSlots \cup {Null}]
             /\ h.book[l].nLevels[s] \in Int
  <2>1. h.book[l] \in BookRecords
    BY HeapParts
  <2>2. /\ h.book[l].list[s] \in Seq(LevelSlots)
        /\ h.book[l].map[s] \in [Prices -> LevelSlots \cup {Null}]
        /\ h.book[l].nLevels[s] \in Int
    BY <2>1 DEF BookRecords
  <2> QED  BY <2>2, RangeOfSeq DEF ListOf
<1>3. ASSUME NEW l \in Locates PROVE h.book[l].nOrders \in Int
  BY HeapParts DEF BookRecords
<1> QED  BY <1>1, <1>2, <1>3

(* A list that is not empty has an element.                                *)
LEMMA NonemptyRange ==
    ASSUME NEW T, NEW seq \in Seq(T)
    PROVE  seq = <<>> <=> Range(seq) = {}
<1>1. DOMAIN seq = 1..Len(seq) /\ Len(seq) \in Nat
  BY LenProperties
<1>2. ASSUME seq # <<>> PROVE Range(seq) # {}
  <2>1. 1 \in DOMAIN seq  BY <1>1, <1>2, EmptySeq
  <2> QED  BY <2>1 DEF Range
<1>3. ASSUME seq = <<>> PROVE Range(seq) = {}
  BY <1>3 DEF Range
<1> QED  BY <1>2, <1>3

(* A level with orders is in one list only.                                *)
LEMMA OneList ==
    ASSUME NEW h, NEW D, HeapInv(h, D), NEW l \in Locates, NEW s \in Sides,
           NEW m \in Locates, NEW t \in Sides, NEW v \in ListOf(h, l, s),
           v \in ListOf(h, m, t)
    PROVE  m = l /\ t = s
<1>1. h \in Heaps /\ v \in LevelSlots
  BY PartsOf DEF HeapInv
<1>2. h.levels[v].queue # <<>>
  BY <1>1 DEF HeapInv, ListsInv
<1>3. PICK o : o \in QueueOf(h, v)
  BY <1>1, <1>2, PartsOf, NonemptyRange DEF QueueOf
<1> QED  BY <1>3 DEF HeapInv, HomesInv

(* A level in a list has a price that messages carry.                      *)
LEMMA PricesInUse ==
    ASSUME NEW h, NEW D, HeapInv(h, D), NEW l \in Locates, NEW s \in Sides
    PROVE  \A v \in ListOf(h, l, s) : h.levels[v].price \in Prices
<1> TAKE v \in ListOf(h, l, s)
<1>1. h \in Heaps /\ v \in LevelSlots
  BY PartsOf DEF HeapInv
<1>2. h.levels[v].queue # <<>>
  BY <1>1 DEF HeapInv, ListsInv
<1>3. PICK o : o \in QueueOf(h, v)
  BY <1>1, <1>2, PartsOf, NonemptyRange DEF QueueOf
<1>4. o \in OrderSlots /\ h.orders[o].price = h.levels[v].price
  BY <1>1, <1>3, PartsOf DEF HeapInv, HomesInv
<1> QED  BY <1>1, <1>4, OrderParts

(* A slot in a handler's hands is on no free list and in no queue.         *)
LEMMA InHand ==
    ASSUME NEW h, NEW D, HeapInv(h, D), NEW o \in OrderSlots, o \in D
    PROVE  h.freeOrders[o] = 0 /\ \A v \in LevelSlots : o \notin QueueOf(h, v)
BY DEF HeapInv, FreeOrdersInv, QueuesInv

(* Counting a new element.                                                 *)
LEMMA OneMore ==
    ASSUME NEW S, IsFiniteSet(S), NEW x, x \notin S, NEW T, T = S \cup {x}
    PROVE  IsFiniteSet(T) /\ Cardinality(T) = Cardinality(S) + 1 /\ Cardinality(S) \in Nat
BY FS_AddElement, FS_CardinalityType

(* Counting without an element.                                            *)
LEMMA OneLess ==
    ASSUME NEW S, IsFiniteSet(S), NEW x \in S, NEW T, T = S \ {x}
    PROVE  IsFiniteSet(T) /\ Cardinality(T) = Cardinality(S) - 1 /\ Cardinality(S) \in Nat
BY FS_RemoveElement, FS_CardinalityType

(* The orders of a book are finitely many.                                 *)
LEMMA RestsFinite ==
    \A h, D, l : IsFiniteSet(Rests(h, D, l)) /\ Cardinality(Rests(h, D, l)) \in Nat
<1> TAKE h, D, l
<1>1. Rests(h, D, l) \in SUBSET OrderSlots
  BY DEF Rests
<1> QED  BY <1>1, PoolsAreFinite, FS_Subset, FS_CardinalityType

(* The walk of insert_level_sorted stops where the new price belongs.      *)
LEMMA InsertSorted ==
    ASSUME NEW T, NEW seq \in Seq(T), NEW px \in [T -> Nat], NEW s \in Sides,
           NEW e \in T, e \notin Range(seq), NEW p \in Nat, px[e] = p, NEW S,
           \A w \in Range(seq) :
              w \in S <=> IF s = "Buy" THEN px[w] > p ELSE px[w] < p,
           \A i, j \in DOMAIN seq : i < j => Before(s, px[seq[i]], px[seq[j]]),
           \A w \in Range(seq) : px[w] = p => p = EmptyPrice,
           NEW r, r = InsertAfterRun(seq, S, e)
    PROVE  \A i, j \in DOMAIN r : i < j => Before(s, px[r[i]], px[r[j]])
<1>1. PICK n : n = LeadingRun(seq, S)
  OBVIOUS
<1>2. /\ r \in Seq(T)
      /\ Len(r) = Len(seq) + 1
      /\ \A i \in 1..Len(seq) + 1 :
            r[i] = IF i <= n THEN seq[i] ELSE IF i = n + 1 THEN e ELSE seq[i - 1]
  BY <1>1, InsertIs
<1>3. /\ n \in 0..Len(seq)
      /\ \A i \in 1..n : seq[i] \in S
      /\ n < Len(seq) => seq[n + 1] \notin S
  BY <1>1, LeadingRunIs
<1>4. /\ Len(seq) \in Nat
      /\ DOMAIN seq = 1..Len(seq) /\ DOMAIN r = 1..Len(seq) + 1
  BY <1>2, LenProperties
<1>5. \A i \in DOMAIN seq : seq[i] \in Range(seq) /\ seq[i] \in T /\ px[seq[i]] \in Nat
  BY <1>4, ElementOfSeq DEF Range
<1> HIDE DEF InsertAfterRun
<1>6. ASSUME NEW i \in 1..n PROVE Before(s, px[seq[i]], p)
  <2>1. i \in DOMAIN seq /\ seq[i] \in S  BY <1>3, <1>4
  <2> QED  BY <1>5, <2>1 DEF Before
<1>7. ASSUME NEW i \in DOMAIN seq, i > n PROVE Before(s, p, px[seq[i]])
  <2>1. n + 1 \in DOMAIN seq /\ seq[n + 1] \notin S  BY <1>3, <1>4, <1>7
  <2>2. Before(s, p, px[seq[n + 1]])
    <3>1. seq[n + 1] \in Range(seq) /\ px[seq[n + 1]] \in Nat  BY <1>5, <2>1
    <3>2. ~(IF s = "Buy" THEN px[seq[n + 1]] > p ELSE px[seq[n + 1]] < p)
      BY <2>1, <3>1
    <3>3. px[seq[n + 1]] = p => p = EmptyPrice  BY <3>1
    <3> QED  BY <3>1, <3>2, <3>3 DEF Before
  <2>3. CASE i = n + 1
    BY <2>2, <2>3
  <2>4. CASE i # n + 1
    <3>1. n + 1 < i  BY <1>3, <1>4, <1>7, <2>4
    <3>2. Before(s, px[seq[n + 1]], px[seq[i]])  BY <2>1, <3>1
    <3>3. px[seq[n + 1]] \in Nat /\ px[seq[i]] \in Nat  BY <1>5, <2>1
    <3> QED  BY <2>2, <3>2, <3>3, PricesAreNat DEF Before
  <2> QED  BY <2>3, <2>4
<1>8. ASSUME NEW i \in DOMAIN r, NEW j \in DOMAIN r, i < j
      PROVE  Before(s, px[r[i]], px[r[j]])
  <2>1. r[n + 1] = e /\ px[r[n + 1]] = p  BY <1>2, <1>3, <1>4, SMTT(30)
  <2>2. ASSUME NEW k \in DOMAIN r, k <= n PROVE k \in DOMAIN seq /\ r[k] = seq[k]
    BY <1>2, <1>3, <1>4, <2>2
  <2>3. ASSUME NEW k \in DOMAIN r, k > n + 1
        PROVE  k - 1 \in DOMAIN seq /\ k - 1 > n /\ r[k] = seq[k - 1]
    <3>1. k \in 1..Len(seq) + 1 /\ n \in Nat  BY <1>3, <1>4
    <3>2. k - 1 \in 1..Len(seq) /\ k - 1 > n /\ ~(k <= n) /\ k # n + 1
      BY <1>4, <2>3, <3>1
    <3>3. r[k] = IF k <= n THEN seq[k] ELSE IF k = n + 1 THEN e ELSE seq[k - 1]
      BY <1>2, <3>1
    <3> QED  BY <1>4, <3>2, <3>3
  <2>4. CASE j <= n
    BY <1>3, <1>4, <1>8, <2>2, <2>4
  <2>5. CASE i <= n /\ j = n + 1
    <3>1. i \in 1..n  BY <1>3, <1>4, <2>5
    <3> QED  BY <1>6, <2>1, <2>2, <2>5, <3>1
  <2>6. CASE i <= n /\ j > n + 1
    <3>1. i < j - 1  BY <1>3, <1>4, <2>6
    <3> QED  BY <2>2, <2>3, <2>6, <3>1
  <2>7. CASE i = n + 1
    <3>1. j > n + 1  BY <1>8, <2>7
    <3> QED  BY <1>7, <2>1, <2>3, <2>7, <3>1
  <2>8. CASE i > n + 1
    <3>1. j > n + 1 /\ i - 1 < j - 1  BY <1>3, <1>4, <1>8, <2>8
    <3> QED  BY <2>3, <2>8, <3>1
  <2> QED  BY <1>3, <1>4, <1>8, <2>4, <2>5, <2>6, <2>7, <2>8
<1> QED  BY <1>8

-----------------------------------------------------------------------------
(* What the operations of a book do to the heap.                           *)

(* Heap g is heap h but for level v, side s of book l and its count.       *)
Elsewhere(h, g, l, s, v) ==
    /\ g.orders = h.orders /\ g.freeOrders = h.freeOrders
    /\ \A w \in LevelSlots : w # v =>
          g.levels[w] = h.levels[w] /\ g.freeLevels[w] = h.freeLevels[w]
    /\ \A m \in Locates, t \in Sides : m # l \/ t # s =>
          /\ g.book[m].list[t] = h.book[m].list[t]
          /\ g.book[m].map[t] = h.book[m].map[t]
          /\ g.book[m].nLevels[t] = h.book[m].nLevels[t]
    /\ \A m \in Locates : m # l => g.book[m].nOrders = h.book[m].nOrders

(* Linking an order of D counts it once more.                              *)
LEMMA CountUp ==
    ASSUME NEW h, NEW D, HeapInv(h, D), NEW l \in Locates, NEW o \in OrderSlots, o \in D,
           h.orders[o].locate = l, NEW g \in Heaps,
           g.orders = h.orders, g.freeOrders = h.freeOrders,
           \A m \in Locates : m # l => g.book[m].nOrders = h.book[m].nOrders,
           g.book[l].nOrders = h.book[l].nOrders + 1
    PROVE  CountsInv(g, D \ {o})
<1>1. h.freeOrders[o] = 0
  BY InHand
<1>2. Rests(g, D \ {o}, l) = Rests(h, D, l) \cup {o} /\ o \notin Rests(h, D, l)
  BY <1>1 DEF Rests
<1>3. Cardinality(Rests(g, D \ {o}, l)) = Cardinality(Rests(h, D, l)) + 1
  BY <1>2, RestsFinite, OneMore
<1>4. \A m \in Locates : m # l => Rests(g, D \ {o}, m) = Rests(h, D, m)
  BY DEF Rests
<1> QED  BY <1>3, <1>4 DEF HeapInv, CountsInv

(* Unlinking an order counts it once less.                                 *)
LEMMA CountDown ==
    ASSUME NEW h, NEW D, HeapInv(h, D), NEW l \in Locates, NEW v \in LevelSlots,
           NEW o \in QueueOf(h, v), h.orders[o].locate = l, NEW g \in Heaps,
           g.orders = h.orders, g.freeOrders = h.freeOrders,
           \A m \in Locates : m # l => g.book[m].nOrders = h.book[m].nOrders,
           g.book[l].nOrders = h.book[l].nOrders - 1
    PROVE  CountsInv(g, D \cup {o})
<1>1. o \in OrderSlots /\ h.freeOrders[o] = 0 /\ o \notin D
  BY PartsOf DEF HeapInv, QueuesInv
<1>2. Rests(g, D \cup {o}, l) = Rests(h, D, l) \ {o} /\ o \in Rests(h, D, l)
  BY <1>1 DEF Rests
<1>3. Cardinality(Rests(g, D \cup {o}, l)) = Cardinality(Rests(h, D, l)) - 1
  BY <1>2, RestsFinite, OneLess
<1>4. \A m \in Locates : m # l => Rests(g, D \cup {o}, m) = Rests(h, D, m)
  BY DEF Rests
<1> QED  BY <1>3, <1>4 DEF HeapInv, CountsInv

(* While the list, the map and the prices of its levels stay, a side stays *)
(* sorted and mapped.                                                      *)
LEMMA SameSide ==
    ASSUME NEW h \in Heaps, NEW g \in Heaps, NEW l \in Locates, NEW s \in Sides,
           MapFinds(h, l, s), ListSorted(h, l, s),
           g.book[l].list[s] = h.book[l].list[s],
           g.book[l].map[s] = h.book[l].map[s],
           \A w \in ListOf(h, l, s) : g.levels[w].price = h.levels[w].price
    PROVE  MapFinds(g, l, s) /\ ListSorted(g, l, s)
<1>1. ListOf(g, l, s) = ListOf(h, l, s)
  BY DEF ListOf
<1>2. MapFinds(g, l, s)
  <2>1. PICK map : map = h.book[l].map[s]
    OBVIOUS
  <2>2. g.book[l].map[s] = map
    BY <2>1
  <2>3. /\ \A p \in Prices : map[p] # Null =>
              /\ p # EmptyPrice
              /\ map[p] \in ListOf(h, l, s)
              /\ h.levels[map[p]].price = p
        /\ \A v \in ListOf(h, l, s) : h.levels[v].price # EmptyPrice =>
              map[h.levels[v].price] = v
    BY <2>1 DEF MapFinds
  <2> QED  BY <1>1, <2>2, <2>3 DEF MapFinds
<1>3. ListSorted(g, l, s)
  <2>1. PICK list : list = h.book[l].list[s]
    OBVIOUS
  <2>2. g.book[l].list[s] = list
    BY <2>1
  <2>3. \A i \in DOMAIN list : list[i] \in ListOf(h, l, s)
    BY <2>1 DEF ListOf, Range
  <2>4. \A i, j \in DOMAIN list :
            i < j => Before(s, h.levels[list[i]].price, h.levels[list[j]].price)
    BY <2>1 DEF ListSorted
  <2> QED  BY <2>2, <2>3, <2>4 DEF ListSorted
<1> QED  BY <1>2, <1>3

(* While all of them stay, every side does.                                *)
LEMMA SameLists ==
    ASSUME NEW h \in Heaps, NEW g \in Heaps, MapsInv(h), SortedInv(h),
           \A m \in Locates, t \in Sides :
              /\ g.book[m].list[t] = h.book[m].list[t]
              /\ g.book[m].map[t] = h.book[m].map[t],
           \A w \in LevelSlots : g.levels[w].price = h.levels[w].price
    PROVE  MapsInv(g) /\ SortedInv(g)
<1>1. ASSUME NEW m \in Locates, NEW t \in Sides
      PROVE  MapFinds(g, m, t) /\ ListSorted(g, m, t)
  <2>1. \A w \in ListOf(h, m, t) : g.levels[w].price = h.levels[w].price
    BY PartsOf
  <2> QED  BY <2>1, SameSide DEF MapsInv, SortedInv
<1> QED  BY <1>1 DEF MapsInv, SortedInv

(* push_back onto a level of the order's side and price.                   *)
LEMMA EnqueueKeeps ==
    ASSUME NEW h, NEW D, HeapInv(h, D), NEW l \in Locates, NEW s \in Sides,
           NEW o \in OrderSlots, o \in D, NEW v \in ListOf(h, l, s),
           h.orders[o].locate = l, h.orders[o].side = s,
           h.orders[o].price = h.levels[v].price,
           NEW g \in Heaps, Elsewhere(h, g, l, s, v),
           g.levels[v].price = h.levels[v].price,
           IsInjective(g.levels[v].queue), QueueOf(g, v) = QueueOf(h, v) \cup {o},
           g.freeLevels[v] = h.freeLevels[v],
           g.book[l].list[s] = h.book[l].list[s],
           g.book[l].map[s] = h.book[l].map[s],
           g.book[l].nLevels[s] = h.book[l].nLevels[s],
           g.book[l].nOrders = h.book[l].nOrders + 1
    PROVE  HeapInv(g, D \ {o})
<1>1. h \in Heaps /\ v \in LevelSlots
  BY PartsOf DEF HeapInv
<1>2. h.freeOrders[o] = 0 /\ \A w \in LevelSlots : o \notin QueueOf(h, w)
  BY InHand
<1>3. g.levels[v].queue # <<>>
  BY <1>1, PartsOf, NonemptyRange DEF QueueOf
<1>4. \A w \in LevelSlots : w # v => g.levels[w] = h.levels[w] /\ QueueOf(g, w) = QueueOf(h, w)
  BY DEF Elsewhere, QueueOf
<1>5. \A m \in Locates, t \in Sides :
        /\ g.book[m].list[t] = h.book[m].list[t]
        /\ ListOf(g, m, t) = ListOf(h, m, t)
        /\ g.book[m].map[t] = h.book[m].map[t]
        /\ g.book[m].nLevels[t] = h.book[m].nLevels[t]
  BY DEF Elsewhere, ListOf
<1>6. /\ g.orders = h.orders /\ g.freeOrders = h.freeOrders
      /\ \A w \in LevelSlots :
            g.freeLevels[w] = h.freeLevels[w] /\ g.levels[w].price = h.levels[w].price
  BY DEF Elsewhere
<1>7. FreeOrdersInv(g, D \ {o})
  BY <1>6 DEF HeapInv, FreeOrdersInv
<1>8. QueuesInv(g, D \ {o})
  <2>1. \A w \in LevelSlots : IsInjective(g.levels[w].queue)
    BY <1>3, <1>4 DEF HeapInv, QueuesInv
  <2>2. \A w, x \in LevelSlots : QueueOf(g, w) \cap QueueOf(g, x) # {} => w = x
    BY <1>2, <1>3, <1>4 DEF HeapInv, QueuesInv
  <2>3. \A x \in OrderSlots : (\E w \in LevelSlots : x \in QueueOf(g, w))
            <=> x = o \/ \E w \in LevelSlots : x \in QueueOf(h, w)
    BY <1>1, <1>3, <1>4
  <2>4. \A x \in OrderSlots : (\E w \in LevelSlots : x \in QueueOf(g, w))
            <=> g.freeOrders[x] = 0 /\ x \notin D \ {o}
    BY <1>2, <1>6, <2>3 DEF HeapInv, QueuesInv
  <2> QED  BY <2>1, <2>2, <2>4 DEF QueuesInv
<1>9. ListsInv(g)
  <2>1. \A w \in LevelSlots : g.levels[w].queue = <<>> <=> h.levels[w].queue = <<>>
    BY <1>1, <1>3, <1>4 DEF HeapInv, ListsInv
  <2> QED  BY <1>5, <1>6, <2>1 DEF HeapInv, ListsInv
<1>10. HomesInv(g)
  <2> SUFFICES ASSUME NEW m \in Locates, NEW t \in Sides, NEW w \in ListOf(g, m, t),
                      NEW x \in QueueOf(g, w)
               PROVE  /\ h.orders[x].locate = m
                      /\ h.orders[x].side = t
                      /\ h.orders[x].price = h.levels[w].price
    BY <1>1, <1>5, <1>6, PartsOf DEF HomesInv
  <2>1. w \in ListOf(h, m, t) /\ w \in LevelSlots
    BY <1>1, <1>5, PartsOf
  <2>2. CASE x \in QueueOf(h, w)
    BY <2>1, <2>2 DEF HeapInv, HomesInv
  <2>3. CASE x \notin QueueOf(h, w)
    <3>1. w = v /\ x = o
      BY <1>3, <1>4, <2>1, <2>3
    <3>2. m = l /\ t = s
      BY <2>1, <3>1, OneList
    <3> QED  BY <3>1, <3>2
  <2> QED  BY <2>2, <2>3
<1>11. MapsInv(g) /\ SortedInv(g)
  BY <1>1, <1>5, <1>6, SameLists DEF HeapInv
<1>12. CountsInv(g, D \ {o})
  BY <1>6, CountUp DEF Elsewhere
<1> QED  BY <1>7, <1>8, <1>9, <1>10, <1>11, <1>12 DEF HeapInv

(* Unlinking an order from a level that keeps others.                      *)
LEMMA DequeueKeeps ==
    ASSUME NEW h, NEW D, HeapInv(h, D), NEW l \in Locates, NEW s \in Sides,
           NEW v \in ListOf(h, l, s), NEW o \in QueueOf(h, v),
           NEW g \in Heaps, Elsewhere(h, g, l, s, v),
           g.levels[v].price = h.levels[v].price,
           IsInjective(g.levels[v].queue), QueueOf(g, v) = QueueOf(h, v) \ {o},
           g.levels[v].queue # <<>>,
           g.freeLevels[v] = h.freeLevels[v],
           g.book[l].list[s] = h.book[l].list[s],
           g.book[l].map[s] = h.book[l].map[s],
           g.book[l].nLevels[s] = h.book[l].nLevels[s],
           g.book[l].nOrders = h.book[l].nOrders - 1
    PROVE  HeapInv(g, D \cup {o})
<1>1. h \in Heaps /\ v \in LevelSlots /\ o \in OrderSlots
  BY PartsOf DEF HeapInv
<1>2. h.freeOrders[o] = 0 /\ o \notin D /\ h.orders[o].locate = l
  BY <1>1 DEF HeapInv, QueuesInv, HomesInv
<1>3. \A w \in LevelSlots : w # v => g.levels[w] = h.levels[w] /\ QueueOf(g, w) = QueueOf(h, w)
  BY DEF Elsewhere, QueueOf
<1>4. \A m \in Locates, t \in Sides :
        /\ g.book[m].list[t] = h.book[m].list[t]
        /\ ListOf(g, m, t) = ListOf(h, m, t)
        /\ g.book[m].map[t] = h.book[m].map[t]
        /\ g.book[m].nLevels[t] = h.book[m].nLevels[t]
  BY DEF Elsewhere, ListOf
<1>5. /\ g.orders = h.orders /\ g.freeOrders = h.freeOrders
      /\ \A w \in LevelSlots :
            g.freeLevels[w] = h.freeLevels[w] /\ g.levels[w].price = h.levels[w].price
  BY DEF Elsewhere
<1>6. \A w \in LevelSlots : QueueOf(g, w) \subseteq QueueOf(h, w)
  BY <1>3
<1>7. FreeOrdersInv(g, D \cup {o})
  BY <1>2, <1>5 DEF HeapInv, FreeOrdersInv
<1>8. QueuesInv(g, D \cup {o})
  <2>1. \A w \in LevelSlots : IsInjective(g.levels[w].queue)
    BY <1>3 DEF HeapInv, QueuesInv
  <2>2. \A w, x \in LevelSlots : QueueOf(g, w) \cap QueueOf(g, x) # {} => w = x
    BY <1>6 DEF HeapInv, QueuesInv
  <2>3. \A w \in LevelSlots : w # v => o \notin QueueOf(h, w)
    BY <1>1 DEF HeapInv, QueuesInv
  <2>4. \A x \in OrderSlots : (\E w \in LevelSlots : x \in QueueOf(g, w))
            <=> x # o /\ \E w \in LevelSlots : x \in QueueOf(h, w)
    BY <1>1, <1>3, <2>3
  <2>5. \A x \in OrderSlots : (\E w \in LevelSlots : x \in QueueOf(g, w))
            <=> g.freeOrders[x] = 0 /\ x \notin D \cup {o}
    BY <1>2, <1>5, <2>4 DEF HeapInv, QueuesInv
  <2> QED  BY <2>1, <2>2, <2>5 DEF QueuesInv
<1>9. ListsInv(g)
  <2>1. \A w \in LevelSlots : g.levels[w].queue = <<>> <=> h.levels[w].queue = <<>>
    BY <1>1, <1>3 DEF HeapInv, ListsInv
  <2> QED  BY <1>4, <1>5, <2>1 DEF HeapInv, ListsInv
<1>10. HomesInv(g)
  <2>1. \A m \in Locates, t \in Sides : ListOf(h, m, t) \subseteq LevelSlots
    BY <1>1, PartsOf
  <2> QED  BY <1>4, <1>5, <1>6, <2>1 DEF HeapInv, HomesInv
<1>11. MapsInv(g) /\ SortedInv(g)
  BY <1>1, <1>4, <1>5, SameLists DEF HeapInv
<1>12. CountsInv(g, D \cup {o})
  BY <1>1, <1>2, <1>5, CountDown DEF Elsewhere
<1> QED  BY <1>7, <1>8, <1>9, <1>10, <1>11, <1>12 DEF HeapInv

(* The map of a side after a level was linked at price p.                  *)
LEMMA MapSetIs ==
    ASSUME NEW map \in [Prices -> LevelSlots \cup {Null}], NEW p \in Prices, NEW v
    PROVE  \A q \in Prices : MapSet(map, p, v)[q] =
              IF q = p /\ p # EmptyPrice THEN v ELSE map[q]
BY DEF MapSet

(* Level v of price p was opened on side s of book l, for order o alone.   *)
Opens(h, g, l, s, p, v, o) ==
    /\ Elsewhere(h, g, l, s, v)
    /\ h.freeLevels[v] = 1 /\ g.freeLevels[v] = 0
    /\ g.levels[v].price = p
    /\ IsInjective(g.levels[v].queue) /\ QueueOf(g, v) = {o}
    /\ IsInjective(g.book[l].list[s])
    /\ ListOf(g, l, s) = ListOf(h, l, s) \cup {v}
    /\ Len(g.book[l].list[s]) = Len(h.book[l].list[s]) + 1
    /\ g.book[l].map[s] = MapSet(h.book[l].map[s], p, v)
    /\ g.book[l].nLevels[s] = h.book[l].nLevels[s] + 1
    /\ g.book[l].nOrders = h.book[l].nOrders + 1

(* Opening a level, for the order that is to rest there.                   *)
LEMMA OpenKeeps ==
    ASSUME NEW h, NEW D, HeapInv(h, D), NEW l \in Locates, NEW s \in Sides,
           NEW o \in OrderSlots, o \in D, NEW v \in LevelSlots,
           NEW p \in Prices, FindLevel(h, l, s, p) = Null,
           h.orders[o].locate = l, h.orders[o].side = s, h.orders[o].price = p,
           NEW g \in Heaps, Opens(h, g, l, s, p, v, o), ListSorted(g, l, s)
    PROVE  HeapInv(g, D \ {o})
<1>1. h \in Heaps /\ p \in Nat /\ v # Null
  BY PricesAreNat, NullIsNoSlot DEF HeapInv
<1>2. h.freeOrders[o] = 0 /\ \A w \in LevelSlots : o \notin QueueOf(h, w)
  BY InHand
<1>3. /\ h.freeLevels[v] = 1 /\ g.freeLevels[v] = 0
      /\ g.levels[v].price = p
      /\ IsInjective(g.levels[v].queue) /\ QueueOf(g, v) = {o}
      /\ ListOf(g, l, s) = ListOf(h, l, s) \cup {v}
  BY DEF Opens
<1>4. \A w \in LevelSlots : w # v =>
        /\ g.levels[w] = h.levels[w] /\ QueueOf(g, w) = QueueOf(h, w)
        /\ g.freeLevels[w] = h.freeLevels[w]
  BY DEF Opens, Elsewhere, QueueOf
<1>5. \A m \in Locates, t \in Sides : m # l \/ t # s =>
        /\ g.book[m].list[t] = h.book[m].list[t]
        /\ ListOf(g, m, t) = ListOf(h, m, t)
        /\ g.book[m].map[t] = h.book[m].map[t]
        /\ g.book[m].nLevels[t] = h.book[m].nLevels[t]
  BY DEF Opens, Elsewhere, ListOf
<1>6. g.orders = h.orders /\ g.freeOrders = h.freeOrders
  BY DEF Opens, Elsewhere
<1>7. h.levels[v].queue = <<>> /\ QueueOf(h, v) = {}
  <2>1. h.levels[v].queue = <<>>
    BY <1>3 DEF HeapInv, ListsInv
  <2> QED  BY <1>1, <2>1, PartsOf, NonemptyRange DEF QueueOf
<1>8. \A m \in Locates, t \in Sides : ListOf(h, m, t) \subseteq LevelSlots \ {v}
  <2>1. \A m \in Locates, t \in Sides : v \notin ListOf(h, m, t)
    BY <1>3 DEF HeapInv, ListsInv
  <2> QED  BY <1>1, <2>1, PartsOf
<1>9. FreeOrdersInv(g, D \ {o})
  BY <1>6 DEF HeapInv, FreeOrdersInv
<1>10. QueuesInv(g, D \ {o})
  <2>1. \A w \in LevelSlots : IsInjective(g.levels[w].queue)
    BY <1>3, <1>4 DEF HeapInv, QueuesInv
  <2>2. \A w, x \in LevelSlots : QueueOf(g, w) \cap QueueOf(g, x) # {} => w = x
    BY <1>2, <1>3, <1>4 DEF HeapInv, QueuesInv
  <2>3. \A x \in OrderSlots : (\E w \in LevelSlots : x \in QueueOf(g, w))
            <=> x = o \/ \E w \in LevelSlots : x \in QueueOf(h, w)
    BY <1>3, <1>4, <1>7
  <2>4. \A x \in OrderSlots : (\E w \in LevelSlots : x \in QueueOf(g, w))
            <=> g.freeOrders[x] = 0 /\ x \notin D \ {o}
    BY <1>2, <1>6, <2>3 DEF HeapInv, QueuesInv
  <2> QED  BY <2>1, <2>2, <2>4 DEF QueuesInv
<1>11. ListsInv(g)
  <2>1. ASSUME NEW w \in LevelSlots
        PROVE  /\ g.freeLevels[w] \in {0, 1}
               /\ g.freeLevels[w] = 1 <=> g.levels[w].queue = <<>>
               /\ g.freeLevels[w] = 0 <=> \E m \in Locates, t \in Sides : w \in ListOf(g, m, t)
    <3>1. CASE w = v
      <4>1. g.levels[v].queue # <<>>
        BY <1>3, PartsOf, NonemptyRange DEF QueueOf
      <4> QED  BY <1>3, <3>1, <4>1
    <3>2. CASE w # v
      <4>1. \A m \in Locates, t \in Sides : w \in ListOf(g, m, t) <=> w \in ListOf(h, m, t)
        BY <1>3, <1>5, <3>2
      <4> QED  BY <1>4, <3>2, <4>1 DEF HeapInv, ListsInv
    <3> QED  BY <3>1, <3>2
  <2>2. ASSUME NEW m \in Locates, NEW t \in Sides
        PROVE  /\ IsInjective(g.book[m].list[t])
               /\ g.book[m].nLevels[t] = Len(g.book[m].list[t])
    <3>1. /\ IsInjective(h.book[m].list[t])
          /\ h.book[m].nLevels[t] = Len(h.book[m].list[t])
      BY DEF HeapInv, ListsInv
    <3>2. CASE m # l \/ t # s
      BY <1>5, <3>1, <3>2
    <3>3. CASE m = l /\ t = s
      BY <3>1, <3>3 DEF Opens
    <3> QED  BY <3>2, <3>3
  <2> QED  BY <2>1, <2>2 DEF ListsInv
<1>12. HomesInv(g)
  <2> SUFFICES ASSUME NEW m \in Locates, NEW t \in Sides, NEW w \in ListOf(g, m, t),
                      NEW x \in QueueOf(g, w)
               PROVE  /\ h.orders[x].locate = m
                      /\ h.orders[x].side = t
                      /\ h.orders[x].price = g.levels[w].price
    BY <1>6 DEF HomesInv
  <2>1. CASE w = v
    BY <1>3, <1>5, <1>8, <2>1
  <2>2. CASE w # v
    <3>1. w \in ListOf(h, m, t) /\ w \in LevelSlots
      BY <1>3, <1>5, <1>8, <2>2
    <3> QED  BY <1>4, <2>2, <3>1 DEF HeapInv, HomesInv
  <2> QED  BY <2>1, <2>2
<1>13. MapFinds(g, l, s)
  <2>1. PICK map : map = h.book[l].map[s]
    OBVIOUS
  <2>2. map \in [Prices -> LevelSlots \cup {Null}]
    BY <1>1, <2>1, PartsOf
  <2>3. \A q \in Prices : g.book[l].map[s][q] = IF q = p /\ p # EmptyPrice THEN v ELSE map[q]
    BY <2>1, <2>2, MapSetIs DEF Opens
  <2>4. /\ \A q \in Prices : map[q] # Null =>
              /\ q # EmptyPrice
              /\ map[q] \in ListOf(h, l, s)
              /\ h.levels[map[q]].price = q
        /\ \A w \in ListOf(h, l, s) : h.levels[w].price # EmptyPrice =>
              map[h.levels[w].price] = w
    BY <2>1, SMTT(90) DEF HeapInv, MapsInv, MapFinds
  <2>5. \A w \in ListOf(h, l, s) : g.levels[w].price = h.levels[w].price
    BY <1>4, <1>8
  <2>6. p # EmptyPrice => map[p] = Null
    BY <2>1 DEF FindLevel
  <2>7. \A w \in ListOf(h, l, s) : h.levels[w].price \in Prices
    BY PricesInUse
  <2>8. ASSUME NEW q \in Prices, g.book[l].map[s][q] # Null
        PROVE  /\ q # EmptyPrice
               /\ g.book[l].map[s][q] \in ListOf(g, l, s)
               /\ g.levels[g.book[l].map[s][q]].price = q
    BY <1>3, <2>3, <2>4, <2>5, <2>8
  <2>9. ASSUME NEW w \in ListOf(g, l, s), g.levels[w].price # EmptyPrice
        PROVE  g.book[l].map[s][g.levels[w].price] = w
    <3>1. CASE w = v
      BY <1>3, <2>3, <2>9, <3>1
    <3>2. CASE w # v
      <4>1. w \in ListOf(h, l, s) /\ g.levels[w].price = h.levels[w].price
        BY <1>3, <2>5, <3>2
      <4>2. map[g.levels[w].price] = w /\ g.levels[w].price \in Prices
        BY <2>4, <2>7, <2>9, <4>1
      <4>3. w # Null
        BY <1>8, <4>1, NullIsNoSlot
      <4>4. g.levels[w].price # p
        BY <2>6, <2>9, <4>2, <4>3
      <4> QED  BY <2>3, <4>2, <4>4
    <3> QED  BY <3>1, <3>2
  <2> QED  BY <2>8, <2>9 DEF MapFinds
<1>14. MapsInv(g) /\ SortedInv(g)
  <2>1. ASSUME NEW m \in Locates, NEW t \in Sides, m # l \/ t # s
        PROVE  MapFinds(g, m, t) /\ ListSorted(g, m, t)
    <3>1. \A w \in ListOf(h, m, t) : g.levels[w].price = h.levels[w].price
      BY <1>4, <1>8
    <3> QED  BY <1>1, <1>5, <2>1, <3>1, SameSide DEF HeapInv, MapsInv, SortedInv
  <2> QED  BY <1>13, <2>1 DEF MapsInv, SortedInv
<1>15. CountsInv(g, D \ {o})
  BY <1>6, CountUp DEF Opens, Elsewhere
<1> QED  BY <1>9, <1>10, <1>11, <1>12, <1>14, <1>15 DEF HeapInv

(* Level v of side s of book l was closed: o, its last order, was unlinked. *)
Closes(h, g, l, s, v, o) ==
    /\ Elsewhere(h, g, l, s, v)
    /\ QueueOf(h, v) = {o}
    /\ g.freeLevels[v] = 1 /\ g.levels[v].queue = <<>>
    /\ IsInjective(g.book[l].list[s])
    /\ ListOf(g, l, s) = ListOf(h, l, s) \ {v}
    /\ Len(g.book[l].list[s]) = Len(h.book[l].list[s]) - 1
    /\ g.book[l].map[s] = MapSet(h.book[l].map[s], h.levels[v].price, Null)
    /\ g.book[l].nLevels[s] = h.book[l].nLevels[s] - 1
    /\ g.book[l].nOrders = h.book[l].nOrders - 1

(* Unlinking the last order of a level, which goes with it.                *)
LEMMA CloseKeeps ==
    ASSUME NEW h, NEW D, HeapInv(h, D), NEW l \in Locates, NEW s \in Sides,
           NEW v \in ListOf(h, l, s), NEW o \in QueueOf(h, v),
           NEW g \in Heaps, Closes(h, g, l, s, v, o), ListSorted(g, l, s)
    PROVE  HeapInv(g, D \cup {o})
<1>1. h \in Heaps /\ v \in LevelSlots /\ o \in OrderSlots
  BY PartsOf DEF HeapInv
<1>2. h.freeOrders[o] = 0 /\ o \notin D /\ h.orders[o].locate = l
  BY <1>1 DEF HeapInv, QueuesInv, HomesInv
<1>3. /\ QueueOf(h, v) = {o} /\ QueueOf(g, v) = {}
      /\ g.freeLevels[v] = 1 /\ g.levels[v].queue = <<>>
      /\ ListOf(g, l, s) = ListOf(h, l, s) \ {v}
  <2>1. g.levels[v].queue \in Seq(OrderSlots)
    BY <1>1, PartsOf
  <2> QED  BY <2>1, NonemptyRange DEF Closes, QueueOf
<1>4. \A w \in LevelSlots : w # v =>
        /\ g.levels[w] = h.levels[w] /\ QueueOf(g, w) = QueueOf(h, w)
        /\ g.freeLevels[w] = h.freeLevels[w]
  BY DEF Closes, Elsewhere, QueueOf
<1>5. \A m \in Locates, t \in Sides : m # l \/ t # s =>
        /\ g.book[m].list[t] = h.book[m].list[t]
        /\ ListOf(g, m, t) = ListOf(h, m, t)
        /\ g.book[m].map[t] = h.book[m].map[t]
        /\ g.book[m].nLevels[t] = h.book[m].nLevels[t]
  BY DEF Closes, Elsewhere, ListOf
<1>6. g.orders = h.orders /\ g.freeOrders = h.freeOrders
  BY DEF Closes, Elsewhere
<1>7. \A m \in Locates, t \in Sides : m # l \/ t # s =>
        ListOf(h, m, t) \subseteq LevelSlots \ {v}
  <2>1. \A m \in Locates, t \in Sides : v \in ListOf(h, m, t) => m = l /\ t = s
    BY OneList
  <2> QED  BY <1>1, <2>1, PartsOf
<1>8. \A m \in Locates, t \in Sides : ListOf(g, m, t) \subseteq ListOf(h, m, t) \ {v}
  BY <1>3, <1>5, <1>7
<1>9. FreeOrdersInv(g, D \cup {o})
  BY <1>2, <1>6 DEF HeapInv, FreeOrdersInv
<1>10. QueuesInv(g, D \cup {o})
  <2>1. \A w \in LevelSlots : IsInjective(g.levels[w].queue)
    <3>1. IsInjective(g.levels[v].queue)
      BY <1>3 DEF IsInjective
    <3> QED  BY <1>4, <3>1 DEF HeapInv, QueuesInv
  <2>2. \A w, x \in LevelSlots : QueueOf(g, w) \cap QueueOf(g, x) # {} => w = x
    BY <1>3, <1>4 DEF HeapInv, QueuesInv
  <2>3. \A w \in LevelSlots : w # v => o \notin QueueOf(h, w)
    BY <1>1 DEF HeapInv, QueuesInv
  <2>4. \A x \in OrderSlots : (\E w \in LevelSlots : x \in QueueOf(g, w))
            <=> x # o /\ \E w \in LevelSlots : x \in QueueOf(h, w)
    BY <1>1, <1>3, <1>4, <2>3
  <2>5. \A x \in OrderSlots : (\E w \in LevelSlots : x \in QueueOf(g, w))
            <=> g.freeOrders[x] = 0 /\ x \notin D \cup {o}
    BY <1>2, <1>6, <2>4 DEF HeapInv, QueuesInv
  <2> QED  BY <2>1, <2>2, <2>5 DEF QueuesInv
<1>11. ListsInv(g)
  <2>1. ASSUME NEW w \in LevelSlots
        PROVE  /\ g.freeLevels[w] \in {0, 1}
               /\ g.freeLevels[w] = 1 <=> g.levels[w].queue = <<>>
               /\ g.freeLevels[w] = 0 <=> \E m \in Locates, t \in Sides : w \in ListOf(g, m, t)
    <3>1. CASE w = v
      BY <1>3, <1>8, <3>1
    <3>2. CASE w # v
      <4>1. \A m \in Locates, t \in Sides : w \in ListOf(g, m, t) <=> w \in ListOf(h, m, t)
        BY <1>3, <1>5, <3>2
      <4> QED  BY <1>4, <3>2, <4>1 DEF HeapInv, ListsInv
    <3> QED  BY <3>1, <3>2
  <2>2. ASSUME NEW m \in Locates, NEW t \in Sides
        PROVE  /\ IsInjective(g.book[m].list[t])
               /\ g.book[m].nLevels[t] = Len(g.book[m].list[t])
    <3>1. /\ IsInjective(h.book[m].list[t])
          /\ h.book[m].nLevels[t] = Len(h.book[m].list[t])
      BY DEF HeapInv, ListsInv
    <3>2. CASE m # l \/ t # s
      BY <1>5, <3>1, <3>2
    <3>3. CASE m = l /\ t = s
      BY <3>1, <3>3 DEF Closes
    <3> QED  BY <3>2, <3>3
  <2> QED  BY <2>1, <2>2 DEF ListsInv
<1>12. HomesInv(g)
  <2> SUFFICES ASSUME NEW m \in Locates, NEW t \in Sides, NEW w \in ListOf(g, m, t),
                      NEW x \in QueueOf(g, w)
               PROVE  /\ h.orders[x].locate = m
                      /\ h.orders[x].side = t
                      /\ h.orders[x].price = g.levels[w].price
    BY <1>6 DEF HomesInv
  <2>1. w \in ListOf(h, m, t) /\ w \in LevelSlots /\ w # v
    BY <1>1, <1>8, PartsOf
  <2> QED  BY <1>4, <2>1 DEF HeapInv, HomesInv
<1>13. MapFinds(g, l, s)
  <2>1. PICK map : map = h.book[l].map[s]
    OBVIOUS
  <2>2. PICK p : p = h.levels[v].price
    OBVIOUS
  <2>3. p \in Prices /\ map \in [Prices -> LevelSlots \cup {Null}]
    BY <1>1, <2>1, <2>2, PartsOf, PricesInUse
  <2>4. \A q \in Prices :
            g.book[l].map[s][q] = IF q = p /\ p # EmptyPrice THEN Null ELSE map[q]
    BY <2>1, <2>2, <2>3, MapSetIs DEF Closes
  <2>5. /\ \A q \in Prices : map[q] # Null =>
              /\ q # EmptyPrice
              /\ map[q] \in ListOf(h, l, s)
              /\ h.levels[map[q]].price = q
        /\ \A w \in ListOf(h, l, s) : h.levels[w].price # EmptyPrice =>
              map[h.levels[w].price] = w
    BY <2>1, SMTT(90) DEF HeapInv, MapsInv, MapFinds
  <2>6. \A w \in ListOf(h, l, s) \ {v} :
            g.levels[w].price = h.levels[w].price /\ h.levels[w].price \in Prices
    <3>1. ListOf(h, l, s) \subseteq LevelSlots
      BY <1>1, PartsOf
    <3> QED  BY <1>4, <3>1, PricesInUse
  <2>7. ASSUME NEW q \in Prices, g.book[l].map[s][q] # Null
        PROVE  /\ q # EmptyPrice
               /\ g.book[l].map[s][q] \in ListOf(g, l, s)
               /\ g.levels[g.book[l].map[s][q]].price = q
    <3>1. g.book[l].map[s][q] = map[q] /\ map[q] # Null
      BY <2>4, <2>7
    <3>2. q # EmptyPrice /\ map[q] \in ListOf(h, l, s) /\ h.levels[map[q]].price = q
      BY <2>5, <3>1
    <3>3. map[q] # v
      BY <2>2, <2>4, <2>7, <3>2
    <3> QED  BY <1>3, <2>6, <3>1, <3>2, <3>3
  <2>8. ASSUME NEW w \in ListOf(g, l, s), g.levels[w].price # EmptyPrice
        PROVE  g.book[l].map[s][g.levels[w].price] = w
    <3>1. w \in ListOf(h, l, s) /\ w # v
      BY <1>3
    <3>2. g.levels[w].price = h.levels[w].price /\ g.levels[w].price \in Prices
      BY <2>6, <3>1
    <3>3. map[g.levels[w].price] = w
      BY <2>5, <2>8, <3>1, <3>2
    <3>4. p # EmptyPrice => map[p] = v
      BY <2>2, <2>5
    <3> QED  BY <2>4, <3>1, <3>2, <3>3, <3>4
  <2> QED  BY <2>7, <2>8 DEF MapFinds
<1>14. MapsInv(g) /\ SortedInv(g)
  <2>1. ASSUME NEW m \in Locates, NEW t \in Sides, m # l \/ t # s
        PROVE  MapFinds(g, m, t) /\ ListSorted(g, m, t)
    <3>1. \A w \in ListOf(h, m, t) : g.levels[w].price = h.levels[w].price
      BY <1>4, <1>7, <2>1
    <3> QED  BY <1>1, <1>5, <2>1, <3>1, SameSide DEF HeapInv, MapsInv, SortedInv
  <2> QED  BY <1>13, <2>1 DEF MapsInv, SortedInv
<1>15. CountsInv(g, D \cup {o})
  BY <1>1, <1>2, <1>6, CountDown, SMTT(30) DEF Closes, Elsewhere
<1> QED  BY <1>9, <1>10, <1>11, <1>12, <1>14, <1>15 DEF HeapInv

(* The invariant reads neither totals nor shares.                          *)
LEMMA SameShape ==
    ASSUME NEW h, NEW D, HeapInv(h, D), NEW g \in Heaps,
           g.book = h.book, g.freeLevels = h.freeLevels, g.freeOrders = h.freeOrders,
           \A w \in LevelSlots : /\ g.levels[w].queue = h.levels[w].queue
                                 /\ g.levels[w].price = h.levels[w].price,
           \A x \in OrderSlots : /\ g.orders[x].id = h.orders[x].id
                                 /\ g.orders[x].locate = h.orders[x].locate
                                 /\ g.orders[x].side = h.orders[x].side
                                 /\ g.orders[x].price = h.orders[x].price
    PROVE  HeapInv(g, D)
<1>1. h \in Heaps
  BY DEF HeapInv
<1>2. \A w \in LevelSlots : QueueOf(g, w) = QueueOf(h, w) /\ QueueOf(h, w) \subseteq OrderSlots
  BY <1>1, PartsOf DEF QueueOf
<1>3. \A m \in Locates, t \in Sides :
        ListOf(g, m, t) = ListOf(h, m, t) /\ ListOf(h, m, t) \subseteq LevelSlots
  BY <1>1, PartsOf DEF ListOf
<1>4. FreeOrdersInv(g, D)
  BY DEF HeapInv, FreeOrdersInv
<1>5. QueuesInv(g, D)
  BY <1>2 DEF HeapInv, QueuesInv
<1>6. ListsInv(g)
  BY <1>3 DEF HeapInv, ListsInv
<1>7. HomesInv(g)
  BY <1>2, <1>3 DEF HeapInv, HomesInv
<1>8. MapsInv(g) /\ SortedInv(g)
  BY <1>1, SameLists DEF HeapInv
<1>9. CountsInv(g, D)
  <2>1. \A m \in Locates : Rests(g, D, m) = Rests(h, D, m)
    BY DEF Rests
  <2> QED  BY <2>1 DEF HeapInv, CountsInv
<1> QED  BY <1>4, <1>5, <1>6, <1>7, <1>8, <1>9 DEF HeapInv

-----------------------------------------------------------------------------
(* What the order pool does to the heap.                                   *)

(* Heap g is heap h but for order slot o, which no queue of h holds, and   *)
(* which is now in the free list or in the handler's hands.                *)
Moves(h, D, g, E, o) ==
    /\ g.book = h.book /\ g.levels = h.levels /\ g.freeLevels = h.freeLevels
    /\ \A v \in LevelSlots : o \notin QueueOf(h, v)
    /\ \A x \in OrderSlots : x # o =>
          /\ g.orders[x] = h.orders[x]
          /\ g.freeOrders[x] = h.freeOrders[x]
          /\ x \in E <=> x \in D
    /\ \/ g.freeOrders[o] = 0 /\ o \in E
       \/ g.freeOrders[o] = 1 /\ o \notin E /\ g.orders[o].id = Null

(* A slot that moves between the free list and a handler's hands.          *)
LEMMA SlotMoves ==
    ASSUME NEW h, NEW D, HeapInv(h, D), NEW g \in Heaps, NEW E, NEW o \in OrderSlots,
           Moves(h, D, g, E, o)
    PROVE  HeapInv(g, E)
<1> USE DEF Moves
<1>1. h \in Heaps
  BY DEF HeapInv
<1>2. \A v \in LevelSlots : QueueOf(g, v) = QueueOf(h, v) /\ QueueOf(h, v) \subseteq OrderSlots \ {o}
  BY <1>1, PartsOf DEF QueueOf
<1>3. \A m \in Locates, t \in Sides :
        ListOf(g, m, t) = ListOf(h, m, t) /\ ListOf(h, m, t) \subseteq LevelSlots
  BY <1>1, PartsOf DEF ListOf
<1>4. FreeOrdersInv(g, E)
  BY DEF HeapInv, FreeOrdersInv
<1>5. QueuesInv(g, E)
  BY <1>2 DEF HeapInv, QueuesInv
<1>6. ListsInv(g)
  BY <1>3 DEF HeapInv, ListsInv
<1>7. HomesInv(g)
  BY <1>2, <1>3 DEF HeapInv, HomesInv
<1>8. MapsInv(g) /\ SortedInv(g)
  BY <1>1, SameLists DEF HeapInv
<1>9. CountsInv(g, E)
  <2>1. h.freeOrders[o] = 1 \/ o \in D
    BY DEF HeapInv, QueuesInv, FreeOrdersInv
  <2>2. \A m \in Locates : Rests(g, E, m) = Rests(h, D, m)
    BY <2>1 DEF Rests
  <2> QED  BY <2>2 DEF HeapInv, CountsInv
<1> QED  BY <1>4, <1>5, <1>6, <1>7, <1>8, <1>9 DEF HeapInv

(* The shares of every order of a well-typed heap can be summed.           *)
LEMMA SharesOfHeap ==
    ASSUME NEW h \in Heaps
    PROVE  Shares(h.orders, OrderSlots)
BY OrderParts DEF Shares

(* No total counts a slot that is in no queue.                             *)
LEMMA TotalsMove ==
    ASSUME NEW h, NEW D, HeapInv(h, D), NEW g \in Heaps, NEW E, NEW o \in OrderSlots,
           Moves(h, D, g, E, o), TotalsInv(h)
    PROVE  TotalsInv(g)
<1> SUFFICES ASSUME NEW v \in LevelSlots
             PROVE  g.levels[v].total = SharesIn(g.orders, g.levels[v].queue)
  BY DEF TotalsInv
<1>1. PICK queue : queue = h.levels[v].queue
  OBVIOUS
<1>2. \A x \in Range(queue) : g.orders[x].shares = h.orders[x].shares
  <2>1. Range(queue) \subseteq OrderSlots /\ o \notin Range(queue)
    BY <1>1, PartsOf DEF HeapInv, Moves, QueueOf
  <2> QED  BY <2>1 DEF Moves
<1>3. SharesIn(g.orders, queue) = SharesIn(h.orders, queue)
  BY <1>2, SharesSame
<1>4. g.levels[v] = h.levels[v]
  BY DEF Moves
<1> QED  BY <1>1, <1>3, <1>4 DEF TotalsInv

(* acquire takes a free slot into hand.                                    *)
LEMMA TakeKeeps ==
    ASSUME NEW h, NEW D, HeapInv(h, D), NEW o \in OrderSlots, h.freeOrders[o] > 0,
           NEW g, g = TakeOrder(h, o)
    PROVE  /\ HeapInv(g, D \cup {o})
           /\ o \notin D
           /\ g.freeOrders = [h.freeOrders EXCEPT ![o] = 0]
           /\ g.orders = h.orders /\ g.freeLevels = h.freeLevels
           /\ TotalsInv(h) => TotalsInv(g)
<1>1. h \in Heaps /\ h.freeOrders[o] = 1 /\ o \notin D
  BY DEF HeapInv, FreeOrdersInv
<1>2. g \in Heaps
  BY <1>1, TakeType
<1>3. /\ g.book = h.book /\ g.levels = h.levels /\ g.freeLevels = h.freeLevels
      /\ g.orders = h.orders /\ g.freeOrders = [h.freeOrders EXCEPT ![o] = 0]
  BY <1>1 DEF TakeOrder, Heaps
<1>4. \A v \in LevelSlots : o \notin QueueOf(h, v)
  BY <1>1 DEF HeapInv, QueuesInv
<1>5. HeapInv(g, D \cup {o})
  <2> DEFINE E == D \cup {o}
  <2>1. g.freeOrders[o] = 0 /\ o \in E
    BY <1>1, <1>3, HeapParts
  <2>2. \A x \in OrderSlots : x # o =>
            /\ g.orders[x] = h.orders[x]
            /\ g.freeOrders[x] = h.freeOrders[x]
            /\ x \in E <=> x \in D
    BY <1>1, <1>3, HeapParts
  <2> HIDE DEF E
  <2>3. HeapInv(g, E)
    <3>1. Moves(h, D, g, E, o)
      BY <1>3, <1>4, <2>1, <2>2 DEF Moves
    <3> QED  BY <1>2, <3>1, SlotMoves
  <2> QED  BY <2>3 DEF E
<1>6. TotalsInv(h) => TotalsInv(g)
  BY <1>3 DEF TotalsInv
<1> QED  BY <1>1, <1>3, <1>5, <1>6

(* Constructing an order in a slot in hand.                                *)
LEMMA NewKeeps ==
    ASSUME NEW h, NEW D, HeapInv(h, D), NEW o \in OrderSlots, o \in D, NEW id \in Ids,
           NEW l \in Locates, NEW s \in Sides, NEW p \in Prices, NEW q \in Quantities,
           NEW g, g = NewOrder(h, o, id, l, s, p, q)
    PROVE  /\ HeapInv(g, D)
           /\ g.orders = [h.orders EXCEPT ![o] =
                 [id |-> id, locate |-> l, side |-> s, price |-> p, shares |-> q]]
           /\ g.freeOrders = h.freeOrders /\ g.freeLevels = h.freeLevels
           /\ TotalsInv(h) => TotalsInv(g)
<1>1. h \in Heaps /\ g \in Heaps
  BY NewOrderType DEF HeapInv
<1>2. /\ g.book = h.book /\ g.levels = h.levels /\ g.freeLevels = h.freeLevels
      /\ g.freeOrders = h.freeOrders
      /\ g.orders = [h.orders EXCEPT ![o] =
            [id |-> id, locate |-> l, side |-> s, price |-> p, shares |-> q]]
  BY <1>1 DEF NewOrder, Heaps
<1>3. HeapInv(g, D) /\ (TotalsInv(h) => TotalsInv(g))
  <2>1. h.freeOrders[o] = 0 /\ \A v \in LevelSlots : o \notin QueueOf(h, v)
    BY InHand
  <2>2. \A x \in OrderSlots : x # o => g.orders[x] = h.orders[x]
    BY <1>1, <1>2, HeapParts
  <2>3. Moves(h, D, g, D, o)
    BY <1>2, <2>1, <2>2 DEF Moves
  <2> QED  BY <1>1, <2>3, SlotMoves, TotalsMove
<1> QED  BY <1>2, <1>3

(* release gives back a slot in hand.                                      *)
LEMMA ReleaseKeeps ==
    ASSUME NEW h, NEW D, HeapInv(h, D), NEW o \in OrderSlots, o \in D,
           NEW g, g = ReleaseOrder(h, o)
    PROVE  /\ HeapInv(g, D \ {o})
           /\ g.freeOrders = [h.freeOrders EXCEPT ![o] = 1]
           /\ g.orders = [h.orders EXCEPT ![o] = BlankOrder]
           /\ g.freeLevels = h.freeLevels
           /\ TotalsInv(h) => TotalsInv(g)
<1>1. h \in Heaps /\ g \in Heaps
  BY ReleaseType DEF HeapInv
<1>2. h.freeOrders[o] = 0 /\ \A v \in LevelSlots : o \notin QueueOf(h, v)
  BY InHand
<1>3. /\ g.book = h.book /\ g.levels = h.levels /\ g.freeLevels = h.freeLevels
      /\ g.freeOrders = [h.freeOrders EXCEPT ![o] = 1]
      /\ g.orders = [h.orders EXCEPT ![o] = BlankOrder]
  BY <1>1, <1>2 DEF ReleaseOrder, Heaps
<1>4. HeapInv(g, D \ {o}) /\ (TotalsInv(h) => TotalsInv(g))
  <2>1. BlankOrder.id = Null
    BY DEF BlankOrder
  <2> DEFINE E == D \ {o}
  <2>2. g.freeOrders[o] = 1 /\ o \notin E /\ g.orders[o].id = Null
    BY <1>1, <1>3, <2>1, HeapParts
  <2>3. \A x \in OrderSlots : x # o =>
            /\ g.orders[x] = h.orders[x]
            /\ g.freeOrders[x] = h.freeOrders[x]
            /\ x \in E <=> x \in D
    BY <1>1, <1>3, HeapParts
  <2> HIDE DEF E
  <2>4. HeapInv(g, E) /\ (TotalsInv(h) => TotalsInv(g))
    <3>1. Moves(h, D, g, E, o)
      BY <1>2, <1>3, <2>2, <2>3 DEF Moves
    <3> QED  BY <1>1, <3>1, SlotMoves, TotalsMove
  <2> QED  BY <2>4 DEF E
<1> QED  BY <1>3, <1>4

-----------------------------------------------------------------------------
(* OrderBook::add_order.                                                   *)

(* Writing a level and the count of orders of book l, read off.            *)
LEMMA WriteLevelIs ==
    ASSUME NEW h \in Heaps, NEW l \in Locates, NEW v \in LevelSlots, NEW lv, NEW n,
           NEW g, g = WriteLevel(h, l, v, lv, n)
    PROVE  /\ g.orders = h.orders /\ g.freeOrders = h.freeOrders
           /\ g.freeLevels = h.freeLevels
           /\ g.levels[v] = lv /\ \A w \in LevelSlots : w # v => g.levels[w] = h.levels[w]
           /\ \A m \in Locates : /\ g.book[m].list = h.book[m].list
                                 /\ g.book[m].map = h.book[m].map
                                 /\ g.book[m].nLevels = h.book[m].nLevels
           /\ g.book[l].nOrders = n
           /\ \A m \in Locates : m # l => g.book[m].nOrders = h.book[m].nOrders
<1>1. PICK b : b = [h.book[l] EXCEPT !.nOrders = n]
  OBVIOUS
<1>2. /\ b.list = h.book[l].list /\ b.map = h.book[l].map
      /\ b.nLevels = h.book[l].nLevels /\ b.nOrders = n
  BY <1>1, HeapParts DEF BookRecords
<1>3. g.book = [h.book EXCEPT ![l] = b] /\ g.levels = [h.levels EXCEPT ![v] = lv]
  BY <1>1 DEF WriteLevel, Heaps
<1>4. g.book[l] = b /\ \A m \in Locates : m # l => g.book[m] = h.book[m]
  BY <1>3, HeapParts
<1>5. g.levels[v] = lv /\ \A w \in LevelSlots : w # v => g.levels[w] = h.levels[w]
  BY <1>3, HeapParts
<1>6. /\ g.orders = h.orders /\ g.freeOrders = h.freeOrders
      /\ g.freeLevels = h.freeLevels
  BY DEF WriteLevel, Heaps
<1> QED  BY <1>2, <1>4, <1>5, <1>6

(* PushBack, read off.                                                     *)
LEMMA PushBackIs ==
    ASSUME NEW h \in Heaps, NEW l \in Locates, NEW v \in LevelSlots, NEW o \in OrderSlots,
           NEW g, g = PushBack(h, l, v, o)
    PROVE  /\ g \in Heaps
           /\ g.orders = h.orders /\ g.freeOrders = h.freeOrders
           /\ g.freeLevels = h.freeLevels
           /\ g.levels[v].price = h.levels[v].price
           /\ g.levels[v].queue = Append(h.levels[v].queue, o)
           /\ g.levels[v].total = h.levels[v].total + h.orders[o].shares
           /\ \A w \in LevelSlots : w # v => g.levels[w] = h.levels[w]
           /\ \A m \in Locates : /\ g.book[m].list = h.book[m].list
                                 /\ g.book[m].map = h.book[m].map
                                 /\ g.book[m].nLevels = h.book[m].nLevels
           /\ g.book[l].nOrders = h.book[l].nOrders + 1
           /\ \A m \in Locates : m # l => g.book[m].nOrders = h.book[m].nOrders
<1>1. PICK lv : lv = Enqueue(h.levels[v], o, h.orders[o].shares)
  OBVIOUS
<1>2. PICK n : n = h.book[l].nOrders + 1
  OBVIOUS
<1>3. /\ lv.price = h.levels[v].price /\ lv.queue = Append(h.levels[v].queue, o)
      /\ lv.total = h.levels[v].total + h.orders[o].shares
  BY <1>1, HeapParts DEF Enqueue, LevelRecords
<1>4. g = WriteLevel(h, l, v, lv, n)
  BY <1>1, <1>2 DEF PushBack, Heaps, WriteLevel
<1>5. g \in Heaps
  BY PushBackType
<1>6. /\ g.orders = h.orders /\ g.freeOrders = h.freeOrders /\ g.freeLevels = h.freeLevels
      /\ g.levels[v] = lv /\ g.book[l].nOrders = n
      /\ \A w \in LevelSlots : w # v => g.levels[w] = h.levels[w]
      /\ \A m \in Locates : /\ g.book[m].list = h.book[m].list
                            /\ g.book[m].map = h.book[m].map
                            /\ g.book[m].nLevels = h.book[m].nLevels
      /\ \A m \in Locates : m # l => g.book[m].nOrders = h.book[m].nOrders
  BY <1>4, WriteLevelIs
<1> QED  BY <1>2, <1>3, <1>5, <1>6

(* OpenLevel, read off.                                                    *)
Opened(h, g, l, s, p, v) ==
    /\ g.orders = h.orders /\ g.freeOrders = h.freeOrders
    /\ g.freeLevels = [h.freeLevels EXCEPT ![v] = h.freeLevels[v] - 1]
    /\ g.levels[v] = [price |-> p, total |-> 0, queue |-> <<>>]
    /\ \A w \in LevelSlots : w # v => g.levels[w] = h.levels[w]
    /\ \A m \in Locates : m # l => g.book[m] = h.book[m]
    /\ g.book[l].list = [h.book[l].list EXCEPT ![s] =
          InsertAfterRun(h.book[l].list[s], Better(h, h.book[l].list[s], s, p), v)]
    /\ g.book[l].map = [h.book[l].map EXCEPT ![s] = MapSet(h.book[l].map[s], p, v)]
    /\ g.book[l].nLevels = [h.book[l].nLevels EXCEPT ![s] = h.book[l].nLevels[s] + 1]
    /\ g.book[l].nOrders = h.book[l].nOrders

(* OpenLevel does that.                                                    *)
LEMMA OpenLevelIs ==
    ASSUME NEW h \in Heaps, NEW l \in Locates, NEW s \in Sides, NEW p \in Prices,
           NEW v \in LevelSlots, NEW g, g = OpenLevel(h, l, s, p, v)
    PROVE  g \in Heaps /\ Opened(h, g, l, s, p, v)
<1>1. g \in Heaps
  BY OpenLevelType
<1>2. PICK b : b = LinkLevel(h, h.book[l], s, p, v)
  OBVIOUS
<1>3. PICK lv : lv = [price |-> p, total |-> 0, queue |-> <<>>]
  OBVIOUS
<1>4. h.book[l] \in BookRecords
  BY HeapParts
<1>5. /\ b.list = [h.book[l].list EXCEPT ![s] =
            InsertAfterRun(h.book[l].list[s], Better(h, h.book[l].list[s], s, p), v)]
      /\ b.map = [h.book[l].map EXCEPT ![s] = MapSet(h.book[l].map[s], p, v)]
      /\ b.nLevels = [h.book[l].nLevels EXCEPT ![s] = h.book[l].nLevels[s] + 1]
      /\ b.nOrders = h.book[l].nOrders
  BY <1>2, <1>4 DEF LinkLevel, BookRecords
<1>6. /\ g.orders = h.orders /\ g.freeOrders = h.freeOrders
      /\ g.freeLevels = [h.freeLevels EXCEPT ![v] = h.freeLevels[v] - 1]
      /\ g.levels = [h.levels EXCEPT ![v] = lv]
      /\ g.book = [h.book EXCEPT ![l] = b]
  BY <1>2, <1>3 DEF OpenLevel, Heaps
<1>7. g.book[l] = b /\ \A m \in Locates : m # l => g.book[m] = h.book[m]
  BY <1>6, HeapParts
<1>8. g.levels[v] = lv /\ \A w \in LevelSlots : w # v => g.levels[w] = h.levels[w]
  BY <1>6, HeapParts
<1>9. /\ g.book[l].list = [h.book[l].list EXCEPT ![s] =
            InsertAfterRun(h.book[l].list[s], Better(h, h.book[l].list[s], s, p), v)]
      /\ g.book[l].map = [h.book[l].map EXCEPT ![s] = MapSet(h.book[l].map[s], p, v)]
      /\ g.book[l].nLevels = [h.book[l].nLevels EXCEPT ![s] = h.book[l].nLevels[s] + 1]
      /\ g.book[l].nOrders = h.book[l].nOrders
  BY <1>5, <1>7
<1>10. g.levels[v] = [price |-> p, total |-> 0, queue |-> <<>>]
  BY <1>3, <1>8
<1> QED  BY <1>1, <1>6, <1>7, <1>8, <1>9, <1>10 DEF Opened

(* push_back, on a heap in order.                                          *)
LEMMA PushBackKeeps ==
    ASSUME NEW h, NEW D, HeapInv(h, D), NEW l \in Locates, NEW s \in Sides,
           NEW o \in OrderSlots, o \in D, NEW v \in ListOf(h, l, s),
           h.orders[o].locate = l, h.orders[o].side = s,
           h.orders[o].price = h.levels[v].price,
           NEW g, g = PushBack(h, l, v, o)
    PROVE  HeapInv(g, D \ {o})
<1>1. h \in Heaps /\ v \in LevelSlots
  BY PartsOf DEF HeapInv
<1>2. /\ g \in Heaps
      /\ g.orders = h.orders /\ g.freeOrders = h.freeOrders
      /\ g.freeLevels = h.freeLevels
      /\ g.levels[v].price = h.levels[v].price
      /\ g.levels[v].queue = Append(h.levels[v].queue, o)
      /\ \A w \in LevelSlots : w # v => g.levels[w] = h.levels[w]
      /\ \A m \in Locates : /\ g.book[m].list = h.book[m].list
                            /\ g.book[m].map = h.book[m].map
                            /\ g.book[m].nLevels = h.book[m].nLevels
      /\ g.book[l].nOrders = h.book[l].nOrders + 1
      /\ \A m \in Locates : m # l => g.book[m].nOrders = h.book[m].nOrders
  BY <1>1, PushBackIs
<1>3. Elsewhere(h, g, l, s, v)
  BY <1>2 DEF Elsewhere
<1>4. IsInjective(g.levels[v].queue) /\ QueueOf(g, v) = QueueOf(h, v) \cup {o}
  <2>1. PICK queue : queue = h.levels[v].queue
    OBVIOUS
  <2>2. queue \in Seq(OrderSlots) /\ IsInjective(queue) /\ o \notin Range(queue)
    BY <1>1, <2>1, PartsOf, InHand DEF HeapInv, QueuesInv, QueueOf
  <2>3. PICK r : r = Append(queue, o)
    OBVIOUS
  <2>4. IsInjective(r) /\ Range(r) = Range(queue) \cup {o}
    BY <2>2, <2>3, AppendKeeps
  <2>5. g.levels[v].queue = r
    BY <1>2, <2>1, <2>3
  <2> QED  BY <2>1, <2>4, <2>5 DEF QueueOf
<1> QED  BY <1>2, <1>3, <1>4, EnqueueKeeps

(* A level opened at the place its price calls for, with its first order.  *)
LEMMA OpenPushKeeps ==
    ASSUME NEW h, NEW D, HeapInv(h, D), NEW l \in Locates, NEW s \in Sides,
           NEW o \in OrderSlots, o \in D, NEW v \in LevelSlots, h.freeLevels[v] > 0,
           NEW p \in Prices, FindLevel(h, l, s, p) = Null,
           h.orders[o].locate = l, h.orders[o].side = s, h.orders[o].price = p,
           NEW g, g = PushBack(OpenLevel(h, l, s, p, v), l, v, o)
    PROVE  /\ HeapInv(g, D \ {o})
           /\ g.orders = h.orders /\ g.freeOrders = h.freeOrders
           /\ h.freeLevels[v] = 1 /\ g.freeLevels = [h.freeLevels EXCEPT ![v] = 0]
<1>1. h \in Heaps /\ h.freeLevels[v] = 1
  BY DEF HeapInv, ListsInv
<1>2. PICK k : k = OpenLevel(h, l, s, p, v)
  OBVIOUS
<1>3. PICK list : list = h.book[l].list[s]
  OBVIOUS
<1>4. PICK S : S = Better(h, list, s, p)
  OBVIOUS
<1>5. PICK r : r = InsertAfterRun(list, S, v)
  OBVIOUS
<1>6. /\ k \in Heaps
      /\ k.orders = h.orders /\ k.freeOrders = h.freeOrders
      /\ k.freeLevels = [h.freeLevels EXCEPT ![v] = h.freeLevels[v] - 1]
      /\ k.levels[v] = [price |-> p, total |-> 0, queue |-> <<>>]
      /\ \A w \in LevelSlots : w # v => k.levels[w] = h.levels[w]
      /\ \A m \in Locates : m # l => k.book[m] = h.book[m]
      /\ k.book[l].list = [h.book[l].list EXCEPT ![s] = r]
      /\ k.book[l].map = [h.book[l].map EXCEPT ![s] = MapSet(h.book[l].map[s], p, v)]
      /\ k.book[l].nLevels = [h.book[l].nLevels EXCEPT ![s] = h.book[l].nLevels[s] + 1]
      /\ k.book[l].nOrders = h.book[l].nOrders
  <2>1. r = InsertAfterRun(h.book[l].list[s], Better(h, h.book[l].list[s], s, p), v)
    BY <1>3, <1>4, <1>5
  <2>2. k \in Heaps /\ Opened(h, k, l, s, p, v)
    BY <1>1, <1>2, OpenLevelIs
  <2> QED  BY <2>1, <2>2 DEF Opened
<1>7. /\ g \in Heaps
      /\ g.orders = k.orders /\ g.freeOrders = k.freeOrders
      /\ g.freeLevels = k.freeLevels
      /\ g.levels[v].price = k.levels[v].price
      /\ g.levels[v].queue = Append(k.levels[v].queue, o)
      /\ \A w \in LevelSlots : w # v => g.levels[w] = k.levels[w]
      /\ \A m \in Locates : /\ g.book[m].list = k.book[m].list
                            /\ g.book[m].map = k.book[m].map
                            /\ g.book[m].nLevels = k.book[m].nLevels
      /\ g.book[l].nOrders = k.book[l].nOrders + 1
      /\ \A m \in Locates : m # l => g.book[m].nOrders = k.book[m].nOrders
  <2>1. g = PushBack(k, l, v, o)
    BY <1>2
  <2> QED  BY <1>6, <2>1, PushBackIs, SMTT(30)
<1>8. g.freeLevels = [h.freeLevels EXCEPT ![v] = 0]
  <2>1. h.freeLevels[v] - 1 = 0
    BY <1>1
  <2>2. g.freeLevels = [h.freeLevels EXCEPT ![v] = h.freeLevels[v] - 1]
    BY <1>6, <1>7
  <2> QED  BY <2>1, <2>2
<1>9. /\ g.book[l].list[s] = r
      /\ g.book[l].map[s] = MapSet(h.book[l].map[s], p, v)
      /\ g.book[l].nLevels[s] = h.book[l].nLevels[s] + 1
      /\ g.book[l].nOrders = h.book[l].nOrders + 1
      /\ \A t \in Sides : t # s =>
            /\ g.book[l].list[t] = h.book[l].list[t]
            /\ g.book[l].map[t] = h.book[l].map[t]
            /\ g.book[l].nLevels[t] = h.book[l].nLevels[t]
  <2>1. /\ DOMAIN h.book[l].list = Sides /\ DOMAIN h.book[l].map = Sides
        /\ DOMAIN h.book[l].nLevels = Sides
    BY <1>1, HeapParts DEF BookRecords
  <2> QED  BY <1>6, <1>7, <2>1
<1>10. Elsewhere(h, g, l, s, v)
  <2>1. \A w \in LevelSlots : w # v =>
            g.levels[w] = h.levels[w] /\ g.freeLevels[w] = h.freeLevels[w]
    BY <1>1, <1>6, <1>7, <1>8, HeapParts
  <2>2. \A m \in Locates, t \in Sides : m # l \/ t # s =>
            /\ g.book[m].list[t] = h.book[m].list[t]
            /\ g.book[m].map[t] = h.book[m].map[t]
            /\ g.book[m].nLevels[t] = h.book[m].nLevels[t]
    BY <1>6, <1>7, <1>9
  <2>3. \A m \in Locates : m # l => g.book[m].nOrders = h.book[m].nOrders
    BY <1>6, <1>7
  <2> QED  BY <1>6, <1>7, <2>1, <2>2, <2>3 DEF Elsewhere
<1>11. g.levels[v].price = p /\ g.levels[v].queue = <<o>>
  <2>1. k.levels[v].price = p /\ k.levels[v].queue = <<>>
    BY <1>6
  <2>2. Append(<<>>, o) = <<o>>
    OBVIOUS
  <2> QED  BY <1>7, <2>1, <2>2
<1>12. IsInjective(g.levels[v].queue) /\ QueueOf(g, v) = {o}
  <2>1. IsInjective(<<o>>) /\ Range(<<o>>) = {o}
    BY DEF IsInjective, Range
  <2> QED  BY <1>11, <2>1 DEF QueueOf
<1>13. /\ list \in Seq(LevelSlots) /\ IsInjective(list)
       /\ v \notin Range(list) /\ Range(list) \subseteq LevelSlots
       /\ ListOf(h, l, s) = Range(list)
  <2>1. v \notin ListOf(h, l, s)
    BY <1>1 DEF HeapInv, ListsInv
  <2> QED  BY <1>1, <1>3, <2>1, PartsOf DEF HeapInv, ListsInv, ListOf
<1>14. /\ r \in Seq(LevelSlots) /\ Len(r) = Len(list) + 1 /\ IsInjective(r)
       /\ Range(r) = Range(list) \cup {v}
  BY <1>5, <1>13, InsertIs, InsertKeeps
<1>15. Opens(h, g, l, s, p, v, o)
  <2>1. g.freeLevels[v] = 0
    BY <1>1, <1>8, HeapParts
  <2>2. ListOf(g, l, s) = ListOf(h, l, s) \cup {v}
    BY <1>9, <1>13, <1>14 DEF ListOf
  <2> QED  BY <1>1, <1>3, <1>9, <1>10, <1>11, <1>12, <1>14, <2>1, <2>2 DEF Opens
<1>16. ListSorted(g, l, s)
  <2>1. PICK px : px = [w \in LevelSlots |-> g.levels[w].price]
    OBVIOUS
  <2>2. /\ px \in [LevelSlots -> Nat] /\ px[v] = p /\ p \in Nat
        /\ \A w \in LevelSlots : px[w] = g.levels[w].price
    BY <1>7, <1>11, <2>1, PartsOf, PricesAreNat
  <2>3. \A w \in Range(list) : px[w] = h.levels[w].price
    BY <1>6, <1>7, <1>13, <2>2
  <2>4. \A w \in Range(list) : w \in S <=> IF s = "Buy" THEN px[w] > p ELSE px[w] < p
    BY <1>4, <2>3 DEF Better
  <2>5. \A i, j \in DOMAIN list : i < j => Before(s, px[list[i]], px[list[j]])
    <3>1. \A i \in DOMAIN list : list[i] \in Range(list)
      BY DEF Range
    <3>2. \A i, j \in DOMAIN list :
            i < j => Before(s, h.levels[list[i]].price, h.levels[list[j]].price)
      BY <1>3, SMTT(90) DEF HeapInv, SortedInv, ListSorted
    <3> QED  BY <2>3, <3>1, <3>2
  <2>6. \A w \in Range(list) : px[w] = p => p = EmptyPrice
    <3> SUFFICES ASSUME NEW w \in Range(list), px[w] = p, p # EmptyPrice PROVE FALSE
      OBVIOUS
    <3>1. h.book[l].map[s][p] = w
      BY <1>13, <2>3 DEF HeapInv, MapsInv, MapFinds
    <3>2. h.book[l].map[s][p] = Null
      BY DEF FindLevel
    <3> QED  BY <1>13, <3>1, <3>2, NullIsNoSlot
  <2>7. \A i, j \in DOMAIN r : i < j => Before(s, px[r[i]], px[r[j]])
    BY <1>5, <1>13, <2>2, <2>4, <2>5, <2>6, InsertSorted
  <2>8. \A i \in DOMAIN r : px[r[i]] = g.levels[r[i]].price
    BY <1>14, <2>2, LenProperties, ElementOfSeq
  <2> QED  BY <1>9, <2>7, <2>8 DEF ListSorted
<1> QED  BY <1>1, <1>6, <1>7, <1>8, <1>15, <1>16, OpenKeeps

(* A level opens with nothing to count.                                    *)
LEMMA OpenTotals ==
    ASSUME NEW h \in Heaps, TotalsInv(h), NEW l \in Locates, NEW s \in Sides,
           NEW p \in Prices, NEW v \in LevelSlots, NEW g, g = OpenLevel(h, l, s, p, v)
    PROVE  g \in Heaps /\ TotalsInv(g) /\ g.orders = h.orders
<1>1. g \in Heaps /\ Opened(h, g, l, s, p, v)
  BY OpenLevelIs
<1>2. g.levels[v].total = 0 /\ g.levels[v].queue = <<>> /\ g.orders = h.orders
  BY <1>1 DEF Opened
<1>3. g.levels[v].total = SharesIn(g.orders, g.levels[v].queue)
  BY <1>2, SharesOfNone
<1>4. \A w \in LevelSlots : w # v => g.levels[w] = h.levels[w]
  BY <1>1 DEF Opened
<1> QED  BY <1>1, <1>2, <1>3, <1>4 DEF TotalsInv

(* push_back adds the order's shares to the total.                         *)
LEMMA PushBackTotals ==
    ASSUME NEW h \in Heaps, TotalsInv(h), NEW l \in Locates, NEW v \in LevelSlots,
           NEW o \in OrderSlots, NEW g, g = PushBack(h, l, v, o)
    PROVE  TotalsInv(g)
<1>1. /\ g.orders = h.orders
      /\ g.levels[v].queue = Append(h.levels[v].queue, o)
      /\ g.levels[v].total = h.levels[v].total + h.orders[o].shares
      /\ \A w \in LevelSlots : w # v => g.levels[w] = h.levels[w]
  BY PushBackIs
<1>2. PICK queue : queue = h.levels[v].queue
  OBVIOUS
<1>3. SharesIn(h.orders, Append(queue, o)) = SharesIn(h.orders, queue) + h.orders[o].shares
  <2>1. queue \in Seq(OrderSlots)
    BY <1>2, PartsOf
  <2> QED  BY <2>1, SharesOfHeap, SharesAppend
<1>4. g.levels[v].total = SharesIn(g.orders, g.levels[v].queue)
  BY <1>1, <1>2, <1>3 DEF TotalsInv
<1> QED  BY <1>1, <1>4 DEF TotalsInv

(* add_order links the order, or fails and leaves the heap as it was.      *)
LEMMA BookAddKeeps ==
    ASSUME NEW h, NEW D, HeapInv(h, D), NEW l \in Locates, NEW o \in OrderSlots, o \in D,
           h.orders[o].locate = l, NEW r \in BookAdd(h, l, o)
    PROVE  /\ r.rc \in {0, 1, 2}
           /\ r.rc = 0 => r.heap = h
           /\ r.rc # 0 => HeapInv(r.heap, D \ {o})
           /\ r.heap.orders = h.orders /\ r.heap.freeOrders = h.freeOrders
           /\ r.rc # 2 => r.heap.freeLevels = h.freeLevels
           /\ r.rc = 2 => \E v \in LevelSlots :
                 h.freeLevels[v] = 1 /\ r.heap.freeLevels = [h.freeLevels EXCEPT ![v] = 0]
           /\ TotalsInv(h) => TotalsInv(r.heap)
<1>1. PICK s : s = h.orders[o].side
  OBVIOUS
<1>2. PICK p : p = h.orders[o].price
  OBVIOUS
<1>3. PICK found : found = FindLevel(h, l, s, p)
  OBVIOUS
<1>4. h \in Heaps /\ s \in Sides /\ p \in Prices
  BY <1>1, <1>2, OrderParts DEF HeapInv
<1>5. CASE found # Null
  <2>1. r = [rc |-> 1, heap |-> PushBack(h, l, found, o)]
    BY <1>1, <1>2, <1>3, <1>5 DEF BookAdd
  <2>2. p # EmptyPrice /\ found = h.book[l].map[s][p]
    BY <1>3, <1>5 DEF FindLevel
  <2>3. found \in ListOf(h, l, s) /\ h.levels[found].price = p
    BY <1>4, <1>5, <2>2, SMTT(30) DEF HeapInv, MapsInv, MapFinds
  <2>4. HeapInv(r.heap, D \ {o})
    BY <1>1, <1>2, <1>4, <2>1, <2>3, PushBackKeeps
  <2>5. /\ r.heap.orders = h.orders /\ r.heap.freeOrders = h.freeOrders
        /\ r.heap.freeLevels = h.freeLevels
        /\ TotalsInv(h) => TotalsInv(r.heap)
    <3>1. found \in LevelSlots
      BY <1>4, <2>3, PartsOf
    <3> QED  BY <1>4, <2>1, <3>1, PushBackIs, PushBackTotals
  <2> QED  BY <2>1, <2>4, <2>5
<1>6. CASE found = Null
  <2>1. PICK v \in Acquirable(h.freeLevels) :
          r = IF v = Null THEN [rc |-> 0, heap |-> h]
              ELSE [rc |-> 2, heap |-> PushBack(OpenLevel(h, l, s, p, v), l, v, o)]
    BY <1>1, <1>2, <1>3, <1>6 DEF BookAdd
  <2>2. CASE v = Null
    BY <2>1, <2>2
  <2>3. CASE v # Null
    <3>1. v \in LevelSlots /\ h.freeLevels[v] > 0
      <4>1. DOMAIN h.freeLevels = LevelSlots
        BY <1>4, HeapParts
      <4> QED  BY <2>3, <4>1 DEF Acquirable
    <3>2. r.rc = 2 /\ r.heap = PushBack(OpenLevel(h, l, s, p, v), l, v, o)
      BY <2>1, <2>3
    <3>3. /\ HeapInv(r.heap, D \ {o})
          /\ r.heap.orders = h.orders /\ r.heap.freeOrders = h.freeOrders
          /\ h.freeLevels[v] = 1 /\ r.heap.freeLevels = [h.freeLevels EXCEPT ![v] = 0]
      <4>1. FindLevel(h, l, s, p) = Null /\ h.orders[o].side = s /\ h.orders[o].price = p
        BY <1>1, <1>2, <1>3, <1>6
      <4> QED  BY <1>4, <3>1, <3>2, <4>1, OpenPushKeeps, SMTT(30)
    <3>4. ASSUME TotalsInv(h) PROVE TotalsInv(r.heap)
      <4>1. PICK k : k = OpenLevel(h, l, s, p, v)
        OBVIOUS
      <4>2. k \in Heaps /\ TotalsInv(k)
        BY <1>4, <3>1, <3>4, <4>1, OpenTotals
      <4>3. r.heap = PushBack(k, l, v, o)
        BY <3>2, <4>1
      <4> QED  BY <3>1, <4>2, <4>3, PushBackTotals
    <3> QED  BY <3>1, <3>2, <3>3, <3>4
  <2> QED  BY <2>2, <2>3
<1> QED  BY <1>5, <1>6

-----------------------------------------------------------------------------
(* OrderBook::execute_order and remove_order.                              *)

(* CloseLevel, read off.                                                   *)
Closed(h, g, l, s, v) ==
    /\ g.orders = h.orders /\ g.freeOrders = h.freeOrders
    /\ g.freeLevels = [h.freeLevels EXCEPT ![v] = h.freeLevels[v] + 1]
    /\ g.levels[v] = BlankLevel
    /\ \A w \in LevelSlots : w # v => g.levels[w] = h.levels[w]
    /\ \A m \in Locates : m # l => g.book[m] = h.book[m]
    /\ g.book[l].list = [h.book[l].list EXCEPT ![s] = Unlink(h.book[l].list[s], v)]
    /\ g.book[l].map = [h.book[l].map EXCEPT ![s] =
          MapSet(h.book[l].map[s], h.levels[v].price, Null)]
    /\ g.book[l].nLevels = [h.book[l].nLevels EXCEPT ![s] = h.book[l].nLevels[s] - 1]
    /\ g.book[l].nOrders = h.book[l].nOrders

(* CloseLevel does that.                                                   *)
LEMMA CloseLevelIs ==
    ASSUME NEW h \in Heaps, NEW l \in Locates, NEW s \in Sides, NEW v \in LevelSlots,
           NEW g, g = CloseLevel(h, l, s, v)
    PROVE  g \in Heaps /\ Closed(h, g, l, s, v)
<1>1. g \in Heaps
  BY CloseLevelType
<1>2. PICK b : b = UnlinkLevel(h.book[l], s, h.levels[v].price, v)
  OBVIOUS
<1>3. PICK lv : lv = BlankLevel
  OBVIOUS
<1>4. h.book[l] \in BookRecords
  BY HeapParts
<1>5. /\ b.list = [h.book[l].list EXCEPT ![s] = Unlink(h.book[l].list[s], v)]
      /\ b.map = [h.book[l].map EXCEPT ![s] =
            MapSet(h.book[l].map[s], h.levels[v].price, Null)]
      /\ b.nLevels = [h.book[l].nLevels EXCEPT ![s] = h.book[l].nLevels[s] - 1]
      /\ b.nOrders = h.book[l].nOrders
  BY <1>2, <1>4 DEF UnlinkLevel, BookRecords
<1>6. /\ g.orders = h.orders /\ g.freeOrders = h.freeOrders
      /\ g.freeLevels = [h.freeLevels EXCEPT ![v] = h.freeLevels[v] + 1]
      /\ g.levels = [h.levels EXCEPT ![v] = lv]
      /\ g.book = [h.book EXCEPT ![l] = b]
  BY <1>2, <1>3 DEF CloseLevel, Heaps
<1>7. g.book[l] = b /\ \A m \in Locates : m # l => g.book[m] = h.book[m]
  BY <1>6, HeapParts
<1>8. g.levels[v] = lv /\ \A w \in LevelSlots : w # v => g.levels[w] = h.levels[w]
  BY <1>6, HeapParts
<1>9. /\ g.book[l].list = [h.book[l].list EXCEPT ![s] = Unlink(h.book[l].list[s], v)]
      /\ g.book[l].map = [h.book[l].map EXCEPT ![s] =
            MapSet(h.book[l].map[s], h.levels[v].price, Null)]
      /\ g.book[l].nLevels = [h.book[l].nLevels EXCEPT ![s] = h.book[l].nLevels[s] - 1]
      /\ g.book[l].nOrders = h.book[l].nOrders
  BY <1>5, <1>7
<1>10. g.levels[v] = BlankLevel
  BY <1>3, <1>8
<1> QED  BY <1>1, <1>6, <1>7, <1>8, <1>9, <1>10 DEF Closed

(* Order o was taken out of its queue, and its level, if empty, closed.    *)
Unlinked(h, D, r, o) ==
    /\ HeapInv(r.heap, D \cup {o})
    /\ r.heap.freeOrders = h.freeOrders
    /\ \A x \in OrderSlots : x # o => r.heap.orders[x] = h.orders[x]
    /\ r.rc = 1 => r.heap.freeLevels = h.freeLevels
    /\ r.rc = 2 => \E v \in LevelSlots :
          h.freeLevels[v] = 0 /\ r.heap.freeLevels = [h.freeLevels EXCEPT ![v] = 1]

(* Detach takes the order out of its queue and leaves a sound heap.        *)
LEMMA DetachKeeps ==
    ASSUME NEW h, NEW D, HeapInv(h, D), NEW l \in Locates, NEW s \in Sides,
           NEW v \in ListOf(h, l, s), NEW o \in QueueOf(h, v),
           NEW r, r = Detach(h, l, v, o)
    PROVE  r.rc \in {1, 2} /\ Unlinked(h, D, r, o) /\ r.heap.orders = h.orders
<1>1. h \in Heaps /\ v \in LevelSlots /\ o \in OrderSlots
  BY PartsOf DEF HeapInv
<1>2. h.orders[o].side = s /\ h.freeLevels[v] = 0
  BY <1>1 DEF HeapInv, HomesInv, ListsInv
<1>3. PICK queue : queue = h.levels[v].queue
  OBVIOUS
<1>4. queue \in Seq(OrderSlots) /\ IsInjective(queue) /\ o \in Range(queue)
  BY <1>1, <1>3, PartsOf DEF HeapInv, QueuesInv, QueueOf
<1>5. PICK rest : rest = Unlink(queue, o)
  OBVIOUS
<1>6. rest \in Seq(OrderSlots) /\ IsInjective(rest) /\ Range(rest) = Range(queue) \ {o}
  BY <1>4, <1>5, UnlinkKeeps
<1>7. PICK lv : lv = [h.levels[v] EXCEPT !.queue = rest]
  OBVIOUS
<1>8. lv \in LevelRecords /\ lv.queue = rest /\ lv.price = h.levels[v].price
  <2>1. h.levels[v] \in LevelRecords
    BY <1>1, HeapParts
  <2>2. PICK old : old = h.levels[v]
    OBVIOUS
  <2>3. lv = [old EXCEPT !.queue = rest] /\ old \in LevelRecords
    BY <1>7, <2>1, <2>2
  <2>4. lv \in LevelRecords /\ lv.queue = rest /\ lv.price = old.price
    BY <1>6, <2>3 DEF LevelRecords
  <2> QED  BY <2>2, <2>4
<1>9. PICK n : n = h.book[l].nOrders - 1
  OBVIOUS
<1>10. PICK left : left = WriteLevel(h, l, v, lv, n)
  OBVIOUS
<1>11. left \in Heaps
  <2>1. n \in Int
    BY <1>1, <1>9, PartsOf
  <2> QED  BY <1>1, <1>8, <1>10, <2>1, WriteLevelType
<1>12. /\ left.orders = h.orders /\ left.freeOrders = h.freeOrders
       /\ left.freeLevels = h.freeLevels
       /\ left.levels[v] = lv
       /\ \A w \in LevelSlots : w # v => left.levels[w] = h.levels[w]
       /\ \A m \in Locates : /\ left.book[m].list = h.book[m].list
                             /\ left.book[m].map = h.book[m].map
                             /\ left.book[m].nLevels = h.book[m].nLevels
       /\ left.book[l].nOrders = n
       /\ \A m \in Locates : m # l => left.book[m].nOrders = h.book[m].nOrders
  BY <1>1, <1>10, WriteLevelIs
<1>13. r = IF rest = <<>> THEN [rc |-> 2, heap |-> CloseLevel(left, l, s, v)]
           ELSE [rc |-> 1, heap |-> left]
  <2>1. left = [h EXCEPT !.levels[v].queue = rest, !.book[l].nOrders = @ - 1]
    BY <1>1, <1>7, <1>9, <1>10 DEF WriteLevel, Heaps
  <2> QED  BY <1>2, <1>3, <1>5, <2>1 DEF Detach
<1>14. CASE rest # <<>>
  <2>1. r.rc = 1 /\ r.heap = left
    BY <1>13, <1>14
  <2>2. Elsewhere(h, left, l, s, v)
    BY <1>12 DEF Elsewhere
  <2>3. /\ IsInjective(left.levels[v].queue)
        /\ QueueOf(left, v) = QueueOf(h, v) \ {o}
        /\ left.levels[v].queue # <<>>
        /\ left.levels[v].price = h.levels[v].price
    BY <1>3, <1>6, <1>8, <1>12, <1>14 DEF QueueOf
  <2>4. HeapInv(left, D \cup {o})
    BY <1>9, <1>11, <1>12, <2>2, <2>3, DequeueKeeps
  <2> QED  BY <1>12, <2>1, <2>4 DEF Unlinked
<1>15. CASE rest = <<>>
  <2>1. PICK g : g = CloseLevel(left, l, s, v)
    OBVIOUS
  <2>2. r.rc = 2 /\ r.heap = g
    BY <1>13, <1>15, <2>1
  <2>3. g \in Heaps /\ Closed(left, g, l, s, v)
    BY <1>1, <1>11, <2>1, CloseLevelIs
  <2>4. PICK list : list = h.book[l].list[s]
    OBVIOUS
  <2>5. PICK k : k = Unlink(list, v)
    OBVIOUS
  <2>6. /\ DOMAIN h.book[l].list = Sides /\ DOMAIN h.book[l].map = Sides
        /\ DOMAIN h.book[l].nLevels = Sides
    BY <1>1, HeapParts DEF BookRecords
  <2>7. /\ g.book[l].list[s] = k
        /\ g.book[l].map[s] = MapSet(h.book[l].map[s], h.levels[v].price, Null)
        /\ g.book[l].nLevels[s] = h.book[l].nLevels[s] - 1
        /\ g.book[l].nOrders = h.book[l].nOrders - 1
        /\ \A t \in Sides : t # s =>
              /\ g.book[l].list[t] = h.book[l].list[t]
              /\ g.book[l].map[t] = h.book[l].map[t]
              /\ g.book[l].nLevels[t] = h.book[l].nLevels[t]
    <3>1. /\ g.book[l].list = [h.book[l].list EXCEPT ![s] = k]
          /\ g.book[l].map = [h.book[l].map EXCEPT ![s] =
                MapSet(h.book[l].map[s], h.levels[v].price, Null)]
          /\ g.book[l].nLevels = [h.book[l].nLevels EXCEPT ![s] = h.book[l].nLevels[s] - 1]
          /\ g.book[l].nOrders = h.book[l].nOrders - 1
      BY <1>8, <1>9, <1>12, <2>3, <2>4, <2>5 DEF Closed
    <3> QED  BY <2>6, <3>1
  <2>8. /\ g.orders = h.orders /\ g.freeOrders = h.freeOrders
        /\ g.freeLevels = [h.freeLevels EXCEPT ![v] = 1]
    <3>1. g.freeLevels = [h.freeLevels EXCEPT ![v] = h.freeLevels[v] + 1]
      BY <1>12, <2>3 DEF Closed
    <3>2. h.freeLevels[v] + 1 = 1
      BY <1>2
    <3>3. g.orders = h.orders /\ g.freeOrders = h.freeOrders
      BY <1>12, <2>3 DEF Closed
    <3> QED  BY <3>1, <3>2, <3>3
  <2>9. Elsewhere(h, g, l, s, v)
    <3>1. \A w \in LevelSlots : w # v => g.levels[w] = h.levels[w]
      BY <1>12, <2>3 DEF Closed
    <3>2. \A w \in LevelSlots : w # v => g.freeLevels[w] = h.freeLevels[w]
      BY <1>1, <2>8, HeapParts
    <3>3. \A m \in Locates : m # l => g.book[m] = left.book[m]
      BY <2>3 DEF Closed
    <3>4. \A m \in Locates, t \in Sides : m # l \/ t # s =>
            /\ g.book[m].list[t] = h.book[m].list[t]
            /\ g.book[m].map[t] = h.book[m].map[t]
            /\ g.book[m].nLevels[t] = h.book[m].nLevels[t]
      BY <1>12, <2>7, <3>3
    <3>5. \A m \in Locates : m # l => g.book[m].nOrders = h.book[m].nOrders
      BY <1>12, <3>3
    <3> QED  BY <2>8, <3>1, <3>2, <3>4, <3>5 DEF Elsewhere
  <2>10. /\ list \in Seq(LevelSlots) /\ IsInjective(list) /\ v \in Range(list)
         /\ ListOf(h, l, s) = Range(list)
    BY <1>1, <2>4, PartsOf DEF HeapInv, ListsInv, ListOf
  <2>11. /\ k \in Seq(LevelSlots) /\ Len(k) = Len(list) - 1 /\ IsInjective(k)
         /\ Range(k) = Range(list) \ {v}
         /\ \A i, j \in DOMAIN k : i < j =>
               \E a, b \in DOMAIN list : a < b /\ k[i] = list[a] /\ k[j] = list[b]
    BY <2>5, <2>10, UnlinkKeeps
  <2>12. Closes(h, g, l, s, v, o)
    <3>1. QueueOf(h, v) = {o}
      <4>1. Range(rest) = {}
        BY <1>6, <1>15, NonemptyRange
      <4> QED  BY <1>3, <1>4, <1>6, <4>1 DEF QueueOf
    <3>2. g.freeLevels[v] = 1
      BY <1>1, <2>8, HeapParts
    <3>3. g.levels[v].queue = <<>>
      BY <2>3 DEF Closed, BlankLevel
    <3>4. ListOf(g, l, s) = ListOf(h, l, s) \ {v}
      BY <2>7, <2>10, <2>11 DEF ListOf
    <3>5. IsInjective(g.book[l].list[s]) /\ Len(g.book[l].list[s]) = Len(h.book[l].list[s]) - 1
      BY <2>4, <2>7, <2>11
    <3> QED  BY <2>7, <2>9, <3>1, <3>2, <3>3, <3>4, <3>5 DEF Closes
  <2>13. ListSorted(g, l, s)
    <3>1. \A i, j \in DOMAIN list :
            i < j => Before(s, h.levels[list[i]].price, h.levels[list[j]].price)
      BY <2>4 DEF HeapInv, SortedInv, ListSorted
    <3>2. \A i \in DOMAIN k : g.levels[k[i]] = h.levels[k[i]]
      <4>1. \A i \in DOMAIN k : k[i] \in Range(k)
        BY DEF Range
      <4>2. Range(list) \subseteq LevelSlots
        BY <1>1, <2>10, PartsOf
      <4> QED  BY <2>9, <2>11, <4>1, <4>2 DEF Elsewhere
    <3>3. ASSUME NEW i \in DOMAIN k, NEW j \in DOMAIN k, i < j
          PROVE  Before(s, g.levels[k[i]].price, g.levels[k[j]].price)
      <4>1. PICK a, b \in DOMAIN list : a < b /\ k[i] = list[a] /\ k[j] = list[b]
        BY <2>11, <3>3
      <4> QED  BY <3>1, <3>2, <4>1
    <3> QED  BY <2>7, <3>3 DEF ListSorted
  <2>14. HeapInv(g, D \cup {o})
    BY <2>3, <2>12, <2>13, CloseKeeps
  <2> QED  BY <1>1, <1>2, <2>2, <2>8, <2>14 DEF Unlinked
<1> QED  BY <1>14, <1>15

(* The totals are right but for level v, which lost order o beforehand.    *)
TotalsWithout(h, v, o) ==
    /\ \A w \in LevelSlots : w # v =>
          h.levels[w].total = SharesIn(h.orders, h.levels[w].queue)
    /\ h.levels[v].total = SharesIn(h.orders, Unlink(h.levels[v].queue, o))

(* Detach makes them right.                                                *)
LEMMA DetachTotals ==
    ASSUME NEW h \in Heaps, NEW l \in Locates, NEW v \in LevelSlots, NEW o \in OrderSlots,
           o \in QueueOf(h, v), TotalsWithout(h, v, o), NEW r, r = Detach(h, l, v, o)
    PROVE  TotalsInv(r.heap)
<1>1. PICK rest : rest = Unlink(h.levels[v].queue, o)
  OBVIOUS
<1>2. PICK s : s = h.orders[o].side
  OBVIOUS
<1>3. rest \in Seq(OrderSlots) /\ s \in Sides
  BY <1>1, <1>2, PartsOf, OrderParts, UnlinkIs DEF QueueOf
<1>4. PICK lv : lv = [h.levels[v] EXCEPT !.queue = rest]
  OBVIOUS
<1>5. lv \in LevelRecords /\ lv.queue = rest /\ lv.total = h.levels[v].total
  <2>1. PICK old : old = h.levels[v]
    OBVIOUS
  <2>2. lv = [old EXCEPT !.queue = rest] /\ old \in LevelRecords
    BY <1>4, <2>1, HeapParts
  <2>3. lv \in LevelRecords /\ lv.queue = rest /\ lv.total = old.total
    BY <1>3, <2>2 DEF LevelRecords
  <2> QED  BY <2>1, <2>3
<1>6. PICK n : n = h.book[l].nOrders - 1
  OBVIOUS
<1>7. PICK left : left = WriteLevel(h, l, v, lv, n)
  OBVIOUS
<1>8. left \in Heaps
  <2>1. n \in Int
    BY <1>6, PartsOf
  <2> QED  BY <1>5, <1>7, <2>1, WriteLevelType
<1>9. /\ left.orders = h.orders /\ left.levels[v] = lv
      /\ \A w \in LevelSlots : w # v => left.levels[w] = h.levels[w]
  BY <1>7, WriteLevelIs
<1>10. r = IF rest = <<>> THEN [rc |-> 2, heap |-> CloseLevel(left, l, s, v)]
           ELSE [rc |-> 1, heap |-> left]
  <2>1. left = [h EXCEPT !.levels[v].queue = rest, !.book[l].nOrders = @ - 1]
    BY <1>4, <1>6, <1>7 DEF WriteLevel, Heaps
  <2> QED  BY <1>1, <1>2, <2>1 DEF Detach
<1>11. CASE rest # <<>>
  <2>1. r.heap = left
    BY <1>10, <1>11
  <2> QED  BY <1>1, <1>5, <1>9, <2>1 DEF TotalsInv, TotalsWithout
<1>12. CASE rest = <<>>
  <2>1. PICK g : g = CloseLevel(left, l, s, v)
    OBVIOUS
  <2>2. r.heap = g
    BY <1>10, <1>12, <2>1
  <2>3. Closed(left, g, l, s, v)
    BY <1>3, <1>8, <2>1, CloseLevelIs
  <2>4. /\ g.orders = h.orders /\ g.levels[v].total = 0 /\ g.levels[v].queue = <<>>
        /\ \A w \in LevelSlots : w # v => g.levels[w] = h.levels[w]
    BY <1>9, <2>3 DEF Closed, BlankLevel
  <2>5. g.levels[v].total = SharesIn(g.orders, g.levels[v].queue)
    BY <2>4, SharesOfNone
  <2> QED  BY <2>2, <2>4, <2>5 DEF TotalsInv, TotalsWithout
<1> QED  BY <1>11, <1>12

(* Order o was unlinked, and the totals follow.                            *)
Removed(h, D, r, o) ==
    /\ Unlinked(h, D, r, o)
    /\ TotalsInv(h) => TotalsInv(r.heap)

(* A level the map finds for a resting order holds that order.             *)
LEMMA FoundHolds ==
    ASSUME NEW h, NEW D, HeapInv(h, D), NEW o \in OrderSlots, h.freeOrders[o] = 0,
           o \notin D, NEW l, l = h.orders[o].locate, NEW s, s = h.orders[o].side,
           NEW v, v = FindLevel(h, l, s, h.orders[o].price), v # Null
    PROVE  l \in Locates /\ s \in Sides /\ v \in ListOf(h, l, s) /\ o \in QueueOf(h, v)
<1>1. h \in Heaps
  BY DEF HeapInv
<1>2. l \in Locates /\ s \in Sides /\ h.orders[o].price \in Prices
  BY <1>1, OrderParts
<1>3. PICK w \in LevelSlots : o \in QueueOf(h, w)
  BY DEF HeapInv, QueuesInv
<1>4. h.levels[w].queue # <<>>
  BY <1>1, <1>3, PartsOf, NonemptyRange DEF QueueOf
<1>5. PICK m \in Locates, t \in Sides : w \in ListOf(h, m, t)
  BY <1>4 DEF HeapInv, ListsInv
<1>6. m = l /\ t = s /\ h.levels[w].price = h.orders[o].price
  BY <1>3, <1>5 DEF HeapInv, HomesInv
<1>7. h.orders[o].price # EmptyPrice /\ v = h.book[l].map[s][h.orders[o].price]
  BY DEF FindLevel
<1>8. h.book[l].map[s][h.levels[w].price] = w
  <2>1. MapFinds(h, l, s)
    BY <1>2 DEF HeapInv, MapsInv
  <2>2. w \in ListOf(h, l, s) /\ h.levels[w].price # EmptyPrice
    BY <1>5, <1>6, <1>7
  <2> QED  BY <2>1, <2>2 DEF MapFinds
<1> QED  BY <1>2, <1>3, <1>5, <1>6, <1>7, <1>8

(* remove_order takes the order out, or finds no level and does nothing.   *)
LEMMA BookRemoveKeeps ==
    ASSUME NEW h, NEW D, HeapInv(h, D), NEW o \in OrderSlots, h.freeOrders[o] = 0,
           o \notin D, NEW l, l = h.orders[o].locate, NEW r, r = BookRemove(h, l, o)
    PROVE  /\ r.rc \in {0, 1, 2}
           /\ r.rc = 0 => r.heap = h
           /\ r.rc # 0 => Removed(h, D, r, o)
           /\ r.heap.orders = h.orders
<1>1. h \in Heaps
  BY DEF HeapInv
<1>2. PICK s : s = h.orders[o].side
  OBVIOUS
<1>3. PICK v : v = FindLevel(h, l, s, h.orders[o].price)
  OBVIOUS
<1>4. CASE v = Null
  <2>1. r = [rc |-> 0, heap |-> h]
    BY <1>2, <1>3, <1>4 DEF BookRemove
  <2> QED  BY <2>1
<1>5. CASE v # Null
  <2>1. l \in Locates /\ s \in Sides /\ v \in ListOf(h, l, s) /\ o \in QueueOf(h, v)
    BY <1>2, <1>3, <1>5, FoundHolds
  <2>2. v \in LevelSlots
    BY <1>1, <2>1, PartsOf
  <2>3. PICK k : k = [h EXCEPT !.levels[v].total = @ - h.orders[o].shares]
    OBVIOUS
  <2>4. r = Detach(k, l, v, o)
    BY <1>2, <1>3, <1>5, <2>3 DEF BookRemove
  <2>5. PICK lv : lv = [h.levels[v] EXCEPT !.total = h.levels[v].total - h.orders[o].shares]
    OBVIOUS
  <2>6. /\ lv \in LevelRecords
        /\ lv.queue = h.levels[v].queue /\ lv.price = h.levels[v].price
    <3>1. h.levels[v] \in LevelRecords /\ h.orders[o].shares \in Nat
      BY <1>1, <2>2, HeapParts, OrderParts
    <3> QED  BY <2>5, <3>1 DEF LevelRecords
  <2>7. k = [h EXCEPT !.levels = [h.levels EXCEPT ![v] = lv]]
    BY <1>1, <2>3, <2>5 DEF Heaps
  <2>8. /\ k.orders = h.orders /\ k.freeOrders = h.freeOrders
        /\ k.freeLevels = h.freeLevels /\ k.book = h.book
        /\ k.levels = [h.levels EXCEPT ![v] = lv]
    BY <1>1, <2>7 DEF Heaps
  <2>9. k \in Heaps
    <3>1. [h.levels EXCEPT ![v] = lv] \in [LevelSlots -> LevelRecords]
      BY <1>1, <2>6, HeapParts
    <3> QED  BY <1>1, <2>7, <3>1 DEF Heaps
  <2>10. \A w \in LevelSlots : /\ k.levels[w].queue = h.levels[w].queue
                               /\ k.levels[w].price = h.levels[w].price
    BY <1>1, <2>6, <2>8, HeapParts
  <2>11. HeapInv(k, D)
    BY <2>8, <2>9, <2>10, SameShape
  <2>12. v \in ListOf(k, l, s) /\ o \in QueueOf(k, v)
    BY <2>1, <2>2, <2>8, <2>10 DEF ListOf, QueueOf
  <2>13. r.rc \in {1, 2} /\ Unlinked(k, D, r, o) /\ r.heap.orders = k.orders
    BY <2>1, <2>4, <2>11, <2>12, DetachKeeps
  <2>14. Unlinked(h, D, r, o)
    BY <2>2, <2>8, <2>13 DEF Unlinked
  <2>15. ASSUME TotalsInv(h) PROVE TotalsInv(r.heap)
    <3>1. PICK queue : queue = h.levels[v].queue
      OBVIOUS
    <3>2. queue \in Seq(OrderSlots) /\ o \in Range(queue)
      BY <1>1, <2>1, <2>2, <3>1, PartsOf DEF QueueOf
    <3>3. /\ SharesIn(h.orders, Unlink(queue, o)) \in Nat
          /\ SharesIn(h.orders, queue) =
                SharesIn(h.orders, Unlink(queue, o)) + h.orders[o].shares
      BY <1>1, <3>2, SharesOfHeap, SharesUnlink
    <3>4. h.orders[o].shares \in Nat
      BY <1>1, OrderParts
    <3>5. k.levels[v].queue = queue /\ k.levels[v].total = h.levels[v].total - h.orders[o].shares
      <4>1. k.levels[v] = lv
        BY <1>1, <2>2, <2>8, HeapParts
      <4>2. lv.total = h.levels[v].total - h.orders[o].shares
        BY <1>1, <2>2, <2>5, HeapParts DEF LevelRecords
      <4> QED  BY <2>6, <3>1, <4>1, <4>2
    <3>6. k.levels[v].total = SharesIn(k.orders, Unlink(k.levels[v].queue, o))
      BY <2>2, <2>8, <2>15, <3>1, <3>3, <3>4, <3>5 DEF TotalsInv
    <3>7. \A w \in LevelSlots : w # v => k.levels[w] = h.levels[w]
      BY <1>1, <2>8, HeapParts
    <3>8. TotalsWithout(k, v, o)
      BY <2>8, <2>15, <3>6, <3>7 DEF TotalsInv, TotalsWithout
    <3> QED  BY <2>1, <2>2, <2>4, <2>9, <2>12, <3>8, DetachTotals
  <2>16. Removed(h, D, r, o)
    BY <2>14, <2>15 DEF Removed
  <2> QED  BY <2>8, <2>13, <2>16
<1> QED  BY <1>4, <1>5

(* Order o was cut by q shares and has some left.                          *)
Reduced(h, D, r, o, q) ==
    /\ HeapInv(r.heap, D)
    /\ r.heap.freeOrders = h.freeOrders /\ r.heap.freeLevels = h.freeLevels
    /\ \A x \in OrderSlots : x # o => r.heap.orders[x] = h.orders[x]
    /\ q < h.orders[o].shares
    /\ r.heap.orders[o] = [h.orders[o] EXCEPT !.shares = h.orders[o].shares - q]
    /\ TotalsInv(h) => TotalsInv(r.heap)

(* Fills takes the same shares from order o and from the total of level v.  *)
Fills(h, k, v, o, n) ==
    /\ \A w \in LevelSlots : k.levels[w].queue = h.levels[w].queue
    /\ \A w \in LevelSlots : w # v => k.levels[w].total = h.levels[w].total
    /\ k.levels[v].total = h.levels[v].total - n
    /\ \A x \in OrderSlots : x # o => k.orders[x] = h.orders[x]
    /\ k.orders[o].shares = h.orders[o].shares - n

(* A fill keeps the totals, and one that leaves nothing lets the order go. *)
LEMMA FillTotals ==
    ASSUME NEW h, NEW D, HeapInv(h, D), TotalsInv(h), NEW k \in Heaps,
           NEW v \in LevelSlots, NEW o \in QueueOf(h, v), NEW n \in Nat, Fills(h, k, v, o, n)
    PROVE  TotalsInv(k) /\ (k.orders[o].shares = 0 => TotalsWithout(k, v, o))
<1>1. h \in Heaps /\ o \in OrderSlots
  BY PartsOf DEF HeapInv
<1>2. PICK queue : queue = h.levels[v].queue
  OBVIOUS
<1>3. /\ queue \in Seq(OrderSlots) /\ IsInjective(queue) /\ o \in Range(queue)
      /\ k.levels[v].queue = queue
  BY <1>1, <1>2, PartsOf DEF HeapInv, QueuesInv, QueueOf, Fills
<1>4. Shares(h.orders, OrderSlots) /\ Shares(k.orders, OrderSlots)
  BY <1>1, SharesOfHeap
<1>5. ASSUME NEW w \in LevelSlots, w # v
      PROVE  k.levels[w].total = SharesIn(k.orders, k.levels[w].queue)
  <2>1. QueueOf(h, w) \subseteq OrderSlots /\ o \notin QueueOf(h, w)
    BY <1>1, <1>5, PartsOf DEF HeapInv, QueuesInv
  <2>2. \A x \in Range(h.levels[w].queue) : k.orders[x].shares = h.orders[x].shares
    BY <2>1 DEF QueueOf, Fills
  <2>3. SharesIn(k.orders, h.levels[w].queue) = SharesIn(h.orders, h.levels[w].queue)
    BY <2>2, SharesSame
  <2> QED  BY <1>5, <2>3 DEF TotalsInv, Fills
<1>6. h.orders[o].shares \in Nat /\ k.orders[o].shares \in Nat
  BY <1>1, <1>4 DEF Shares
<1>7. k.levels[v].total = SharesIn(k.orders, queue)
  <2>1. SharesIn(h.orders, queue) - h.orders[o].shares =
          SharesIn(k.orders, queue) - k.orders[o].shares
    <3>1. \A x \in OrderSlots : x # o => k.orders[x].shares = h.orders[x].shares
      BY DEF Fills
    <3> QED  BY <1>3, <1>4, <3>1, SharesFill
  <2>2. /\ SharesIn(h.orders, queue) \in Int /\ SharesIn(k.orders, queue) \in Int
    BY <1>3, <1>4, <1>6, SharesUnlink
  <2>3. h.levels[v].total = SharesIn(h.orders, queue)
    BY <1>2 DEF TotalsInv
  <2>4. k.levels[v].total = h.levels[v].total - n /\ k.orders[o].shares = h.orders[o].shares - n
    BY DEF Fills
  <2> QED  BY <1>6, <2>1, <2>2, <2>3, <2>4
<1>8. ASSUME k.orders[o].shares = 0 PROVE TotalsWithout(k, v, o)
  <2>1. /\ SharesIn(k.orders, Unlink(queue, o)) \in Nat
        /\ SharesIn(k.orders, queue) = SharesIn(k.orders, Unlink(queue, o)) + k.orders[o].shares
    BY <1>3, <1>4, SharesUnlink
  <2>2. k.levels[v].total = SharesIn(k.orders, Unlink(queue, o))
    BY <1>7, <1>8, <2>1
  <2> QED  BY <1>3, <1>5, <2>2 DEF TotalsWithout
<1> QED  BY <1>3, <1>5, <1>7, <1>8 DEF TotalsInv

(* execute_order and cancel_order cut the order's shares, or take it out.  *)
LEMMA BookExecuteKeeps ==
    ASSUME NEW h, NEW D, HeapInv(h, D), NEW o \in OrderSlots, h.freeOrders[o] = 0,
           o \notin D, NEW l, l = h.orders[o].locate, NEW q \in Quantities,
           NEW r, r = BookExecute(h, l, o, q)
    PROVE  /\ r.rc \in {-1, 0, 1, 2}
           /\ r.rc = -1 => r.heap = h
           /\ r.rc = 0 => Reduced(h, D, r, o, q)
           /\ r.rc > 0 => Removed(h, D, r, o)
<1>1. h \in Heaps
  BY DEF HeapInv
<1>2. PICK ord : ord = h.orders[o]
  OBVIOUS
<1>3. PICK s : s = ord.side
  OBVIOUS
<1>4. PICK v : v = FindLevel(h, l, s, ord.price)
  OBVIOUS
<1>5. ord \in OrderRecords /\ ord.shares \in Nat /\ q \in Nat
  BY <1>1, <1>2, HeapParts, OrderParts, QuantitiesAreNat
<1>6. CASE v = Null
  <2>1. r = [rc |-> -1, heap |-> h]
    BY <1>2, <1>3, <1>4, <1>6 DEF BookExecute
  <2> QED  BY <2>1
<1>7. CASE v # Null
  <2>1. l \in Locates /\ s \in Sides /\ v \in ListOf(h, l, s) /\ o \in QueueOf(h, v)
    BY <1>2, <1>3, <1>4, <1>7, FoundHolds
  <2>2. v \in LevelSlots
    BY <1>1, <2>1, PartsOf
  <2>3. PICK filled : filled = IF q >= ord.shares THEN ord.shares ELSE q
    OBVIOUS
  <2>4. filled \in Nat /\ ord.shares - filled \in Nat /\ (q < ord.shares => filled = q)
    BY <1>5, <2>3
  <2>5. PICK k : k = [h EXCEPT !.levels[v].total = @ - filled, !.orders[o].shares = @ - filled]
    OBVIOUS
  <2>6. r = IF q < ord.shares THEN [rc |-> 0, heap |-> k] ELSE Detach(k, l, v, o)
    <3>1. BookExecute(h, l, o, q) =
            CASE v = Null -> [rc |-> -1, heap |-> h]
              [] v # Null /\ q < ord.shares -> [rc |-> 0, heap |-> k]
              [] v # Null /\ q >= ord.shares -> Detach(k, l, v, o)
      BY <1>2, <1>3, <1>4, <2>3, <2>5 DEF BookExecute
    <3> QED  BY <1>5, <1>7, <3>1
  <2>7. PICK lv : lv = [h.levels[v] EXCEPT !.total = h.levels[v].total - filled]
    OBVIOUS
  <2>8. /\ lv \in LevelRecords
        /\ lv.queue = h.levels[v].queue /\ lv.price = h.levels[v].price
    <3>1. h.levels[v] \in LevelRecords
      BY <1>1, <2>2, HeapParts
    <3> QED  BY <2>4, <2>7, <3>1 DEF LevelRecords
  <2>9. PICK new : new = [ord EXCEPT !.shares = ord.shares - filled]
    OBVIOUS
  <2>10. /\ new \in OrderRecords
         /\ new.id = ord.id /\ new.locate = ord.locate
         /\ new.side = ord.side /\ new.price = ord.price
    BY <1>5, <2>4, <2>9 DEF OrderRecords
  <2>11. k = [h EXCEPT !.levels = [h.levels EXCEPT ![v] = lv],
                       !.orders = [h.orders EXCEPT ![o] = new]]
    BY <1>1, <1>2, <2>5, <2>7, <2>9 DEF Heaps
  <2>12. /\ k.orders = [h.orders EXCEPT ![o] = new] /\ k.freeOrders = h.freeOrders
         /\ k.freeLevels = h.freeLevels /\ k.book = h.book
         /\ k.levels = [h.levels EXCEPT ![v] = lv]
    BY <1>1, <2>11 DEF Heaps
  <2>13. k \in Heaps
    <3>1. [h.levels EXCEPT ![v] = lv] \in [LevelSlots -> LevelRecords]
      BY <1>1, <2>8, HeapParts
    <3>2. [h.orders EXCEPT ![o] = new] \in [OrderSlots -> OrderRecords]
      BY <1>1, <2>10, HeapParts
    <3> QED  BY <1>1, <2>11, <3>1, <3>2 DEF Heaps
  <2>14. \A w \in LevelSlots : /\ k.levels[w].queue = h.levels[w].queue
                               /\ k.levels[w].price = h.levels[w].price
    BY <1>1, <2>8, <2>12, HeapParts
  <2>15. k.orders[o] = new /\ \A x \in OrderSlots : x # o => k.orders[x] = h.orders[x]
    BY <1>1, <2>12, HeapParts
  <2>16. \A x \in OrderSlots : /\ k.orders[x].id = h.orders[x].id
                               /\ k.orders[x].locate = h.orders[x].locate
                               /\ k.orders[x].side = h.orders[x].side
                               /\ k.orders[x].price = h.orders[x].price
    BY <1>2, <2>10, <2>15
  <2>17. HeapInv(k, D)
    BY <2>12, <2>13, <2>14, <2>16, SameShape
  <2>18. ASSUME TotalsInv(h)
         PROVE  TotalsInv(k) /\ (k.orders[o].shares = 0 => TotalsWithout(k, v, o))
    <3>1. k.levels[v] = lv /\ \A w \in LevelSlots : w # v => k.levels[w] = h.levels[w]
      BY <1>1, <2>2, <2>12, HeapParts
    <3>2. lv.total = h.levels[v].total - filled
      BY <1>1, <2>2, <2>7, HeapParts DEF LevelRecords
    <3>3. new.shares = ord.shares - filled
      BY <1>5, <2>9 DEF OrderRecords
    <3>4. Fills(h, k, v, o, filled)
      BY <1>2, <2>14, <2>15, <3>1, <3>2, <3>3 DEF Fills
    <3> QED  BY <2>1, <2>2, <2>4, <2>13, <2>18, <3>4, FillTotals
  <2>19. CASE q < ord.shares
    <3>1. r.rc = 0 /\ r.heap = k
      BY <2>6, <2>19
    <3>2. k.orders[o] = [h.orders[o] EXCEPT !.shares = h.orders[o].shares - q]
      BY <1>2, <2>4, <2>9, <2>15, <2>19
    <3>3. Reduced(h, D, r, o, q)
      BY <1>2, <2>12, <2>15, <2>17, <2>18, <2>19, <3>1, <3>2 DEF Reduced
    <3> QED  BY <3>1, <3>3
  <2>20. CASE ~(q < ord.shares)
    <3>1. r = Detach(k, l, v, o)
      BY <2>6, <2>20
    <3>2. v \in ListOf(k, l, s) /\ o \in QueueOf(k, v)
      BY <2>1, <2>2, <2>12, <2>14 DEF ListOf, QueueOf
    <3>3. r.rc \in {1, 2} /\ Unlinked(k, D, r, o) /\ r.heap.orders = k.orders
      BY <2>1, <2>17, <3>1, <3>2, DetachKeeps
    <3>4. Unlinked(h, D, r, o)
      BY <2>2, <2>12, <2>15, <3>3 DEF Unlinked
    <3>5. ASSUME TotalsInv(h) PROVE TotalsInv(r.heap)
      <4>1. filled = ord.shares
        BY <1>5, <2>3, <2>20
      <4>2. new.shares = 0
        BY <1>5, <2>9, <4>1 DEF OrderRecords
      <4>3. TotalsWithout(k, v, o)
        BY <2>15, <2>18, <3>5, <4>2
      <4> QED  BY <2>1, <2>2, <2>13, <3>1, <3>2, <4>3, DetachTotals
    <3>6. Removed(h, D, r, o)
      BY <3>4, <3>5 DEF Removed
    <3> QED  BY <3>3, <3>6
  <2> QED  BY <2>19, <2>20
<1> QED  BY <1>6, <1>7

-----------------------------------------------------------------------------
(* The closing cross.                                                      *)

(* The orders for_each_order visits are those with the book's locate.      *)
LEMMA OrdersOfIs ==
    ASSUME NEW h, HeapInv(h, {}), NEW l \in Locates
    PROVE  /\ OrdersOf(h, l) = Rests(h, {}, l)
           /\ LevelsOf(h, l) \subseteq LevelSlots
           /\ \A v \in LevelsOf(h, l) : QueueOf(h, v) \subseteq OrdersOf(h, l)
<1>1. h \in Heaps
  BY DEF HeapInv
<1>2. LevelsOf(h, l) = ListOf(h, l, "Buy") \cup ListOf(h, l, "Sell")
  BY DEF LevelsOf, ListOf
<1>3. LevelsOf(h, l) \subseteq LevelSlots
  BY <1>1, <1>2, PartsOf DEF Sides
<1>4. ASSUME NEW o \in OrdersOf(h, l) PROVE o \in Rests(h, {}, l)
  <2>1. PICK v \in LevelsOf(h, l) : o \in QueueOf(h, v)
    BY DEF OrdersOf, QueueOf
  <2>2. PICK s \in Sides : v \in ListOf(h, l, s)
    BY <1>2 DEF Sides
  <2>3. o \in OrderSlots /\ v \in LevelSlots
    BY <1>1, <1>3, <2>1, PartsOf
  <2>4. h.orders[o].locate = l
    BY <2>1, <2>2 DEF HeapInv, HomesInv
  <2>5. h.freeOrders[o] = 0
    BY <2>1, <2>3 DEF HeapInv, QueuesInv
  <2> QED  BY <2>3, <2>4, <2>5 DEF Rests
<1>5. ASSUME NEW o \in Rests(h, {}, l) PROVE o \in OrdersOf(h, l)
  <2>1. o \in OrderSlots /\ h.freeOrders[o] = 0 /\ h.orders[o].locate = l
    BY DEF Rests
  <2>2. PICK w \in LevelSlots : o \in QueueOf(h, w)
    BY <2>1 DEF HeapInv, QueuesInv
  <2>3. h.levels[w].queue # <<>>
    BY <1>1, <2>2, PartsOf, NonemptyRange DEF QueueOf
  <2>4. PICK m \in Locates, t \in Sides : w \in ListOf(h, m, t)
    BY <2>3 DEF HeapInv, ListsInv
  <2>5. m = l
    BY <2>1, <2>2, <2>4 DEF HeapInv, HomesInv
  <2>6. w \in LevelsOf(h, l)
    BY <1>2, <2>4, <2>5 DEF Sides
  <2> QED  BY <2>2, <2>6 DEF OrdersOf, QueueOf
<1>6. \A v \in LevelsOf(h, l) : QueueOf(h, v) \subseteq OrdersOf(h, l)
  BY DEF OrdersOf, QueueOf
<1> QED  BY <1>3, <1>4, <1>5, <1>6

(* Heap g is heap h with book l cleared, its orders and levels released.   *)
Cleared(h, g, l) ==
    /\ \A o \in Rests(h, {}, l) : g.orders[o] = BlankOrder /\ g.freeOrders[o] = 1
    /\ \A o \in OrderSlots \ Rests(h, {}, l) :
          g.orders[o] = h.orders[o] /\ g.freeOrders[o] = h.freeOrders[o]
    /\ \A v \in LevelsOf(h, l) : g.levels[v] = BlankLevel /\ g.freeLevels[v] = 1
    /\ \A v \in LevelSlots \ LevelsOf(h, l) :
          g.levels[v] = h.levels[v] /\ g.freeLevels[v] = h.freeLevels[v]
    /\ g.book[l] = EmptyBook
    /\ \A m \in Locates : m # l => g.book[m] = h.book[m]

(* Clearing one book leaves the others and the pools in order.             *)
LEMMA ClearKeeps ==
    ASSUME NEW h, HeapInv(h, {}), NEW l \in Locates, NEW g \in Heaps, Cleared(h, g, l)
    PROVE  HeapInv(g, {})
<1>1. h \in Heaps
  BY DEF HeapInv
<1>2. PICK G : G = Rests(h, {}, l)
  OBVIOUS
<1>3. PICK V : V = LevelsOf(h, l)
  OBVIOUS
<1>4. /\ V \subseteq LevelSlots /\ G = OrdersOf(h, l)
      /\ \A v \in V : QueueOf(h, v) \subseteq G
      /\ V = ListOf(h, l, "Buy") \cup ListOf(h, l, "Sell")
  <2>1. LevelsOf(h, l) = ListOf(h, l, "Buy") \cup ListOf(h, l, "Sell")
    BY DEF LevelsOf, ListOf
  <2>2. /\ OrdersOf(h, l) = Rests(h, {}, l)
        /\ LevelsOf(h, l) \subseteq LevelSlots
        /\ \A v \in LevelsOf(h, l) : QueueOf(h, v) \subseteq OrdersOf(h, l)
    BY OrdersOfIs
  <2> QED  BY <1>2, <1>3, <2>1, <2>2
<1>5. /\ \A o \in G : g.orders[o].id = Null /\ g.freeOrders[o] = 1
      /\ \A o \in OrderSlots \ G :
            g.orders[o] = h.orders[o] /\ g.freeOrders[o] = h.freeOrders[o]
  <2>1. /\ \A o \in Rests(h, {}, l) : g.orders[o] = BlankOrder /\ g.freeOrders[o] = 1
        /\ \A o \in OrderSlots \ Rests(h, {}, l) :
              g.orders[o] = h.orders[o] /\ g.freeOrders[o] = h.freeOrders[o]
    BY DEF Cleared
  <2>2. BlankOrder.id = Null
    BY DEF BlankOrder
  <2> QED  BY <1>2, <2>1, <2>2
<1>6. G = {o \in OrderSlots : h.freeOrders[o] = 0 /\ h.orders[o].locate = l}
  BY <1>2 DEF Rests
<1>7. /\ \A v \in V : g.levels[v].queue = <<>> /\ QueueOf(g, v) = {} /\ g.freeLevels[v] = 1
      /\ \A v \in LevelSlots \ V :
            /\ g.levels[v] = h.levels[v] /\ g.freeLevels[v] = h.freeLevels[v]
            /\ QueueOf(g, v) = QueueOf(h, v)
  <2>1. Range(<<>>) = {}
    BY DEF Range
  <2> QED  BY <1>3, <2>1 DEF Cleared, BlankLevel, QueueOf
<1>8. /\ \A s \in Sides : /\ g.book[l].list[s] = <<>> /\ ListOf(g, l, s) = {}
                          /\ g.book[l].nLevels[s] = 0
                          /\ \A p \in Prices : g.book[l].map[s][p] = Null
      /\ g.book[l].nOrders = 0
  <2>1. Range(<<>>) = {}
    BY DEF Range
  <2> QED  BY <2>1 DEF Cleared, EmptyBook, ListOf
<1>9. \A m \in Locates : m # l =>
        g.book[m] = h.book[m] /\ \A s \in Sides : ListOf(g, m, s) = ListOf(h, m, s)
  BY DEF Cleared, ListOf
<1>10. \A m \in Locates, s \in Sides : m # l => ListOf(h, m, s) \subseteq LevelSlots \ V
  <2>1. ASSUME NEW m \in Locates, NEW s \in Sides, m # l,
               NEW v \in ListOf(h, m, s), v \in V
        PROVE  FALSE
    <3>1. PICK t \in Sides : v \in ListOf(h, l, t)
      BY <1>4, <2>1 DEF Sides
    <3> QED  BY <2>1, <3>1, OneList
  <2> QED  BY <1>1, <2>1, PartsOf
<1>11. \A v \in LevelSlots \ V : QueueOf(h, v) \cap G = {}
  <2> SUFFICES ASSUME NEW v \in LevelSlots \ V, NEW o \in QueueOf(h, v), o \in G
               PROVE  FALSE
    OBVIOUS
  <2>1. PICK w \in V : o \in QueueOf(h, w)
    BY <1>3, <1>4 DEF OrdersOf, QueueOf
  <2>2. v = w
    BY <1>4, <2>1 DEF HeapInv, QueuesInv
  <2> QED  BY <2>1, <2>2
<1>12. FreeOrdersInv(g, {})
  BY <1>5, <1>6 DEF HeapInv, FreeOrdersInv
<1>13. QueuesInv(g, {})
  <2>1. \A v \in LevelSlots : IsInjective(g.levels[v].queue)
    <3>1. IsInjective(<<>>)
      BY DEF IsInjective
    <3> QED  BY <1>7, <3>1 DEF HeapInv, QueuesInv
  <2>2. \A v, w \in LevelSlots : QueueOf(g, v) \cap QueueOf(g, w) # {} => v = w
    BY <1>7 DEF HeapInv, QueuesInv
  <2>3. ASSUME NEW o \in OrderSlots
        PROVE  (\E v \in LevelSlots : o \in QueueOf(g, v)) <=> g.freeOrders[o] = 0
    <3>1. CASE o \in G
      <4>1. g.freeOrders[o] = 1
        BY <1>5, <3>1
      <4>2. \A v \in LevelSlots : o \notin QueueOf(g, v)
        BY <1>7, <1>11, <3>1
      <4> QED  BY <4>1, <4>2
    <3>2. CASE o \notin G
      <4>1. \A v \in LevelSlots : o \in QueueOf(g, v) <=> o \in QueueOf(h, v)
        BY <1>4, <1>7, <3>2
      <4> QED  BY <1>5, <3>2, <4>1 DEF HeapInv, QueuesInv
    <3> QED  BY <3>1, <3>2
  <2> QED  BY <2>1, <2>2, <2>3 DEF QueuesInv
<1>14. ListsInv(g)
  <2>1. ASSUME NEW v \in LevelSlots
        PROVE  /\ g.freeLevels[v] \in {0, 1}
               /\ g.freeLevels[v] = 1 <=> g.levels[v].queue = <<>>
               /\ g.freeLevels[v] = 0 <=> \E m \in Locates, s \in Sides : v \in ListOf(g, m, s)
    <3>1. CASE v \in V
      <4>1. \A m \in Locates, s \in Sides : v \notin ListOf(g, m, s)
        BY <1>8, <1>9, <1>10, <3>1
      <4> QED  BY <1>7, <3>1, <4>1
    <3>2. CASE v \notin V
      <4>1. \A m \in Locates, s \in Sides : v \in ListOf(g, m, s) <=> v \in ListOf(h, m, s)
        BY <1>4, <1>8, <1>9, <3>2 DEF Sides
      <4> QED  BY <1>7, <3>2, <4>1 DEF HeapInv, ListsInv
    <3> QED  BY <3>1, <3>2
  <2>2. ASSUME NEW m \in Locates, NEW s \in Sides
        PROVE  /\ IsInjective(g.book[m].list[s])
               /\ g.book[m].nLevels[s] = Len(g.book[m].list[s])
    <3>1. CASE m = l
      <4>1. IsInjective(<<>>) /\ Len(<<>>) = 0
        BY DEF IsInjective
      <4> QED  BY <1>8, <3>1, <4>1
    <3>2. CASE m # l
      BY <1>9, <3>2 DEF HeapInv, ListsInv
    <3> QED  BY <3>1, <3>2
  <2> QED  BY <2>1, <2>2 DEF ListsInv
<1>15. HomesInv(g)
  <2> SUFFICES ASSUME NEW m \in Locates, NEW s \in Sides, NEW v \in ListOf(g, m, s),
                      NEW o \in QueueOf(g, v)
               PROVE  /\ g.orders[o].locate = m
                      /\ g.orders[o].side = s
                      /\ g.orders[o].price = g.levels[v].price
    BY DEF HomesInv
  <2>1. m # l /\ v \in ListOf(h, m, s) /\ v \in LevelSlots \ V
    BY <1>8, <1>9, <1>10
  <2>2. g.levels[v] = h.levels[v] /\ o \in QueueOf(h, v)
    BY <1>7, <2>1
  <2>3. o \in OrderSlots \ G
    BY <1>1, <1>11, <2>1, <2>2, PartsOf
  <2> QED  BY <1>5, <2>1, <2>2, <2>3 DEF HeapInv, HomesInv
<1>16. MapsInv(g) /\ SortedInv(g)
  <2>1. ASSUME NEW m \in Locates, NEW s \in Sides PROVE MapFinds(g, m, s) /\ ListSorted(g, m, s)
    <3>1. CASE m = l
      BY <1>8, <3>1, SMTT(90) DEF MapFinds, ListSorted
    <3>2. CASE m # l
      <4>1. \A w \in ListOf(h, m, s) : g.levels[w].price = h.levels[w].price
        BY <1>7, <1>10, <3>2
      <4> QED  BY <1>1, <1>9, <3>2, <4>1, SameSide DEF HeapInv, MapsInv, SortedInv
    <3> QED  BY <3>1, <3>2
  <2> QED  BY <2>1 DEF MapsInv, SortedInv
<1>17. CountsInv(g, {})
  <2>1. Rests(g, {}, l) = {}
    BY <1>5, <1>6 DEF Rests
  <2>2. \A m \in Locates : m # l => Rests(g, {}, m) = Rests(h, {}, m)
    BY <1>5, <1>6 DEF Rests
  <2> QED  BY <1>8, <1>9, <2>1, <2>2, FS_EmptySet DEF HeapInv, CountsInv
<1> QED  BY <1>12, <1>13, <1>14, <1>15, <1>16, <1>17 DEF HeapInv

(* The levels that stay have lost no order.                                *)
LEMMA ClearTotals ==
    ASSUME NEW h, HeapInv(h, {}), TotalsInv(h), NEW l \in Locates, NEW g \in Heaps,
           Cleared(h, g, l)
    PROVE  TotalsInv(g)
<1> SUFFICES ASSUME NEW v \in LevelSlots
             PROVE  g.levels[v].total = SharesIn(g.orders, g.levels[v].queue)
  BY DEF TotalsInv
<1>1. h \in Heaps
  BY DEF HeapInv
<1>2. CASE v \in LevelsOf(h, l)
  <2>1. g.levels[v].total = 0 /\ g.levels[v].queue = <<>>
    BY <1>2 DEF Cleared, BlankLevel
  <2> QED  BY <2>1, SharesOfNone
<1>3. CASE v \notin LevelsOf(h, l)
  <2>1. g.levels[v] = h.levels[v]
    BY <1>3 DEF Cleared
  <2>2. ASSUME NEW x \in QueueOf(h, v) PROVE g.orders[x].shares = h.orders[x].shares
    <3>1. x \in OrderSlots
      BY <1>1, PartsOf
    <3>2. CASE x \in Rests(h, {}, l)
      <4>1. x \in OrdersOf(h, l) /\ LevelsOf(h, l) \subseteq LevelSlots
        BY <3>2, OrdersOfIs
      <4>2. PICK w \in LevelsOf(h, l) : x \in QueueOf(h, w)
        BY <4>1 DEF OrdersOf, QueueOf
      <4>3. v = w
        BY <2>2, <4>1, <4>2 DEF HeapInv, QueuesInv
      <4> QED  BY <1>3, <4>2, <4>3
    <3>3. CASE x \notin Rests(h, {}, l)
      BY <3>1, <3>3 DEF Cleared
    <3> QED  BY <3>2, <3>3
  <2>3. PICK queue : queue = h.levels[v].queue
    OBVIOUS
  <2>4. \A x \in Range(queue) : g.orders[x].shares = h.orders[x].shares
    BY <2>2, <2>3 DEF QueueOf
  <2>5. SharesIn(g.orders, queue) = SharesIn(h.orders, queue)
    BY <2>4, SharesSame
  <2> QED  BY <2>1, <2>3, <2>5 DEF TotalsInv
<1> QED  BY <1>2, <1>3

(* What on_cross_trade writes.                                             *)
ClearBook(h, l) ==
    [ClearLevels(h, l) EXCEPT
        !.orders = [o \in OrderSlots |-> IF o \in OrdersOf(h, l) THEN BlankOrder ELSE @[o]],
        !.freeOrders = [o \in OrderSlots |-> IF o \in OrdersOf(h, l) THEN @[o] + 1 ELSE @[o]]]

(* It clears the book.                                                     *)
LEMMA ClearBookKeeps ==
    ASSUME NEW h, HeapInv(h, {}), NEW l \in Locates, NEW g, g = ClearBook(h, l)
    PROVE  g \in Heaps /\ Cleared(h, g, l) /\ HeapInv(g, {})
<1>1. h \in Heaps
  BY DEF HeapInv
<1>2. PICK k : k = ClearLevels(h, l)
  OBVIOUS
<1>3. k \in Heaps
  BY <1>1, <1>2, ClearLevelsType
<1>4. PICK G : G = OrdersOf(h, l)
  OBVIOUS
<1>5. PICK V : V = LevelsOf(h, l)
  OBVIOUS
<1>6. /\ k.orders = h.orders /\ k.freeOrders = h.freeOrders
      /\ k.levels = [v \in LevelSlots |-> IF v \in V THEN BlankLevel ELSE h.levels[v]]
      /\ k.freeLevels = [v \in LevelSlots |->
            IF v \in V THEN h.freeLevels[v] + 1 ELSE h.freeLevels[v]]
      /\ k.book = [h.book EXCEPT ![l] = EmptyBook]
  BY <1>1, <1>2, <1>5 DEF ClearLevels, Heaps
<1>7. PICK ord : ord = [o \in OrderSlots |-> IF o \in G THEN BlankOrder ELSE k.orders[o]]
  OBVIOUS
<1>8. PICK free : free = [o \in OrderSlots |->
                     IF o \in G THEN k.freeOrders[o] + 1 ELSE k.freeOrders[o]]
  OBVIOUS
<1>9. g = [k EXCEPT !.orders = ord, !.freeOrders = free]
  BY <1>2, <1>4, <1>7, <1>8 DEF ClearBook
<1>10. ord \in [OrderSlots -> OrderRecords] /\ free \in [OrderSlots -> Int]
  BY <1>3, <1>7, <1>8, HeapParts, BlankTypes
<1>11. g \in Heaps
  BY <1>3, <1>9, <1>10 DEF Heaps
<1>12. /\ g.orders = ord /\ g.freeOrders = free /\ g.levels = k.levels
       /\ g.freeLevels = k.freeLevels /\ g.book = k.book
  BY <1>3, <1>9 DEF Heaps
<1>13. /\ OrdersOf(h, l) = Rests(h, {}, l) /\ LevelsOf(h, l) \subseteq LevelSlots
  BY OrdersOfIs
<1>14. Cleared(h, g, l)
  <2>1. \A o \in G : o \in OrderSlots /\ h.freeOrders[o] = 0
    BY <1>4, <1>13 DEF Rests
  <2>2. \A o \in G : g.orders[o] = BlankOrder /\ g.freeOrders[o] = 1
    BY <1>6, <1>7, <1>8, <1>12, <2>1
  <2>3. \A o \in OrderSlots \ G :
          g.orders[o] = h.orders[o] /\ g.freeOrders[o] = h.freeOrders[o]
    BY <1>6, <1>7, <1>8, <1>12
  <2>4. \A v \in V : v \in LevelSlots /\ h.freeLevels[v] = 0
    <3>1. TAKE v \in V
    <3>2. v \in LevelSlots
      BY <1>5, <1>13
    <3>3. PICK s \in Sides : v \in ListOf(h, l, s)
      BY <1>5 DEF LevelsOf, ListOf, Sides
    <3> QED  BY <3>2, <3>3 DEF HeapInv, ListsInv
  <2>5. \A v \in V : g.levels[v] = BlankLevel /\ g.freeLevels[v] = 1
    BY <1>6, <1>12, <2>4
  <2>6. \A v \in LevelSlots \ V :
          g.levels[v] = h.levels[v] /\ g.freeLevels[v] = h.freeLevels[v]
    BY <1>6, <1>12
  <2>7. g.book[l] = EmptyBook /\ \A m \in Locates : m # l => g.book[m] = h.book[m]
    BY <1>1, <1>6, <1>12, HeapParts
  <2> QED  BY <1>4, <1>5, <1>13, <2>2, <2>3, <2>5, <2>6, <2>7 DEF Cleared
<1> QED  BY <1>11, <1>14, ClearKeeps

-----------------------------------------------------------------------------
(* Counting slots.                                                         *)

(* A slot leaves the free list.                                            *)
LEMMA UsedUp ==
    ASSUME NEW S, IsFiniteSet(S), NEW f \in [S -> Int], NEW g \in [S -> Int],
           NEW x \in S, f[x] = 1, g[x] = 0, \A y \in S : y # x => g[y] = f[y]
    PROVE  /\ Cardinality(Used(g)) = Cardinality(Used(f)) + 1
           /\ Cardinality(Used(f)) \in Nat
<1>1. Used(g) = Used(f) \cup {x} /\ x \notin Used(f) /\ Used(f) \in SUBSET S
  BY DEF Used
<1>2. IsFiniteSet(Used(f))
  BY <1>1, FS_Subset
<1> QED  BY <1>1, <1>2, OneMore

(* A slot comes back to the free list.                                     *)
LEMMA UsedDown ==
    ASSUME NEW S, IsFiniteSet(S), NEW f \in [S -> Int], NEW g \in [S -> Int],
           NEW x \in S, f[x] = 0, g[x] = 1, \A y \in S : y # x => g[y] = f[y]
    PROVE  /\ Cardinality(Used(g)) = Cardinality(Used(f)) - 1
           /\ Cardinality(Used(g)) \in Nat /\ Cardinality(Used(f)) \in Nat
<1>1. Used(f) = Used(g) \cup {x} /\ x \notin Used(g) /\ Used(g) \in SUBSET S
  BY DEF Used
<1>2. IsFiniteSet(Used(g))
  BY <1>1, FS_Subset
<1>3. Cardinality(Used(f)) = Cardinality(Used(g)) + 1 /\ Cardinality(Used(g)) \in Nat
  BY <1>1, <1>2, OneMore
<1> QED  BY <1>3

(* A gauge that counts used slots is decreased by exactly the slots freed. *)
LEMMA DecreaseIs ==
    ASSUME NEW n \in Nat, NEW k \in Nat, k <= n
    PROVE  Decrease(n, k) = n - k
BY DEF Decrease

-----------------------------------------------------------------------------
(* The index.                                                              *)

IndexOK(idx, ord, free, inst) ==
    /\ \A id \in Ids : idx[id] # Null =>
          free[idx[id]] = 0 /\ ord[idx[id]].id = id
    /\ \A o \in OrderSlots : free[o] = 0 =>
          /\ ord[o].id \in Ids
          /\ idx[ord[o].id] = o
          /\ inst[ord[o].locate] = "booked"

(* Only slot o is written.                                                 *)
Only(o, ord, free, ord2, free2) ==
    \A x \in OrderSlots : x # o => ord2[x] = ord[x] /\ free2[x] = free[x]

(* An order is entered under an id that the index did not have.            *)
LEMMA IndexAdds ==
    ASSUME NEW idx \in [Ids -> OrderSlots \cup {Null}], NEW ord, NEW free, NEW inst,
           IndexOK(idx, ord, free, inst),
           NEW id \in Ids, idx[id] = Null, NEW o \in OrderSlots, free[o] = 1,
           NEW ord2, NEW free2, NEW idx2, idx2 = [idx EXCEPT ![id] = o],
           ord2[o].id = id, free2[o] = 0, inst[ord2[o].locate] = "booked",
           Only(o, ord, free, ord2, free2)
    PROVE  IndexOK(idx2, ord2, free2, inst)
<1>1. o # Null
  BY NullIsNoSlot
<1>2. \A i \in Ids : idx2[i] = IF i = id THEN o ELSE idx[i]
  OBVIOUS
<1>3. \A i \in Ids : idx[i] # Null => idx[i] \in OrderSlots /\ idx[i] # o
  BY DEF IndexOK
<1>4. ASSUME NEW i \in Ids, idx2[i] # Null
      PROVE  free2[idx2[i]] = 0 /\ ord2[idx2[i]].id = i
  BY <1>2, <1>3, <1>4 DEF IndexOK, Only
<1>5. ASSUME NEW x \in OrderSlots, free2[x] = 0
      PROVE  ord2[x].id \in Ids /\ idx2[ord2[x].id] = x /\ inst[ord2[x].locate] = "booked"
  <2>1. CASE x = o
    BY <1>2, <2>1
  <2>2. CASE x # o
    <3>1. ord2[x] = ord[x] /\ free[x] = 0
      BY <1>5, <2>2 DEF Only
    <3>2. ord[x].id \in Ids /\ idx[ord[x].id] = x /\ inst[ord[x].locate] = "booked"
      BY <3>1 DEF IndexOK
    <3>3. ord[x].id # id
      BY <3>2, NullIsNoSlot
    <3> QED  BY <1>2, <3>1, <3>2, <3>3
  <2> QED  BY <2>1, <2>2
<1> QED  BY <1>4, <1>5 DEF IndexOK

(* The index when an order goes.                                           *)
LEMMA IndexDrops ==
    ASSUME NEW idx \in [Ids -> OrderSlots \cup {Null}], NEW ord, NEW free, NEW inst,
           IndexOK(idx, ord, free, inst),
           NEW id \in Ids, NEW o \in OrderSlots, idx[id] = o,
           NEW ord2, NEW free2, NEW idx2, idx2 = [idx EXCEPT ![id] = Null],
           free2[o] = 1, Only(o, ord, free, ord2, free2)
    PROVE  IndexOK(idx2, ord2, free2, inst)
<1>1. o # Null
  BY NullIsNoSlot
<1>2. \A i \in Ids : idx2[i] = IF i = id THEN Null ELSE idx[i]
  OBVIOUS
<1>3. \A i \in Ids : i # id /\ idx[i] # Null => idx[i] \in OrderSlots /\ idx[i] # o
  BY <1>1 DEF IndexOK
<1>4. ASSUME NEW i \in Ids, idx2[i] # Null
      PROVE  free2[idx2[i]] = 0 /\ ord2[idx2[i]].id = i
  <2>1. i # id /\ idx2[i] = idx[i] /\ idx[i] # Null
    BY <1>2, <1>4
  <2> QED  BY <1>3, <2>1 DEF IndexOK, Only
<1>5. ASSUME NEW x \in OrderSlots, free2[x] = 0
      PROVE  ord2[x].id \in Ids /\ idx2[ord2[x].id] = x /\ inst[ord2[x].locate] = "booked"
  <2>1. x # o
    BY <1>5
  <2>2. ord2[x] = ord[x] /\ free[x] = 0
    BY <1>5, <2>1 DEF Only
  <2>3. ord[x].id \in Ids /\ idx[ord[x].id] = x /\ inst[ord[x].locate] = "booked"
    BY <2>2 DEF IndexOK
  <2>4. ord[x].id # id
    BY <2>1, <2>3
  <2> QED  BY <1>2, <2>2, <2>3, <2>4
<1> QED  BY <1>4, <1>5 DEF IndexOK

-----------------------------------------------------------------------------
(* What a handler works on, step by step: heap, index, instruments, gauges. *)

(* The free list with the slots in hand put back.                          *)
Held(h, D) ==
    [o \in OrderSlots |-> IF h.freeOrders[o] = 0 /\ o \notin D THEN 0 ELSE 1]

(* EngineInv with the slots of D in hand: neither indexed nor counted.     *)
Consistent(h, D, idx, inst, lv) ==
    /\ HeapInv(h, D)
    /\ TotalsInv(h)
    /\ idx \in [Ids -> OrderSlots \cup {Null}]
    /\ IndexOK(idx, h.orders, Held(h, D), inst)
    /\ lv = [orders |-> Cardinality(Used(Held(h, D))),
             levels |-> Cardinality(Used(h.freeLevels))]

(* With empty hands that is the free list.                                 *)
LEMMA HeldIs ==
    ASSUME NEW h, HeapInv(h, {})
    PROVE  Held(h, {}) = h.freeOrders
<1>1. h.freeOrders \in [OrderSlots -> Int]
  BY HeapParts DEF HeapInv
<1>2. \A o \in OrderSlots : h.freeOrders[o] \in {0, 1}
  BY DEF HeapInv, FreeOrdersInv
<1> QED  BY <1>1, <1>2 DEF Held

(* acquire.                                                                *)
LEMMA TakeConsistent ==
    ASSUME NEW h, NEW D, NEW idx, NEW inst, NEW lv, Consistent(h, D, idx, inst, lv),
           NEW o \in OrderSlots, h.freeOrders[o] > 0, NEW g, g = TakeOrder(h, o)
    PROVE  /\ Consistent(g, D \cup {o}, idx, inst, lv)
           /\ o \notin D /\ g.orders = h.orders
           /\ Held(h, D)[o] = 1
           /\ Held(g, D \cup {o}) = Held(h, D)
<1>1. HeapInv(h, D) /\ TotalsInv(h)
  BY DEF Consistent
<1>2. /\ HeapInv(g, D \cup {o}) /\ TotalsInv(g)
      /\ o \notin D
      /\ g.freeOrders = [h.freeOrders EXCEPT ![o] = 0]
      /\ g.orders = h.orders /\ g.freeLevels = h.freeLevels
  BY <1>1, TakeKeeps
<1>3. h.freeOrders \in [OrderSlots -> Int]
  BY <1>1, HeapParts DEF HeapInv
<1>4. Held(g, D \cup {o}) = Held(h, D)
  <2>1. \A x \in OrderSlots : g.freeOrders[x] = IF x = o THEN 0 ELSE h.freeOrders[x]
    BY <1>2, <1>3
  <2>2. \A x \in OrderSlots :
          (g.freeOrders[x] = 0 /\ x \notin D \cup {o}) <=> (h.freeOrders[x] = 0 /\ x \notin D)
    BY <2>1
  <2> QED  BY <2>2 DEF Held
<1>5. Held(h, D)[o] = 1
  <2>1. h.freeOrders[o] # 0
    BY <1>3
  <2> QED  BY <2>1 DEF Held
<1> QED  BY <1>2, <1>4, <1>5 DEF Consistent

(* Constructing an order.                                                  *)
LEMMA NewConsistent ==
    ASSUME NEW h, NEW D, NEW idx, NEW inst, NEW lv, Consistent(h, D, idx, inst, lv),
           NEW o \in OrderSlots, o \in D, NEW id \in Ids,
           NEW l \in Locates, NEW s \in Sides, NEW p \in Prices, NEW q \in Quantities,
           NEW g, g = NewOrder(h, o, id, l, s, p, q)
    PROVE  /\ Consistent(g, D, idx, inst, lv)
           /\ g.orders[o].id = id /\ g.orders[o].locate = l
           /\ \A x \in OrderSlots : x # o => g.orders[x] = h.orders[x]
<1>1. HeapInv(h, D) /\ TotalsInv(h)
  BY DEF Consistent
<1>2. /\ HeapInv(g, D) /\ TotalsInv(g)
      /\ g.orders = [h.orders EXCEPT ![o] =
            [id |-> id, locate |-> l, side |-> s, price |-> p, shares |-> q]]
      /\ g.freeOrders = h.freeOrders /\ g.freeLevels = h.freeLevels
  BY <1>1, NewKeeps
<1>3. h.orders \in [OrderSlots -> OrderRecords]
  BY <1>1, HeapParts DEF HeapInv
<1>4. /\ g.orders[o].id = id /\ g.orders[o].locate = l
      /\ \A x \in OrderSlots : x # o => g.orders[x] = h.orders[x]
  BY <1>2, <1>3
<1>5. Held(g, D) = Held(h, D) /\ Held(h, D)[o] = 1
  BY <1>2 DEF Held
<1>6. IndexOK(idx, g.orders, Held(h, D), inst)
  <2>1. IndexOK(idx, h.orders, Held(h, D), inst) /\ idx \in [Ids -> OrderSlots \cup {Null}]
    BY DEF Consistent
  <2>2. PICK f : f = Held(h, D)
    OBVIOUS
  <2>3. PICK ord : ord = g.orders
    OBVIOUS
  <2>4. /\ f[o] = 1 /\ IndexOK(idx, h.orders, f, inst)
        /\ \A x \in OrderSlots : x # o => ord[x] = h.orders[x]
    BY <1>4, <1>5, <2>1, <2>2, <2>3
  <2>5. \A x \in OrderSlots : f[x] = 0 => ord[x] = h.orders[x]
    BY <2>4
  <2>6. IndexOK(idx, ord, f, inst)
    BY <2>1, <2>4, <2>5 DEF IndexOK
  <2> QED  BY <2>2, <2>3, <2>6
<1> QED  BY <1>2, <1>4, <1>5, <1>6 DEF Consistent

(* release.                                                                *)
LEMMA ReleaseConsistent ==
    ASSUME NEW h, NEW D, NEW idx, NEW inst, NEW lv, Consistent(h, D, idx, inst, lv),
           NEW o \in OrderSlots, o \in D, NEW g, g = ReleaseOrder(h, o)
    PROVE  /\ Consistent(g, D \ {o}, idx, inst, lv)
           /\ \A x \in OrderSlots : x # o => g.orders[x] = h.orders[x]
<1>1. HeapInv(h, D) /\ TotalsInv(h)
  BY DEF Consistent
<1>2. /\ HeapInv(g, D \ {o}) /\ TotalsInv(g)
      /\ g.freeOrders = [h.freeOrders EXCEPT ![o] = 1]
      /\ g.orders = [h.orders EXCEPT ![o] = BlankOrder]
      /\ g.freeLevels = h.freeLevels
  BY <1>1, ReleaseKeeps
<1>3. h.orders \in [OrderSlots -> OrderRecords] /\ h.freeOrders \in [OrderSlots -> Int]
  BY <1>1, HeapParts DEF HeapInv
<1>4. \A x \in OrderSlots : x # o => g.orders[x] = h.orders[x]
  BY <1>2, <1>3
<1>5. Held(g, D \ {o}) = Held(h, D) /\ Held(h, D)[o] = 1
  <2>1. \A x \in OrderSlots : g.freeOrders[x] = IF x = o THEN 1 ELSE h.freeOrders[x]
    BY <1>2, <1>3
  <2>2. \A x \in OrderSlots :
          (g.freeOrders[x] = 0 /\ x \notin D \ {o}) <=> (h.freeOrders[x] = 0 /\ x \notin D)
    BY <2>1
  <2> QED  BY <2>2 DEF Held
<1>6. IndexOK(idx, g.orders, Held(h, D), inst)
  <2>1. IndexOK(idx, h.orders, Held(h, D), inst) /\ idx \in [Ids -> OrderSlots \cup {Null}]
    BY DEF Consistent
  <2>2. PICK f : f = Held(h, D)
    OBVIOUS
  <2>3. PICK ord : ord = g.orders
    OBVIOUS
  <2>4. /\ f[o] = 1 /\ IndexOK(idx, h.orders, f, inst)
        /\ \A x \in OrderSlots : x # o => ord[x] = h.orders[x]
    BY <1>4, <1>5, <2>1, <2>2, <2>3
  <2>5. \A x \in OrderSlots : f[x] = 0 => ord[x] = h.orders[x]
    BY <2>4
  <2>6. IndexOK(idx, ord, f, inst)
    BY <2>1, <2>4, <2>5 DEF IndexOK
  <2> QED  BY <2>2, <2>3, <2>6
<1> QED  BY <1>2, <1>4, <1>5, <1>6 DEF Consistent

(* The gauges after add_order or remove_order returned rc.                 *)
GaugesUp(lv, rc) ==
    [orders |-> lv.orders + 1, levels |-> lv.levels + (IF rc = 2 THEN 1 ELSE 0)]
GaugesDown(lv, rc) ==
    [orders |-> Decrease(lv.orders, 1),
     levels |-> IF rc = 2 THEN Decrease(lv.levels, 1) ELSE lv.levels]

(* A handler adds the order in slot o, with a new id, to book l.           *)
Adds(h, D, E, idx, idx2, inst, l, o, id, r) ==
    /\ l \in Locates /\ o \in OrderSlots /\ id \in Ids
    /\ o \in D /\ E = D \ {o}
    /\ h.orders[o].locate = l /\ h.orders[o].id = id /\ inst[l] = "booked"
    /\ idx[id] = Null /\ idx2 = [idx EXCEPT ![id] = o]
    /\ r \in BookAdd(h, l, o)

(* What add_order adds to the book is entered in the index and counted.    *)
LEMMA AddConsistent ==
    ASSUME NEW h, NEW D, NEW E, NEW idx, NEW idx2, NEW inst, NEW lv,
           NEW l, NEW o, NEW id, NEW r, Consistent(h, D, idx, inst, lv),
           Adds(h, D, E, idx, idx2, inst, l, o, id, r)
    PROVE  /\ r.heap.orders = h.orders
           /\ r.rc = 0 => Consistent(r.heap, D, idx, inst, lv)
           /\ r.rc # 0 => Consistent(r.heap, E, idx2, inst, GaugesUp(lv, r.rc))
<1>1. HeapInv(h, D) /\ TotalsInv(h)
  BY DEF Consistent
<1>2. /\ r.rc \in {0, 1, 2}
      /\ r.rc = 0 => r.heap = h
      /\ r.rc # 0 => HeapInv(r.heap, D \ {o})
      /\ r.heap.orders = h.orders /\ r.heap.freeOrders = h.freeOrders
      /\ r.rc # 2 => r.heap.freeLevels = h.freeLevels
      /\ r.rc = 2 => \E v \in LevelSlots :
            h.freeLevels[v] = 1 /\ r.heap.freeLevels = [h.freeLevels EXCEPT ![v] = 0]
      /\ TotalsInv(r.heap)
  <2>1. /\ l \in Locates /\ o \in OrderSlots /\ o \in D
        /\ h.orders[o].locate = l /\ r \in BookAdd(h, l, o)
    BY DEF Adds
  <2> QED  BY <1>1, <2>1, BookAddKeeps, SMTT(60)
<1>3. CASE r.rc = 0
  BY <1>2, <1>3
<1>5. /\ o \in OrderSlots /\ id \in Ids /\ o \in D /\ E = D \ {o}
      /\ inst[h.orders[o].locate] = "booked" /\ h.orders[o].id = id
      /\ idx[id] = Null /\ idx2 = [idx EXCEPT ![id] = o]
  BY DEF Adds
<1>4. CASE r.rc # 0
  <2>1. PICK g : g = r.heap
    OBVIOUS
  <2>2. HeapInv(g, D \ {o}) /\ TotalsInv(g) /\ g.orders = h.orders /\ g.freeOrders = h.freeOrders
    BY <1>2, <1>4, <2>1
  <2>3. PICK f : f = Held(h, D)
    OBVIOUS
  <2>4. PICK f2 : f2 = Held(g, D \ {o})
    OBVIOUS
  <2>5. /\ f \in [OrderSlots -> Int] /\ f2 \in [OrderSlots -> Int]
        /\ f[o] = 1 /\ f2[o] = 0
        /\ \A x \in OrderSlots : x # o => f2[x] = f[x]
    <3>1. h.freeOrders[o] = 0
      BY <1>1, <1>5, InHand
    <3> QED  BY <1>5, <2>2, <2>3, <2>4, <3>1 DEF Held
  <2>7. idx \in [Ids -> OrderSlots \cup {Null}] /\ idx2 \in [Ids -> OrderSlots \cup {Null}]
    BY <1>5 DEF Consistent
  <2>8. IndexOK(idx, h.orders, f, inst)
    BY <2>3 DEF Consistent
  <2>9. IndexOK(idx2, h.orders, f2, inst)
    <3>1. PICK ord : ord = h.orders
      OBVIOUS
    <3>2. Only(o, ord, f, ord, f2)
      BY <2>5 DEF Only
    <3>3. ord[o].id = id /\ inst[ord[o].locate] = "booked" /\ IndexOK(idx, ord, f, inst)
      BY <1>5, <2>8, <3>1
    <3>4. IndexOK(idx2, ord, f2, inst)
      BY <1>5, <2>5, <2>7, <3>2, <3>3, IndexAdds
    <3> QED  BY <3>1, <3>4
  <2>10. lv.orders = Cardinality(Used(f)) /\ lv.levels = Cardinality(Used(h.freeLevels))
    BY <2>3 DEF Consistent
  <2>11. lv.orders + 1 = Cardinality(Used(f2))
    BY <1>5, <2>5, <2>10, UsedUp, PoolsAreFinite
  <2>12. lv.levels + (IF r.rc = 2 THEN 1 ELSE 0) = Cardinality(Used(g.freeLevels))
    <3>1. h.freeLevels \in [LevelSlots -> Int] /\ g.freeLevels \in [LevelSlots -> Int]
      BY <1>1, <2>2, HeapParts DEF HeapInv
    <3>2. CASE r.rc = 2
      <4>1. PICK v \in LevelSlots :
              h.freeLevels[v] = 1 /\ g.freeLevels = [h.freeLevels EXCEPT ![v] = 0]
        BY <1>2, <2>1, <3>2
      <4>2. g.freeLevels[v] = 0 /\ \A w \in LevelSlots : w # v => g.freeLevels[w] = h.freeLevels[w]
        BY <3>1, <4>1
      <4>3. Cardinality(Used(g.freeLevels)) = Cardinality(Used(h.freeLevels)) + 1
        BY <3>1, <4>1, <4>2, UsedUp, PoolsAreFinite
      <4> QED  BY <2>10, <3>2, <4>3
    <3>3. CASE r.rc # 2
      <4>1. Used(h.freeLevels) \in SUBSET LevelSlots
        BY <3>1 DEF Used
      <4>2. Cardinality(Used(h.freeLevels)) \in Nat
        BY <4>1, FS_Subset, FS_CardinalityType, PoolsAreFinite
      <4>3. g.freeLevels = h.freeLevels
        BY <1>2, <2>1, <3>3
      <4> QED  BY <2>10, <3>3, <4>2, <4>3
    <3> QED  BY <3>2, <3>3
  <2>13. Consistent(g, D \ {o}, idx2, inst, GaugesUp(lv, r.rc))
    BY <2>2, <2>4, <2>7, <2>9, <2>11, <2>12 DEF Consistent, GaugesUp
  <2> QED  BY <1>2, <1>4, <1>5, <2>1, <2>13
<1> QED  BY <1>3, <1>4

(* A handler has taken the order of id, in slot o, out of its book.        *)
Drops(h, D, E, idx, idx2, o, id, r) ==
    /\ o \in OrderSlots /\ id \in Ids
    /\ o \notin D /\ E = D \cup {o}
    /\ idx[id] = o /\ idx2 = [idx EXCEPT ![id] = Null]
    /\ r.rc \in {1, 2} /\ Removed(h, D, r, o)

(* What leaves the book leaves the index and the gauges.                   *)
LEMMA RemoveConsistent ==
    ASSUME NEW h, NEW D, NEW E, NEW idx, NEW idx2, NEW inst, NEW lv,
           NEW o, NEW id, NEW r, Consistent(h, D, idx, inst, lv),
           Drops(h, D, E, idx, idx2, o, id, r)
    PROVE  Consistent(r.heap, E, idx2, inst, GaugesDown(lv, r.rc))
<1>1. HeapInv(h, D) /\ TotalsInv(h)
  BY DEF Consistent
<1>0. /\ o \in OrderSlots /\ id \in Ids /\ o \notin D /\ E = D \cup {o}
      /\ idx[id] = o /\ idx2 = [idx EXCEPT ![id] = Null]
      /\ r.rc \in {1, 2} /\ Removed(h, D, r, o)
  BY DEF Drops
<1>2. PICK g : g = r.heap
  OBVIOUS
<1>3. /\ HeapInv(g, D \cup {o}) /\ TotalsInv(g) /\ g.freeOrders = h.freeOrders
      /\ \A x \in OrderSlots : x # o => g.orders[x] = h.orders[x]
      /\ r.rc = 1 => g.freeLevels = h.freeLevels
      /\ r.rc = 2 => \E v \in LevelSlots :
            h.freeLevels[v] = 0 /\ g.freeLevels = [h.freeLevels EXCEPT ![v] = 1]
  BY <1>0, <1>1, <1>2 DEF Removed, Unlinked
<1>4. PICK f : f = Held(h, D)
  OBVIOUS
<1>5. PICK f2 : f2 = Held(g, D \cup {o})
  OBVIOUS
<1>6. idx \in [Ids -> OrderSlots \cup {Null}] /\ IndexOK(idx, h.orders, f, inst)
  BY <1>4 DEF Consistent
<1>7. f[o] = 0
  BY <1>0, <1>6, NullIsNoSlot DEF IndexOK
<1>8. /\ f \in [OrderSlots -> Int] /\ f2 \in [OrderSlots -> Int]
      /\ f2[o] = 1
      /\ \A x \in OrderSlots : x # o => f2[x] = f[x]
  BY <1>0, <1>3, <1>4, <1>5 DEF Held
<1>10. idx2 \in [Ids -> OrderSlots \cup {Null}]
  BY <1>0, <1>6
<1>11. IndexOK(idx2, g.orders, f2, inst)
  <2>1. PICK ord : ord = h.orders
    OBVIOUS
  <2>2. PICK ord2 : ord2 = g.orders
    OBVIOUS
  <2>3. Only(o, ord, f, ord2, f2)
    BY <1>3, <1>8, <2>1, <2>2 DEF Only
  <2>4. IndexOK(idx, ord, f, inst)
    BY <1>6, <2>1
  <2>5. IndexOK(idx2, ord2, f2, inst)
    BY <1>0, <1>6, <1>8, <2>3, <2>4, IndexDrops
  <2> QED  BY <2>2, <2>5
<1>12. lv.orders = Cardinality(Used(f)) /\ lv.levels = Cardinality(Used(h.freeLevels))
  BY <1>4 DEF Consistent
<1>13. Decrease(lv.orders, 1) = Cardinality(Used(f2))
  <2>1. /\ Cardinality(Used(f2)) = Cardinality(Used(f)) - 1
        /\ Cardinality(Used(f2)) \in Nat /\ Cardinality(Used(f)) \in Nat
    BY <1>0, <1>7, <1>8, UsedDown, PoolsAreFinite
  <2> QED  BY <1>12, <2>1 DEF Decrease
<1>14. (IF r.rc = 2 THEN Decrease(lv.levels, 1) ELSE lv.levels) = Cardinality(Used(g.freeLevels))
  <2>1. h.freeLevels \in [LevelSlots -> Int] /\ g.freeLevels \in [LevelSlots -> Int]
    BY <1>1, <1>3, HeapParts DEF HeapInv
  <2>2. CASE r.rc = 2
    <3>1. PICK v \in LevelSlots :
            h.freeLevels[v] = 0 /\ g.freeLevels = [h.freeLevels EXCEPT ![v] = 1]
      BY <1>3, <2>2
    <3>2. g.freeLevels[v] = 1 /\ \A w \in LevelSlots : w # v => g.freeLevels[w] = h.freeLevels[w]
      BY <2>1, <3>1
    <3>3. /\ Cardinality(Used(g.freeLevels)) = Cardinality(Used(h.freeLevels)) - 1
          /\ Cardinality(Used(g.freeLevels)) \in Nat /\ Cardinality(Used(h.freeLevels)) \in Nat
      BY <2>1, <3>1, <3>2, UsedDown, PoolsAreFinite
    <3> QED  BY <1>12, <2>2, <3>3 DEF Decrease
  <2>3. CASE r.rc # 2
    BY <1>0, <1>3, <1>12, <2>3
  <2> QED  BY <2>2, <2>3
<1>15. Consistent(g, D \cup {o}, idx2, inst, GaugesDown(lv, r.rc))
  BY <1>3, <1>5, <1>10, <1>11, <1>13, <1>14 DEF Consistent, GaugesDown
<1> QED  BY <1>0, <1>2, <1>15

(* A fill that leaves shares changes neither index nor gauges.             *)
LEMMA ReduceConsistent ==
    ASSUME NEW h, NEW D, NEW idx, NEW inst, NEW lv, Consistent(h, D, idx, inst, lv),
           NEW o \in OrderSlots, NEW q, NEW r, Reduced(h, D, r, o, q)
    PROVE  Consistent(r.heap, D, idx, inst, lv)
<1>1. PICK g : g = r.heap
  OBVIOUS
<1>2. /\ HeapInv(g, D) /\ TotalsInv(g) /\ g.freeOrders = h.freeOrders /\ g.freeLevels = h.freeLevels
      /\ \A x \in OrderSlots : x # o => g.orders[x] = h.orders[x]
      /\ g.orders[o] = [h.orders[o] EXCEPT !.shares = h.orders[o].shares - q]
  BY <1>1 DEF Reduced, Consistent
<1>3. \A x \in OrderSlots : /\ g.orders[x].id = h.orders[x].id
                            /\ g.orders[x].locate = h.orders[x].locate
  <2>1. h.orders[o] \in OrderRecords
    BY HeapParts DEF Consistent, HeapInv
  <2>2. g.orders[o].id = h.orders[o].id /\ g.orders[o].locate = h.orders[o].locate
    BY <1>2, <2>1 DEF OrderRecords
  <2> QED  BY <1>2, <2>2
<1>4. Held(g, D) = Held(h, D)
  BY <1>2 DEF Held
<1>5. IndexOK(idx, g.orders, Held(h, D), inst)
  <2>1. PICK f : f = Held(h, D)
    OBVIOUS
  <2>2. IndexOK(idx, h.orders, f, inst) /\ idx \in [Ids -> OrderSlots \cup {Null}]
    BY <2>1 DEF Consistent
  <2>3. IndexOK(idx, g.orders, f, inst)
    BY <1>3, <2>2 DEF IndexOK
  <2> QED  BY <2>1, <2>3
<1>6. Consistent(g, D, idx, inst, lv)
  BY <1>2, <1>4, <1>5 DEF Consistent
<1> QED  BY <1>1, <1>6

(* An instrument gets its book.                                            *)
LEMMA BookedConsistent ==
    ASSUME NEW h, NEW D, NEW idx, NEW inst, NEW lv, Consistent(h, D, idx, inst, lv),
           NEW inst2, \A m \in Locates : inst[m] = "booked" => inst2[m] = "booked"
    PROVE  Consistent(h, D, idx, inst2, lv)
<1>1. \A o \in OrderSlots : h.orders[o].locate \in Locates
  BY HeapParts DEF Consistent, HeapInv, OrderRecords
<1>2. IndexOK(idx, h.orders, Held(h, D), inst)
  BY DEF Consistent
<1>3. IndexOK(idx, h.orders, Held(h, D), inst2)
  BY <1>1, <1>2 DEF IndexOK
<1> QED  BY <1>3 DEF Consistent

(* Several slots come back to the free list.                               *)
LEMMA UsedLess ==
    ASSUME NEW S, IsFiniteSet(S), NEW f \in [S -> Int], NEW g \in [S -> Int],
           NEW G \in SUBSET S, \A x \in G : f[x] = 0 /\ g[x] = 1,
           \A x \in S \ G : g[x] = f[x]
    PROVE  /\ Decrease(Cardinality(Used(f)), Cardinality(G)) = Cardinality(Used(g))
           /\ Cardinality(G) \in Nat
<1>1. Used(g) = Used(f) \ G /\ Used(f) \cap G = G
  BY DEF Used
<1>2. Used(f) \in SUBSET S /\ G \in SUBSET Used(f)
  BY DEF Used
<1>3. IsFiniteSet(Used(f)) /\ Cardinality(Used(f)) \in Nat
  BY <1>2, FS_Subset, FS_CardinalityType
<1>4. IsFiniteSet(G) /\ Cardinality(G) <= Cardinality(Used(f)) /\ Cardinality(G) \in Nat
  BY <1>2, <1>3, FS_Subset, FS_CardinalityType
<1>5. Cardinality(Used(f) \ G) = Cardinality(Used(f)) - Cardinality(Used(f) \cap G)
  BY <1>3, FS_Difference
<1> QED  BY <1>1, <1>3, <1>4, <1>5, DecreaseIs

(* The lists of a book have no level in common.                            *)
LEMMA LevelsOfCount ==
    ASSUME NEW h, NEW D, HeapInv(h, D), NEW l \in Locates
    PROVE  Cardinality(LevelsOf(h, l)) = h.book[l].nLevels["Buy"] + h.book[l].nLevels["Sell"]
<1>1. h \in Heaps
  BY DEF HeapInv
<1>2. \A s \in Sides : /\ IsFiniteSet(ListOf(h, l, s))
                       /\ Cardinality(ListOf(h, l, s)) = h.book[l].nLevels[s]
  <2>1. TAKE s \in Sides
  <2>2. h.book[l].list[s] \in Seq(LevelSlots)
    BY <1>1, PartsOf
  <2>3. IsInjective(h.book[l].list[s]) /\ h.book[l].nLevels[s] = Len(h.book[l].list[s])
    BY DEF HeapInv, ListsInv
  <2> QED  BY <2>2, <2>3, InjectiveLen DEF ListOf
<1>3. PICK B : B = ListOf(h, l, "Buy")
  OBVIOUS
<1>4. PICK S : S = ListOf(h, l, "Sell")
  OBVIOUS
<1>5. B \cap S = {}
  <2>1. ASSUME NEW v \in B, v \in S PROVE FALSE
    <3>1. "Buy" \in Sides /\ "Sell" \in Sides
      BY DEF Sides
    <3>2. v \in ListOf(h, l, "Buy") /\ v \in ListOf(h, l, "Sell")
      BY <1>3, <1>4, <2>1
    <3>3. "Buy" = "Sell"
      BY <3>1, <3>2, OneList
    <3> QED  BY <3>3
  <2> QED  BY <2>1
<1>6. /\ IsFiniteSet(B) /\ Cardinality(B) = h.book[l].nLevels["Buy"]
      /\ IsFiniteSet(S) /\ Cardinality(S) = h.book[l].nLevels["Sell"]
  BY <1>2, <1>3, <1>4 DEF Sides
<1>7. Cardinality(B \cup S) = Cardinality(B) + Cardinality(S) - Cardinality(B \cap S)
  BY <1>6, FS_Union
<1>8. Cardinality(B \cap S) = 0 /\ Cardinality(B) \in Nat /\ Cardinality(S) \in Nat
  BY <1>5, <1>6, FS_EmptySet, FS_CardinalityType
<1>9. LevelsOf(h, l) = B \cup S
  BY <1>3, <1>4 DEF LevelsOf, ListOf
<1> QED  BY <1>6, <1>7, <1>8, <1>9

(* The index and the gauges after the closing cross of l.                  *)
IndexCleared(h, l, ids, idx, idx2) ==
    /\ ids = {h.orders[o].id : o \in OrdersOf(h, l)}
    /\ idx2 = [id \in Ids |-> IF id \in ids THEN Null ELSE idx[id]]
GaugesCleared(lv, h, l) ==
    [orders |-> Decrease(lv.orders, Cardinality(OrdersOf(h, l))),
     levels |-> Decrease(lv.levels, h.book[l].nLevels["Buy"] + h.book[l].nLevels["Sell"])]

(* The closing cross drops the orders of its book from index and gauges.   *)
LEMMA ClearConsistent ==
    ASSUME NEW h, NEW idx, NEW inst, NEW lv, Consistent(h, {}, idx, inst, lv),
           NEW l \in Locates, NEW g, g = ClearBook(h, l), NEW ids, NEW idx2,
           IndexCleared(h, l, ids, idx, idx2)
    PROVE  /\ Consistent(g, {}, idx2, inst, GaugesCleared(lv, h, l))
           /\ Cleared(h, g, l)
           /\ \A id \in Ids : idx2[id] # Null =>
                 /\ idx2[id] = idx[id] /\ idx[id] \in OrderSlots
                 /\ idx[id] \notin OrdersOf(h, l)
<1>0. /\ ids = {h.orders[o].id : o \in OrdersOf(h, l)}
      /\ idx2 = [id \in Ids |-> IF id \in ids THEN Null ELSE idx[id]]
  BY DEF IndexCleared
<1>1. HeapInv(h, {}) /\ h \in Heaps /\ TotalsInv(h)
  BY DEF Consistent, HeapInv
<1>2. g \in Heaps /\ Cleared(h, g, l) /\ HeapInv(g, {})
  BY <1>1, ClearBookKeeps
<1>3. PICK G : G = OrdersOf(h, l)
  OBVIOUS
<1>4. G = Rests(h, {}, l) /\ LevelsOf(h, l) \subseteq LevelSlots
  BY <1>1, <1>3, OrdersOfIs
<1>5. /\ \A o \in G : g.orders[o] = BlankOrder /\ g.freeOrders[o] = 1
      /\ \A o \in OrderSlots \ G :
            g.orders[o] = h.orders[o] /\ g.freeOrders[o] = h.freeOrders[o]
      /\ \A v \in LevelsOf(h, l) : g.freeLevels[v] = 1
      /\ \A v \in LevelSlots \ LevelsOf(h, l) : g.freeLevels[v] = h.freeLevels[v]
  BY <1>2, <1>4 DEF Cleared
<1>6. /\ Held(h, {}) = h.freeOrders /\ Held(g, {}) = g.freeOrders
      /\ h.freeOrders \in [OrderSlots -> Int] /\ g.freeOrders \in [OrderSlots -> Int]
      /\ h.freeLevels \in [LevelSlots -> Int] /\ g.freeLevels \in [LevelSlots -> Int]
  BY <1>1, <1>2, HeldIs, HeapParts
<1>7. /\ idx \in [Ids -> OrderSlots \cup {Null}]
      /\ IndexOK(idx, h.orders, h.freeOrders, inst)
      /\ lv.orders = Cardinality(Used(h.freeOrders))
      /\ lv.levels = Cardinality(Used(h.freeLevels))
  BY <1>6 DEF Consistent
<1>8. G \subseteq OrderSlots /\ \A o \in G : h.freeOrders[o] = 0
  BY <1>4 DEF Rests
<1>9. \A id \in Ids : idx2[id] # Null =>
        idx2[id] = idx[id] /\ idx[id] \in OrderSlots /\ idx[id] \notin G
  <2>1. TAKE id \in Ids
  <2>2. HAVE idx2[id] # Null
  <2>3. id \notin ids /\ idx2[id] = idx[id] /\ idx[id] # Null
    BY <1>0, <2>2
  <2>4. idx[id] \in OrderSlots /\ h.orders[idx[id]].id = id
    BY <1>7, <2>3 DEF IndexOK
  <2> QED  BY <1>0, <1>3, <2>3, <2>4
<1>10. IndexOK(idx2, g.orders, g.freeOrders, inst)
  <2>1. ASSUME NEW id \in Ids, idx2[id] # Null
        PROVE  g.freeOrders[idx2[id]] = 0 /\ g.orders[idx2[id]].id = id
    <3>1. idx2[id] = idx[id] /\ idx[id] \in OrderSlots \ G /\ idx[id] # Null
      BY <1>9, <2>1
    <3>2. h.freeOrders[idx[id]] = 0 /\ h.orders[idx[id]].id = id
      BY <1>7, <3>1 DEF IndexOK
    <3> QED  BY <1>5, <3>1, <3>2
  <2>2. ASSUME NEW o \in OrderSlots, g.freeOrders[o] = 0
        PROVE  /\ g.orders[o].id \in Ids
               /\ idx2[g.orders[o].id] = o
               /\ inst[g.orders[o].locate] = "booked"
    <3>1. o \notin G /\ g.orders[o] = h.orders[o] /\ h.freeOrders[o] = 0
      BY <1>5, <2>2
    <3>2. h.orders[o].id \in Ids /\ idx[h.orders[o].id] = o /\ inst[h.orders[o].locate] = "booked"
      BY <1>7, <3>1 DEF IndexOK
    <3>3. h.orders[o].id \notin ids
      <4>1. ASSUME NEW x \in G, h.orders[x].id = h.orders[o].id PROVE FALSE
        <5>1. x \in OrderSlots /\ h.freeOrders[x] = 0
          BY <1>8
        <5>2. idx[h.orders[x].id] = x
          BY <1>7, <5>1 DEF IndexOK
        <5> QED  BY <3>1, <3>2, <4>1, <5>2
      <4> QED  BY <1>0, <1>3, <4>1
    <3> QED  BY <1>0, <3>1, <3>2, <3>3
  <2> QED  BY <2>1, <2>2 DEF IndexOK
<1>11. Decrease(lv.orders, Cardinality(G)) = Cardinality(Used(g.freeOrders))
  BY <1>5, <1>6, <1>7, <1>8, UsedLess, PoolsAreFinite
<1>12. Decrease(lv.levels, Cardinality(LevelsOf(h, l))) = Cardinality(Used(g.freeLevels))
  <2>1. PICK V : V = LevelsOf(h, l)
    OBVIOUS
  <2>2. \A v \in V : v \in LevelSlots /\ h.freeLevels[v] = 0
    <3>1. TAKE v \in V
    <3>2. v \in LevelSlots
      BY <1>4, <2>1
    <3>3. PICK s \in Sides : v \in ListOf(h, l, s)
      BY <2>1 DEF LevelsOf, ListOf, Sides
    <3> QED  BY <1>1, <3>2, <3>3 DEF HeapInv, ListsInv
  <2>3. V \in SUBSET LevelSlots
    BY <2>2
  <2>4. /\ \A v \in V : h.freeLevels[v] = 0 /\ g.freeLevels[v] = 1
        /\ \A v \in LevelSlots \ V : g.freeLevels[v] = h.freeLevels[v]
    BY <1>5, <2>1, <2>2
  <2>5. Decrease(Cardinality(Used(h.freeLevels)), Cardinality(V)) = Cardinality(Used(g.freeLevels))
    BY <1>6, <2>3, <2>4, UsedLess, PoolsAreFinite
  <2> QED  BY <1>7, <2>1, <2>5
<1>13. Cardinality(LevelsOf(h, l)) = h.book[l].nLevels["Buy"] + h.book[l].nLevels["Sell"]
  BY <1>1, LevelsOfCount
<1>14. idx2 \in [Ids -> OrderSlots \cup {Null}]
  BY <1>0, <1>7
<1>15. PICK n : n = h.book[l].nLevels["Buy"] + h.book[l].nLevels["Sell"]
  OBVIOUS
<1>16. Decrease(lv.levels, n) = Cardinality(Used(g.freeLevels))
  BY <1>12, <1>13, <1>15
<1>17. TotalsInv(g)
  BY <1>1, <1>2, ClearTotals
<1>18. Consistent(g, {}, idx2, inst,
          [orders |-> Decrease(lv.orders, Cardinality(G)), levels |-> Decrease(lv.levels, n)])
  BY <1>2, <1>6, <1>10, <1>11, <1>14, <1>16, <1>17 DEF Consistent
<1>19. GaugesCleared(lv, h, l) =
         [orders |-> Decrease(lv.orders, Cardinality(G)), levels |-> Decrease(lv.levels, n)]
  BY <1>3, <1>15 DEF GaugesCleared
<1> QED  BY <1>2, <1>3, <1>9, <1>18, <1>19

-----------------------------------------------------------------------------
(* What the handlers do to the invariant.                                  *)

Sound == Consistent(Heap, {}, index, instruments, live)

(* An id that is indexed before and after keeps its slot, and its order is *)
(* the same but for shares it may have lost.                               *)
Stays(idx, ord, idx2, ord2) ==
    \A id \in Ids : idx[id] # Null /\ idx2[id] # Null =>
        /\ idx2[id] = idx[id]
        /\ ord2[idx[id]] = [ord[idx[id]] EXCEPT !.shares = ord2[idx[id]].shares]
        /\ ord2[idx[id]].shares <= ord[idx[id]].shares

(* What every handler establishes.                                         *)
Handled == Sound' /\ Stays(index, orders, index', orders')

(* EngineInv in one word.                                                  *)
LEMMA SoundIs == EngineInv <=> TypeOK /\ Sound
<1>1. Heap.orders = orders /\ Heap.freeOrders = freeOrders /\ Heap.freeLevels = freeLevels
  BY DEF Heap
<1>2. TypeOK => /\ index \in [Ids -> OrderSlots \cup {Null}]
                /\ live \in [orders : Nat, levels : Nat]
  BY DEF TypeOK
<1>3. HeapInv(Heap, {}) => Held(Heap, {}) = freeOrders
  BY <1>1, HeldIs
<1>4. IndexInv <=> IndexOK(index, orders, freeOrders, instruments)
  BY DEF IndexInv, IndexOK
<1>5. TypeOK => (GaugesInv <=> live = [orders |-> Cardinality(Used(freeOrders)),
                                       levels |-> Cardinality(Used(freeLevels))])
  BY <1>2 DEF GaugesInv
<1> QED  BY <1>1, <1>2, <1>3, <1>4, <1>5 DEF EngineInv, Sound, Consistent

(* The end of a handler.                                                   *)
LEMMA CommitIs ==
    ASSUME NEW h \in Heaps, Commit(h)
    PROVE  Heap' = h
<1>1. h = [orders |-> h.orders, freeOrders |-> h.freeOrders, levels |-> h.levels,
           freeLevels |-> h.freeLevels, book |-> h.book]
  BY DEF Heaps
<1> QED  BY <1>1 DEF Commit, Heap

(* Orders that are not written stay.                                       *)
LEMMA StaysIf ==
    ASSUME NEW idx \in [Ids -> OrderSlots \cup {Null}],
           NEW ord \in [OrderSlots -> OrderRecords], NEW idx2, NEW ord2,
           \A id \in Ids : idx[id] # Null /\ idx2[id] # Null =>
              idx2[id] = idx[id] /\ ord2[idx[id]] = ord[idx[id]]
    PROVE  Stays(idx, ord, idx2, ord2)
<1> SUFFICES ASSUME NEW id \in Ids, idx[id] # Null, idx2[id] # Null
             PROVE  /\ idx2[id] = idx[id]
                    /\ ord2[idx[id]] = [ord[idx[id]] EXCEPT !.shares = ord2[idx[id]].shares]
                    /\ ord2[idx[id]].shares <= ord[idx[id]].shares
  BY DEF Stays
<1>1. idx2[id] = idx[id] /\ ord2[idx[id]] = ord[idx[id]] /\ idx[id] \in OrderSlots
  OBVIOUS
<1>2. PICK x : x = ord[idx[id]]
  OBVIOUS
<1>3. x \in OrderRecords
  BY <1>1, <1>2
<1>4. x = [x EXCEPT !.shares = x.shares] /\ x.shares \in Nat
  BY <1>3 DEF OrderRecords
<1> QED  BY <1>1, <1>2, <1>4

(* The types of the variables, as the handlers need them.                  *)
LEMMA TypesOf ==
    ASSUME TypeOK
    PROVE  /\ index \in [Ids -> OrderSlots \cup {Null}]
           /\ orders \in [OrderSlots -> OrderRecords]
           /\ freeOrders \in [OrderSlots -> Int]
           /\ instruments \in [Locates -> {"absent", "listed", "booked"}]
           /\ live = [orders |-> live.orders, levels |-> live.levels]
BY DEF TypeOK

(* A slot the index gives is in use and holds that id.                     *)
LEMMA IndexedSlot ==
    ASSUME TypeOK, Sound, NEW id \in Ids, index[id] # Null
    PROVE  /\ index[id] \in OrderSlots
           /\ freeOrders[index[id]] = 0
           /\ orders[index[id]].id = id
           /\ orders[index[id]].locate \in Locates
           /\ orders[index[id]].side \in Sides
           /\ instruments[orders[index[id]].locate] = "booked"
<1>1. index[id] \in OrderSlots
  BY DEF TypeOK
<1>2. EngineInv
  BY SoundIs
<1>3. orders[index[id]] \in OrderRecords
  BY <1>1 DEF TypeOK
<1>4. orders[index[id]].locate \in Locates /\ orders[index[id]].side \in Sides
  BY <1>3 DEF OrderRecords
<1> QED  BY <1>1, <1>2, <1>4 DEF EngineInv, IndexInv

(* A dropped message.                                                      *)
LEMMA RejectHandled ==
    ASSUME TypeOK, Sound, NEW c, Reject(c),
           \A m \in Locates : instruments[m] = "booked" => instruments'[m] = "booked"
    PROVE  Handled
<1>1. Heap' = Heap /\ index' = index /\ live' = live /\ orders' = orders
  BY DEF Reject, Heap
<1>2. Consistent(Heap, {}, index, instruments', live)
  BY BookedConsistent DEF Sound
<1>3. Sound'
  BY <1>1, <1>2 DEF Sound
<1>4. Stays(index, orders, index', orders')
  BY <1>1, TypesOf, StaysIf
<1> QED  BY <1>3, <1>4 DEF Handled

(* A free slot, as acquire returns it.                                     *)
LEMMA Acquired ==
    ASSUME TypeOK, NEW o \in Acquirable(freeOrders), o # Null
    PROVE  o \in OrderSlots /\ freeOrders[o] > 0
<1>1. freeOrders \in [OrderSlots -> Int]
  BY TypesOf
<1> QED  BY <1>1 DEF Acquirable

(* on_add_order.                                                           *)
LEMMA AddHandled ==
    ASSUME TypeOK, Sound, NEW l \in Locates, NEW id \in Ids, NEW s \in Sides,
           NEW q \in Quantities, NEW p \in Prices, OnAddOrder(l, id, s, q, p)
    PROVE  Handled
<1>1. \A m \in Locates : instruments[m] = "booked" => instruments'[m] = "booked"
  BY TypesOf DEF OnAddOrder
<1>2. ASSUME NEW c, Reject(c) PROVE Handled
  BY <1>1, <1>2, RejectHandled
<1>3. ASSUME ~Duplicate(id), NEW o \in Acquirable(freeOrders), o # Null,
             instruments' = [instruments EXCEPT ![l] = "booked"],
             NEW r \in BookAdd(NewOrder(TakeOrder(Heap, o), o, id, l, s, p, q), l, o),
             \/ /\ r.rc = 0
                /\ Abandon(r.heap, o)
                /\ UNCHANGED <<index, live>>
             \/ /\ r.rc # 0
                /\ Commit(r.heap)
                /\ index' = [index EXCEPT ![id] = o]
                /\ live' = [orders |-> live.orders + 1,
                            levels |-> live.levels + (IF r.rc = 2 THEN 1 ELSE 0)]
      PROVE  Handled
  <2>1. o \in OrderSlots /\ Heap.freeOrders[o] > 0 /\ Heap.orders = orders
    BY <1>3, Acquired DEF Heap
  <2>2. instruments'[l] = "booked" /\ index[id] = Null
    BY <1>3, TypesOf DEF Duplicate
  <2>3. Consistent(Heap, {}, index, instruments', live)
    BY <1>1, BookedConsistent DEF Sound
  <2>4. PICK g : g = TakeOrder(Heap, o)
    OBVIOUS
  <2>5. /\ Consistent(g, {} \cup {o}, index, instruments', live)
        /\ g.orders = Heap.orders
        /\ Held(Heap, {})[o] = 1
    BY <2>1, <2>3, <2>4, TakeConsistent
  <2>6. Consistent(g, {o}, index, instruments', live)
    <3>1. {} \cup {o} = {o}
      OBVIOUS
    <3> QED  BY <2>5, <3>1
  <2>7. PICK k : k = NewOrder(g, o, id, l, s, p, q)
    OBVIOUS
  <2>8. /\ Consistent(k, {o}, index, instruments', live)
        /\ k.orders[o].id = id /\ k.orders[o].locate = l
        /\ \A x \in OrderSlots : x # o => k.orders[x] = g.orders[x]
    BY <2>1, <2>6, <2>7, NewConsistent
  <2>9. r \in BookAdd(k, l, o)
    BY <1>3, <2>4, <2>7
  <2>15. PICK idx : idx = [index EXCEPT ![id] = o]
    OBVIOUS
  <2>10. /\ r.heap.orders = k.orders
         /\ r.rc = 0 => Consistent(r.heap, {o}, index, instruments', live)
         /\ r.rc # 0 => Consistent(r.heap, {}, idx, instruments', GaugesUp(live, r.rc))
    <3>1. Adds(k, {o}, {}, index, idx, instruments', l, o, id, r)
      BY <2>1, <2>2, <2>8, <2>9, <2>15 DEF Adds
    <3> QED  BY <2>8, <3>1, AddConsistent
  <2>11. {o} \ {o} = {}
    OBVIOUS
  <2>12. \A i \in Ids : index[i] # Null => index[i] \in OrderSlots /\ index[i] # o
    <3>1. TAKE i \in Ids
    <3>2. HAVE index[i] # Null
    <3>3. freeOrders[index[i]] = 0 /\ index[i] \in OrderSlots
      BY <3>2, IndexedSlot
    <3>4. freeOrders[o] # 0
      BY <1>3, Acquired, TypesOf
    <3> QED  BY <3>3, <3>4
  <2>13. CASE r.rc = 0
    <3>1. PICK f : f = ReleaseOrder(r.heap, o)
      OBVIOUS
    <3>2. /\ Consistent(f, {o} \ {o}, index, instruments', live)
          /\ \A x \in OrderSlots : x # o => f.orders[x] = r.heap.orders[x]
      BY <2>1, <2>10, <2>13, <3>1, ReleaseConsistent
    <3>3. Consistent(f, {}, index, instruments', live) /\ f \in Heaps
      BY <2>11, <3>2 DEF Consistent, HeapInv
    <3>4. Heap' = f /\ index' = index /\ live' = live /\ orders' = f.orders
      BY <1>3, <2>13, <3>1, <3>3, CommitIs DEF Abandon, Commit
    <3>5. Sound'
      BY <3>3, <3>4 DEF Sound
    <3>6. \A x \in OrderSlots : x # o => orders'[x] = orders[x]
      BY <2>1, <2>5, <2>8, <2>10, <3>2, <3>4
    <3>7. Stays(index, orders, index', orders')
      BY <2>12, <3>4, <3>6, TypesOf, StaysIf
    <3> QED  BY <3>5, <3>7 DEF Handled
  <2>14. CASE r.rc # 0
    <3>1. r.heap \in Heaps
      BY <2>10, <2>14 DEF Consistent, HeapInv
    <3>2. /\ Heap' = r.heap /\ index' = idx /\ orders' = r.heap.orders
          /\ live' = GaugesUp(live, r.rc)
      BY <1>3, <2>14, <2>15, <3>1, CommitIs DEF Commit, GaugesUp
    <3>3. Sound'
      BY <2>10, <2>14, <3>2 DEF Sound
    <3>4. \A x \in OrderSlots : x # o => orders'[x] = orders[x]
      BY <2>1, <2>5, <2>8, <2>10, <3>2
    <3>5. \A i \in Ids : index[i] # Null /\ index'[i] # Null =>
            index'[i] = index[i] /\ orders'[index[i]] = orders[index[i]]
      BY <2>2, <2>12, <2>15, <3>2, <3>4, TypesOf
    <3>6. Stays(index, orders, index', orders')
      BY <3>5, TypesOf, StaysIf
    <3> QED  BY <3>3, <3>6 DEF Handled
  <2> QED  BY <2>13, <2>14
<1> QED  BY <1>2, <1>3 DEF OnAddOrder

(* The tail of a handler that took order o out of its book.                *)
LEMMA RetireHandled ==
    ASSUME TypeOK, Sound, NEW id \in Ids, index[id] # Null, instruments' = instruments,
           NEW r, r.rc \in {1, 2}, Removed(Heap, {}, r, index[id]), Retire(r.heap, id, r.rc)
    PROVE  Handled
<1>1. PICK o : o = index[id]
  OBVIOUS
<1>2. o \in OrderSlots
  BY <1>1, IndexedSlot
<1>3. Removed(Heap, {}, r, o)
  BY <1>1
<1>4. PICK idx : idx = [index EXCEPT ![id] = Null]
  OBVIOUS
<1>5. PICK lv : lv = GaugesDown(live, r.rc)
  OBVIOUS
<1>7. Consistent(r.heap, {o}, idx, instruments, lv)
  <2>1. Consistent(Heap, {}, index, instruments, live)
    BY DEF Sound
  <2>2. Drops(Heap, {}, {o}, index, idx, o, id, r)
    BY <1>1, <1>2, <1>3, <1>4 DEF Drops
  <2>3. Consistent(r.heap, {o}, idx, instruments, GaugesDown(live, r.rc))
    BY <2>1, <2>2, RemoveConsistent
  <2> QED  BY <1>5, <2>3
<1>8. PICK f : f = ReleaseOrder(r.heap, o)
  OBVIOUS
<1>9. /\ Consistent(f, {o} \ {o}, idx, instruments, lv)
      /\ \A x \in OrderSlots : x # o => f.orders[x] = r.heap.orders[x]
  BY <1>2, <1>7, <1>8, ReleaseConsistent
<1>10. Consistent(f, {}, idx, instruments, lv)
  <2>1. {o} \ {o} = {}
    OBVIOUS
  <2> QED  BY <1>9, <2>1
<1>11. f \in Heaps
  BY <1>10 DEF Consistent, HeapInv
<1>12. Heap' = f /\ index' = idx /\ live' = lv /\ orders' = f.orders
  BY <1>1, <1>4, <1>5, <1>8, <1>11, CommitIs DEF Retire, Commit, GaugesDown
<1>13. Sound'
  BY <1>10, <1>12 DEF Sound
<1>14. \A x \in OrderSlots : x # o => orders'[x] = orders[x]
  BY <1>3, <1>9, <1>12 DEF Removed, Unlinked, Heap
<1>15. \A i \in Ids : index[i] # Null /\ index'[i] # Null =>
         index'[i] = index[i] /\ orders'[index[i]] = orders[index[i]]
  <2>1. TAKE i \in Ids
  <2>2. HAVE index[i] # Null /\ index'[i] # Null
  <2>3. i # id /\ index'[i] = index[i]
    BY <1>4, <1>12, <2>2, TypesOf
  <2>4. orders[index[i]].id = i /\ orders[o].id = id /\ index[i] \in OrderSlots
    BY <1>1, <2>2, IndexedSlot
  <2>5. index[i] # o
    BY <2>3, <2>4
  <2> QED  BY <1>14, <2>3, <2>4, <2>5
<1>16. Stays(index, orders, index', orders')
  BY <1>15, TypesOf, StaysIf
<1> QED  BY <1>13, <1>16 DEF Handled

(* on_order_executed, on_order_executed_with_price and on_order_cancel.    *)
LEMMA ReduceHandled ==
    ASSUME TypeOK, Sound, NEW c, NEW l \in Locates, NEW id \in Ids,
           NEW q \in Quantities, Reduce(c, l, id, q)
    PROVE  Handled
<1>1. instruments' = instruments
  BY DEF Reduce
<1>2. ASSUME NEW d, Reject(d) PROVE Handled
  BY <1>1, <1>2, RejectHandled
<1>3. ASSUME Known(id), NEW r, r = BookExecute(Heap, Home(id), index[id], q),
             \/ r.rc = 0 /\ Commit(r.heap) /\ UNCHANGED <<index, live>>
             \/ r.rc > 0 /\ Retire(r.heap, id, r.rc)
      PROVE  Handled
  <2>1. PICK o : o = index[id]
    OBVIOUS
  <2>2. index[id] # Null
    BY <1>3 DEF Known
  <2>3. /\ o \in OrderSlots /\ Heap.freeOrders[o] = 0 /\ Heap.orders = orders
        /\ Home(id) = Heap.orders[o].locate
    BY <2>1, <2>2, IndexedSlot DEF Heap, Home
  <2>4. PICK m : m = Heap.orders[o].locate
    OBVIOUS
  <2>5. r = BookExecute(Heap, m, o, q)
    BY <1>3, <2>1, <2>3, <2>4
  <2>6. HeapInv(Heap, {}) /\ o \notin {}
    BY DEF Sound, Consistent
  <2>7. /\ r.rc \in {-1, 0, 1, 2}
        /\ r.rc = 0 => Reduced(Heap, {}, r, o, q)
        /\ r.rc > 0 => Removed(Heap, {}, r, o)
    BY <2>3, <2>4, <2>5, <2>6, BookExecuteKeeps
  <2>8. CASE r.rc = 0
    <3>1. Consistent(r.heap, {}, index, instruments, live) /\ r.heap \in Heaps
      BY <2>3, <2>7, <2>8, ReduceConsistent, SMTT(30) DEF Sound, Consistent, HeapInv
    <3>2. Heap' = r.heap /\ index' = index /\ live' = live /\ orders' = r.heap.orders
      BY <1>3, <2>8, <3>1, CommitIs DEF Commit
    <3>3. Sound'
      BY <1>1, <3>1, <3>2 DEF Sound
    <3>4. /\ \A x \in OrderSlots : x # o => orders'[x] = orders[x]
          /\ orders'[o] = [orders[o] EXCEPT !.shares = orders[o].shares - q]
          /\ q < orders[o].shares
      BY <2>3, <2>7, <2>8, <3>2 DEF Reduced
    <3>5. ASSUME NEW x \in OrderSlots
          PROVE  /\ orders'[x] = [orders[x] EXCEPT !.shares = orders'[x].shares]
                 /\ orders'[x].shares <= orders[x].shares
      <4>1. orders[x] \in OrderRecords
        BY TypesOf
      <4>2. orders[x] = [orders[x] EXCEPT !.shares = orders[x].shares] /\ orders[x].shares \in Nat
        BY <4>1 DEF OrderRecords
      <4>3. CASE x # o
        BY <3>4, <4>2, <4>3
      <4>4. CASE x = o
        <5>1. orders'[x].shares = orders[x].shares - q
          BY <3>4, <4>1, <4>4 DEF OrderRecords
        <5>2. q \in Nat
          BY QuantitiesAreNat
        <5> QED  BY <3>4, <4>2, <4>4, <5>1, <5>2
      <4> QED  BY <4>3, <4>4
    <3>6. Stays(index, orders, index', orders')
      BY <3>2, <3>5, TypesOf DEF Stays
    <3> QED  BY <3>3, <3>6 DEF Handled
  <2>9. CASE r.rc > 0
    <3>1. r.rc \in {1, 2} /\ Retire(r.heap, id, r.rc)
      BY <1>3, <2>7, <2>9
    <3>2. Removed(Heap, {}, r, index[id])
      BY <2>1, <2>7, <2>9
    <3> QED  BY <1>1, <2>2, <3>1, <3>2, RetireHandled
  <2> QED  BY <1>3, <2>8, <2>9
<1> QED  BY <1>2, <1>3 DEF Reduce

(* on_order_delete.                                                        *)
LEMMA DeleteHandled ==
    ASSUME TypeOK, Sound, NEW l \in Locates, NEW id \in Ids, OnOrderDelete(l, id)
    PROVE  Handled
<1>1. instruments' = instruments
  BY DEF OnOrderDelete
<1>2. ASSUME NEW d, Reject(d) PROVE Handled
  BY <1>1, <1>2, RejectHandled
<1>3. ASSUME Known(id), NEW r, r = BookRemove(Heap, Home(id), index[id]),
             r.rc # 0, Retire(r.heap, id, r.rc)
      PROVE  Handled
  <2>1. PICK o : o = index[id]
    OBVIOUS
  <2>2. index[id] # Null
    BY <1>3 DEF Known
  <2>3. /\ o \in OrderSlots /\ Heap.freeOrders[o] = 0
        /\ Home(id) = Heap.orders[o].locate
    BY <2>1, <2>2, IndexedSlot DEF Heap, Home
  <2>4. PICK m : m = Heap.orders[o].locate
    OBVIOUS
  <2>5. r = BookRemove(Heap, m, o)
    BY <1>3, <2>1, <2>3, <2>4
  <2>6. HeapInv(Heap, {}) /\ o \notin {}
    BY DEF Sound, Consistent
  <2>7. r.rc \in {0, 1, 2} /\ (r.rc # 0 => Removed(Heap, {}, r, o))
    BY <2>3, <2>4, <2>5, <2>6, BookRemoveKeeps
  <2>8. r.rc \in {1, 2} /\ Removed(Heap, {}, r, index[id])
    BY <1>3, <2>1, <2>7
  <2> QED  BY <1>1, <1>3, <2>2, <2>8, RetireHandled
<1> QED  BY <1>2, <1>3 DEF OnOrderDelete

(* on_cross_trade.                                                         *)
LEMMA CrossHandled ==
    ASSUME TypeOK, Sound, NEW l \in Locates, NEW closing \in BOOLEAN,
           OnCrossTrade(l, closing)
    PROVE  /\ Handled
           /\ closing /\ instruments[l] = "booked" => Cleared(Heap, Heap', l)
           /\ closing /\ instruments[l] = "booked" => \A id \in Ids : index'[id] # Null =>
                index'[id] = index[id] /\ index[id] \in OrderSlots \ Rests(Heap, {}, l)
<1>1. instruments' = instruments
  BY DEF OnCrossTrade
<1>2. CASE ~closing \/ instruments[l] # "booked"
  <2>1. Reject({"cross_trades"})
    BY <1>2 DEF OnCrossTrade, Reject
  <2> QED  BY <1>1, <1>2, <2>1, RejectHandled
<1>3. CASE closing /\ instruments[l] = "booked"
  <2>1. PICK ids : ids = {orders[o].id : o \in OrdersOf(Heap, l)}
    OBVIOUS
  <2>2. PICK g : g = ClearBook(Heap, l)
    OBVIOUS
  <2>3. PICK idx : idx = [id \in Ids |-> IF id \in ids THEN Null ELSE index[id]]
    OBVIOUS
  <2>4. PICK lv : lv = GaugesCleared(live, Heap, l)
    OBVIOUS
  <2>5. Heap.orders = orders /\ Heap.book = book
    BY DEF Heap
  <2>6. Commit(g) /\ index' = idx /\ live' = lv
    BY <1>3, <2>1, <2>2, <2>3, <2>4, <2>5 DEF OnCrossTrade, ClearBook, GaugesCleared
  <2>7. IndexCleared(Heap, l, ids, index, idx)
    BY <2>1, <2>3, <2>5 DEF IndexCleared
  <2>8. /\ Consistent(g, {}, idx, instruments, lv)
        /\ Cleared(Heap, g, l)
        /\ \A id \in Ids : idx[id] # Null =>
              /\ idx[id] = index[id] /\ index[id] \in OrderSlots
              /\ index[id] \notin OrdersOf(Heap, l)
    BY <2>2, <2>4, <2>7, ClearConsistent DEF Sound
  <2>9. g \in Heaps
    BY <2>8 DEF Consistent, HeapInv
  <2>10. Heap' = g /\ orders' = g.orders
    BY <2>6, <2>9, CommitIs DEF Commit
  <2>11. Sound'
    BY <1>1, <2>6, <2>8, <2>10 DEF Sound
  <2>12. OrdersOf(Heap, l) = Rests(Heap, {}, l)
    BY OrdersOfIs DEF Sound, Consistent
  <2>13. \A id \in Ids : index'[id] # Null =>
           index'[id] = index[id] /\ index[id] \in OrderSlots \ Rests(Heap, {}, l)
    BY <2>6, <2>8, <2>12
  <2>14. \A o \in OrderSlots \ Rests(Heap, {}, l) : orders'[o] = orders[o]
    BY <2>5, <2>8, <2>10 DEF Cleared
  <2>15. Stays(index, orders, index', orders')
    BY <2>13, <2>14, TypesOf, StaysIf
  <2> QED  BY <2>8, <2>10, <2>11, <2>13, <2>15 DEF Handled
<1> QED  BY <1>2, <1>3

(* on_order_replace, once the old order is out of its book, with slot o in *)
(* hand.                                                                   *)
LEMMA SubstituteHandled ==
    ASSUME TypeOK, Sound, NEW old \in Ids, NEW id \in Ids, index[old] # Null,
           index[id] = Null, instruments' = instruments, NEW o \in OrderSlots,
           freeOrders[o] > 0, NEW q \in Quantities, NEW p \in Prices, NEW c,
           NEW r, r = BookRemove(TakeOrder(Heap, o), Home(old), index[old]), r.rc # 0,
           Substitute(r.heap, Home(old), old, id, o, orders[index[old]].side, q, p, r.rc, c)
    PROVE  Handled
<1>1. PICK x : x = index[old]
  OBVIOUS
<1>2. PICK l : l = Home(old)
  OBVIOUS
<1>3. PICK s : s = orders[x].side
  OBVIOUS
<1>4. /\ x \in OrderSlots /\ freeOrders[x] = 0 /\ l \in Locates /\ s \in Sides
      /\ l = orders[x].locate /\ instruments[l] = "booked" /\ x # o
  BY <1>1, <1>2, <1>3, IndexedSlot, TypesOf DEF Home
<1>5. Heap.freeOrders = freeOrders /\ Heap.orders = orders
  BY DEF Heap
<1>6. PICK g : g = TakeOrder(Heap, o)
  OBVIOUS
<1>7. /\ Consistent(g, {o}, index, instruments, live)
      /\ g.orders = orders /\ g.freeOrders[x] = 0
  <2>1. Consistent(Heap, {}, index, instruments, live) /\ Heap.freeOrders[o] > 0
    BY <1>5 DEF Sound
  <2>2. /\ Consistent(g, {} \cup {o}, index, instruments, live)
        /\ g.orders = Heap.orders
    BY <1>6, <2>1, TakeConsistent
  <2>3. {} \cup {o} = {o}
    OBVIOUS
  <2>4. g.freeOrders = [freeOrders EXCEPT ![o] = freeOrders[o] - 1]
    BY <1>6 DEF TakeOrder, Heap
  <2>5. g.freeOrders[x] = 0
    BY <1>4, <2>4, TypesOf
  <2> QED  BY <1>5, <2>2, <2>3, <2>5
<1>8. r.rc \in {1, 2} /\ Removed(g, {o}, r, x)
  <2>1. HeapInv(g, {o})
    BY <1>7 DEF Consistent
  <2>2. x \notin {o} /\ l = g.orders[x].locate /\ r = BookRemove(g, l, x)
    BY <1>1, <1>2, <1>4, <1>6, <1>7
  <2>3. r.rc \in {0, 1, 2} /\ (r.rc # 0 => Removed(g, {o}, r, x))
    BY <1>4, <1>7, <2>1, <2>2, BookRemoveKeeps
  <2> QED  BY <2>3
<1>9. PICK idx : idx = [index EXCEPT ![old] = Null]
  OBVIOUS
<1>10. PICK lv : lv = GaugesDown(live, r.rc)
  OBVIOUS
<1>11. Consistent(r.heap, {o, x}, idx, instruments, lv)
  <2>1. Drops(g, {o}, {o, x}, index, idx, x, old, r)
    BY <1>1, <1>4, <1>8, <1>9 DEF Drops
  <2> QED  BY <1>7, <1>10, <2>1, RemoveConsistent
<1>12. PICK f : f = ReleaseOrder(r.heap, x)
  OBVIOUS
<1>13. /\ Consistent(f, {o}, idx, instruments, lv)
       /\ \A y \in OrderSlots : y # x => f.orders[y] = r.heap.orders[y]
  <2>1. /\ Consistent(f, {o, x} \ {x}, idx, instruments, lv)
        /\ \A y \in OrderSlots : y # x => f.orders[y] = r.heap.orders[y]
    BY <1>4, <1>11, <1>12, ReleaseConsistent
  <2>2. {o, x} \ {x} = {o}
    BY <1>4
  <2> QED  BY <2>1, <2>2
<1>14. PICK k : k = NewOrder(f, o, id, l, s, p, q)
  OBVIOUS
<1>15. /\ Consistent(k, {o}, idx, instruments, lv)
       /\ k.orders[o].id = id /\ k.orders[o].locate = l
       /\ \A y \in OrderSlots : y # o => k.orders[y] = f.orders[y]
  BY <1>4, <1>13, <1>14, NewConsistent
<1>16. \A y \in OrderSlots : y # o /\ y # x => k.orders[y] = orders[y]
  BY <1>7, <1>8, <1>13, <1>15 DEF Removed, Unlinked
<1>17. PICK a \in BookAdd(k, l, o) :
         \/ /\ a.rc = 0
            /\ Abandon(a.heap, o)
            /\ index' = idx
            /\ live' = lv
         \/ /\ a.rc # 0
            /\ Commit(a.heap)
            /\ index' = [index EXCEPT ![old] = Null, ![id] = o]
            /\ live' = GaugesUp(lv, a.rc)
  <2>1. PICK a \in BookAdd(k, l, o) :
         \/ /\ a.rc = 0
            /\ Abandon(a.heap, o)
            /\ index' = [index EXCEPT ![old] = Null]
            /\ live' = [orders |-> Decrease(live.orders, 1),
                        levels |-> IF r.rc = 2 THEN Decrease(live.levels, 1) ELSE live.levels]
         \/ /\ a.rc # 0
            /\ Commit(a.heap)
            /\ index' = [index EXCEPT ![old] = Null, ![id] = o]
            /\ live' = [orders |-> Decrease(live.orders, 1) + 1,
                        levels |-> (IF r.rc = 2 THEN Decrease(live.levels, 1) ELSE live.levels)
                                       + (IF a.rc = 2 THEN 1 ELSE 0)]
    BY <1>1, <1>2, <1>3, <1>12, <1>14 DEF Substitute
  <2>2. /\ lv.orders = Decrease(live.orders, 1)
        /\ lv.levels = IF r.rc = 2 THEN Decrease(live.levels, 1) ELSE live.levels
        /\ lv = [orders |-> Decrease(live.orders, 1),
                 levels |-> IF r.rc = 2 THEN Decrease(live.levels, 1) ELSE live.levels]
    BY <1>10 DEF GaugesDown
  <2> QED  BY <1>9, <2>1, <2>2 DEF GaugesUp
<1>18. PICK idx2 : idx2 = [idx EXCEPT ![id] = o]
  OBVIOUS
<1>19. idx2 = [index EXCEPT ![old] = Null, ![id] = o] /\ idx[id] = Null
  BY <1>9, <1>18, TypesOf
<1>20. /\ a.heap.orders = k.orders
       /\ a.rc = 0 => Consistent(a.heap, {o}, idx, instruments, lv)
       /\ a.rc # 0 => Consistent(a.heap, {}, idx2, instruments, GaugesUp(lv, a.rc))
  <2>1. Adds(k, {o}, {}, idx, idx2, instruments, l, o, id, a)
    BY <1>4, <1>15, <1>17, <1>18, <1>19 DEF Adds
  <2> QED  BY <1>15, <2>1, AddConsistent
<1>21. \A i \in Ids : index[i] # Null /\ i # old =>
         index[i] \in OrderSlots /\ index[i] # o /\ index[i] # x
  <2>1. TAKE i \in Ids
  <2>2. HAVE index[i] # Null /\ i # old
  <2>3. index[i] \in OrderSlots /\ freeOrders[index[i]] = 0 /\ orders[index[i]].id = i
    BY <2>2, IndexedSlot
  <2>4. orders[x].id = old /\ freeOrders[o] # 0
    BY <1>1, IndexedSlot, TypesOf
  <2> QED  BY <2>2, <2>3, <2>4
<1>22. CASE a.rc = 0
  <2>1. PICK e : e = ReleaseOrder(a.heap, o)
    OBVIOUS
  <2>2. /\ Consistent(e, {o} \ {o}, idx, instruments, lv)
        /\ \A y \in OrderSlots : y # o => e.orders[y] = a.heap.orders[y]
    BY <1>20, <1>22, <2>1, ReleaseConsistent
  <2>3. Consistent(e, {}, idx, instruments, lv)
    <3>1. {o} \ {o} = {}
      OBVIOUS
    <3> QED  BY <2>2, <3>1
  <2>4. e \in Heaps
    BY <2>3 DEF Consistent, HeapInv
  <2>5. Heap' = e /\ index' = idx /\ live' = lv /\ orders' = e.orders
    BY <1>17, <1>22, <2>1, <2>4, CommitIs DEF Abandon, Commit
  <2>6. Sound'
    BY <2>3, <2>5 DEF Sound
  <2>7. \A y \in OrderSlots : y # o /\ y # x => orders'[y] = orders[y]
    BY <1>16, <1>20, <2>2, <2>5
  <2>8. \A i \in Ids : index[i] # Null /\ index'[i] # Null =>
          index'[i] = index[i] /\ orders'[index[i]] = orders[index[i]]
    BY <1>9, <1>21, <2>5, <2>7, TypesOf
  <2>9. Stays(index, orders, index', orders')
    BY <2>8, TypesOf, StaysIf
  <2> QED  BY <2>6, <2>9 DEF Handled
<1>23. CASE a.rc # 0
  <2>1. a.heap \in Heaps
    BY <1>20, <1>23 DEF Consistent, HeapInv
  <2>2. /\ Heap' = a.heap /\ index' = idx2 /\ live' = GaugesUp(lv, a.rc)
        /\ orders' = a.heap.orders
    BY <1>17, <1>19, <1>23, <2>1, CommitIs DEF Commit
  <2>3. Sound'
    BY <1>20, <1>23, <2>2 DEF Sound
  <2>4. \A y \in OrderSlots : y # o /\ y # x => orders'[y] = orders[y]
    BY <1>16, <1>20, <2>2
  <2>5. \A i \in Ids : index[i] # Null /\ index'[i] # Null =>
          index'[i] = index[i] /\ orders'[index[i]] = orders[index[i]]
    BY <1>9, <1>18, <1>21, <2>2, <2>4, TypesOf
  <2>6. Stays(index, orders, index', orders')
    BY <2>5, TypesOf, StaysIf
  <2> QED  BY <2>3, <2>6 DEF Handled
<1> QED  BY <1>22, <1>23

(* on_order_replace.                                                       *)
LEMMA ReplaceHandled ==
    ASSUME TypeOK, Sound, NEW l \in Locates, NEW old \in Ids, NEW id \in Ids,
           NEW q \in Quantities, NEW p \in Prices, OnOrderReplace(l, old, id, q, p)
    PROVE  Handled
<1>1. instruments' = instruments
  BY DEF OnOrderReplace
<1>2. ASSUME NEW d, Reject(d) PROVE Handled
  BY <1>1, <1>2, RejectHandled
<1>3. ASSUME index[old] # Null, ~Duplicate(id), NEW o \in Acquirable(freeOrders), o # Null,
             NEW r, r = BookRemove(TakeOrder(Heap, o), Home(old), index[old]), r.rc # 0,
             NEW c,
             Substitute(r.heap, Home(old), old, id, o, orders[index[old]].side, q, p, r.rc, c)
      PROVE  Handled
  <2>1. o \in OrderSlots /\ freeOrders[o] > 0 /\ index[id] = Null
    BY <1>3, Acquired DEF Duplicate
  <2> QED  BY <1>1, <1>3, <2>1, SubstituteHandled
<1> QED  BY <1>2, <1>3 DEF OnOrderReplace

-----------------------------------------------------------------------------
(* The invariant holds.                                                    *)

(* A new engine has no order anywhere.                                     *)
LEMMA InitSound == Init => EngineInv
<1> SUFFICES ASSUME Init PROVE EngineInv
  OBVIOUS
<1>1. TypeOK
  BY InitTyped
<1>2. /\ \A o \in OrderSlots : orders[o].id = Null /\ freeOrders[o] = 1
      /\ \A v \in LevelSlots : levels[v].queue = <<>> /\ freeLevels[v] = 1
      /\ \A l \in Locates : book[l] = EmptyBook
      /\ \A id \in Ids : index[id] = Null
      /\ live = [orders |-> 0, levels |-> 0]
  BY DEF Init, BlankOrder, BlankLevel
<1>3. PICK h : h = Heap
  OBVIOUS
<1>4. /\ h.orders = orders /\ h.freeOrders = freeOrders /\ h.levels = levels
      /\ h.freeLevels = freeLevels /\ h.book = book /\ h \in Heaps
  BY <1>1, <1>3, HeapType DEF Heap
<1>5. Range(<<>>) = {} /\ IsInjective(<<>>) /\ Len(<<>>) = 0
  BY DEF Range, IsInjective
<1>6. \A v \in LevelSlots : h.levels[v].queue = <<>> /\ QueueOf(h, v) = {}
  BY <1>2, <1>4, <1>5 DEF QueueOf
<1>7. /\ \A l \in Locates, s \in Sides :
            /\ h.book[l].list[s] = <<>> /\ ListOf(h, l, s) = {} /\ h.book[l].nLevels[s] = 0
            /\ \A p \in Prices : h.book[l].map[s][p] = Null
      /\ \A l \in Locates : h.book[l].nOrders = 0
  BY <1>2, <1>4, <1>5 DEF ListOf, EmptyBook
<1>8. FreeOrdersInv(h, {})
  BY <1>2, <1>4 DEF FreeOrdersInv
<1>9. QueuesInv(h, {})
  BY <1>2, <1>4, <1>5, <1>6 DEF QueuesInv
<1>10. ListsInv(h)
  BY <1>2, <1>4, <1>5, <1>6, <1>7 DEF ListsInv
<1>11. HomesInv(h)
  BY <1>7 DEF HomesInv
<1>12. MapsInv(h)
  BY <1>7 DEF MapsInv, MapFinds
<1>13. SortedInv(h)
  BY <1>7 DEF SortedInv, ListSorted
<1>14. CountsInv(h, {})
  <2>1. \A l \in Locates : Rests(h, {}, l) = {}
    BY <1>2, <1>4 DEF Rests
  <2> QED  BY <1>7, <2>1, FS_EmptySet DEF CountsInv
<1>15. HeapInv(h, {})
  BY <1>4, <1>8, <1>9, <1>10, <1>11, <1>12, <1>13, <1>14 DEF HeapInv
<1>16. TotalsInv(h)
  <2>1. \A v \in LevelSlots : h.levels[v].total = 0
    BY <1>4 DEF Init, BlankLevel
  <2> QED  BY <1>6, <2>1, SharesOfNone DEF TotalsInv
<1>17. IndexInv
  BY <1>2 DEF IndexInv
<1>18. GaugesInv
  <2>1. Used(freeOrders) = {} /\ Used(freeLevels) = {}
    BY DEF Init, Used
  <2> QED  BY <1>2, <2>1, FS_EmptySet DEF GaugesInv
<1> QED  BY <1>1, <1>3, <1>15, <1>17, <1>18, <1>16 DEF EngineInv

(* Every message is handled.                                               *)
LEMMA NextHandled ==
    ASSUME TypeOK, Sound, [Next]_vars
    PROVE  Handled
<1>1. ASSUME NEW c, Reject(c), UNCHANGED instruments PROVE Handled
  BY <1>1, RejectHandled
<1>2. CASE OnNonCrossTrade \/ OnBrokenTrade
  BY <1>1, <1>2 DEF OnNonCrossTrade, OnBrokenTrade
<1>3. ASSUME NEW l \in Locates, OnStockDirectory(l) PROVE Handled
  <2>1. \A m \in Locates : instruments[m] = "booked" => instruments'[m] = "booked"
    BY <1>3, TypesOf DEF OnStockDirectory
  <2>2. PICK c : Reject(c)
    BY <1>3 DEF OnStockDirectory
  <2> QED  BY <2>1, <2>2, RejectHandled
<1>4. ASSUME NEW l \in Locates, NEW closing \in BOOLEAN, OnCrossTrade(l, closing)
      PROVE  Handled
  BY <1>4, CrossHandled
<1>5. ASSUME NEW l \in Locates, NEW id \in Ids, OnOrderDelete(l, id) PROVE Handled
  BY <1>5, DeleteHandled
<1>6. ASSUME NEW l \in Locates, NEW id \in Ids, NEW q \in Quantities,
             \/ OnOrderExecuted(l, id, q)
             \/ OnOrderExecutedWithPrice(l, id, q)
             \/ OnOrderCancel(l, id, q)
      PROVE  Handled
  BY <1>6, ReduceHandled DEF OnOrderExecuted, OnOrderExecutedWithPrice, OnOrderCancel
<1>7. ASSUME NEW l \in Locates, NEW id \in Ids, NEW q \in Quantities, NEW p \in Prices,
             NEW s \in Sides, OnAddOrder(l, id, s, q, p)
      PROVE  Handled
  BY <1>7, AddHandled
<1>8. ASSUME NEW l \in Locates, NEW id \in Ids, NEW q \in Quantities, NEW p \in Prices,
             NEW new \in Ids, OnOrderReplace(l, id, new, q, p)
      PROVE  Handled
  BY <1>8, ReplaceHandled
<1>9. CASE UNCHANGED vars
  <2>1. Heap' = Heap /\ index' = index /\ live' = live /\ orders' = orders
        /\ instruments' = instruments
    BY <1>9 DEF vars, Heap
  <2>2. Stays(index, orders, index', orders')
    BY <2>1, TypesOf, StaysIf
  <2> QED  BY <2>1, <2>2 DEF Handled, Sound
<1> QED  BY <1>2, <1>3, <1>4, <1>5, <1>6, <1>7, <1>8, <1>9 DEF Next

(* Every message keeps the invariant.                                      *)
LEMMA NextSound == EngineInv /\ [Next]_vars => EngineInv'
<1>1. EngineInv /\ [Next]_vars => TypeOK' /\ Sound'
  BY SoundIs, NextTyped, NextHandled DEF Handled
<1>2. TypeOK' /\ Sound' => EngineInv'
  BY SoundIs, PTL
<1> QED  BY <1>1, <1>2

(* Pools, books, index and gauges agree after every message.               *)
THEOREM EngineConsistent == Spec => []EngineInv
BY InitSound, NextSound, PTL DEF Spec

-----------------------------------------------------------------------------
(* What follows from the invariant.                                        *)

(* The memory, as the invariant describes it.                              *)
LEMMA HeapIs ==
    ASSUME EngineInv
    PROVE  /\ HeapInv(Heap, {}) /\ Heap \in Heaps
           /\ Heap.orders = orders /\ Heap.freeOrders = freeOrders
           /\ Heap.levels = levels /\ Heap.freeLevels = freeLevels /\ Heap.book = book
           /\ \A v \in LevelSlots : QueueOf(Heap, v) = Range(levels[v].queue)
           /\ \A l \in Locates, s \in Sides : ListOf(Heap, l, s) = Range(book[l].list[s])
BY DEF EngineInv, HeapInv, Heap, QueueOf, ListOf

(* A place in a list without repetitions is within the size of the pool.   *)
LEMMA PlaceInRange ==
    ASSUME NEW S, IsFiniteSet(S), NEW seq \in Seq(S), IsInjective(seq),
           NEW i \in DOMAIN seq
    PROVE  i \in 1..Cardinality(S)
<1>1. IsFiniteSet(Range(seq)) /\ Cardinality(Range(seq)) = Len(seq)
  BY InjectiveLen
<1>2. Range(seq) \in SUBSET S
  BY RangeOfSeq
<1>3. Len(seq) <= Cardinality(S) /\ Cardinality(S) \in Nat
  BY <1>1, <1>2, FS_Subset, FS_CardinalityType
<1>4. i \in 1..Len(seq) /\ Len(seq) \in Nat
  BY LenProperties
<1> QED  BY <1>3, <1>4

(* Every order slot is free once or queued once and indexed once.          *)
LEMMA SlotsOfOrders == EngineInv => OrderSlotsAccounted
<1> SUFFICES ASSUME EngineInv, NEW o \in OrderSlots
             PROVE  /\ freeOrders[o] \in {0, 1}
                    /\ Cardinality(QueuePlaces(o)) = 1 - freeOrders[o]
                    /\ Cardinality({id \in Ids : index[id] = o}) = 1 - freeOrders[o]
  BY DEF OrderSlotsAccounted
<1>1. /\ HeapInv(Heap, {}) /\ Heap \in Heaps /\ Heap.freeOrders = freeOrders
      /\ Heap.levels = levels
  BY HeapIs
<1>2. \A v \in LevelSlots : QueueOf(Heap, v) = Range(levels[v].queue)
  BY HeapIs
<1>3. freeOrders[o] \in {0, 1}
  BY <1>1 DEF HeapInv, FreeOrdersInv
<1>4. \A v \in LevelSlots : /\ IsInjective(levels[v].queue)
                            /\ levels[v].queue \in Seq(OrderSlots)
  BY <1>1, PartsOf DEF HeapInv, QueuesInv
<1>5. \A v, w \in LevelSlots :
        o \in Range(levels[v].queue) /\ o \in Range(levels[w].queue) => v = w
  BY <1>1, <1>2 DEF HeapInv, QueuesInv
<1>6. (\E v \in LevelSlots : o \in Range(levels[v].queue)) <=> freeOrders[o] = 0
  BY <1>1, <1>2 DEF HeapInv, QueuesInv
<1>7. \A v \in LevelSlots : \A i \in DOMAIN levels[v].queue :
        levels[v].queue[i] = o => o \in Range(levels[v].queue)
  BY DEF Range
<1>8. CASE freeOrders[o] = 1
  <2>1. QueuePlaces(o) = {}
    BY <1>6, <1>7, <1>8 DEF QueuePlaces
  <2>2. {id \in Ids : index[id] = o} = {}
    BY <1>8, NullIsNoSlot DEF EngineInv, IndexInv
  <2>3. Cardinality({}) = 0
    BY FS_EmptySet
  <2> QED  BY <1>8, <2>1, <2>2, <2>3
<1>9. CASE freeOrders[o] = 0
  <2>1. PICK v \in LevelSlots : o \in Range(levels[v].queue)
    BY <1>6, <1>9
  <2>2. PICK i \in DOMAIN levels[v].queue : levels[v].queue[i] = o
    BY <2>1 DEF Range
  <2>3. i \in 1..Cardinality(OrderSlots)
    BY <1>4, PlaceInRange, PoolsAreFinite
  <2>4. QueuePlaces(o) = {<<v, i>>}
    <3>1. <<v, i>> \in QueuePlaces(o)
      BY <2>2, <2>3 DEF QueuePlaces
    <3>2. ASSUME NEW x \in QueuePlaces(o) PROVE x = <<v, i>>
      <4>1. PICK w \in LevelSlots, j \in 1..Cardinality(OrderSlots) : x = <<w, j>>
        BY DEF QueuePlaces
      <4>2. j \in DOMAIN levels[w].queue /\ levels[w].queue[j] = o
        BY <4>1 DEF QueuePlaces
      <4>3. w = v
        BY <1>5, <1>7, <2>1, <4>2
      <4>4. j = i
        BY <1>4, <2>2, <4>2, <4>3 DEF IsInjective
      <4> QED  BY <4>1, <4>3, <4>4
    <3> QED  BY <3>1, <3>2
  <2>5. {id \in Ids : index[id] = o} = {orders[o].id}
    BY <1>9, NullIsNoSlot DEF EngineInv, IndexInv
  <2>6. \A x : Cardinality({x}) = 1
    BY FS_Singleton
  <2>7. Cardinality(QueuePlaces(o)) = 1 /\ Cardinality({id \in Ids : index[id] = o}) = 1
    BY <2>4, <2>5, <2>6
  <2> QED  BY <1>9, <2>7
<1> QED  BY <1>3, <1>8, <1>9

(* Every level slot is free once or listed once.                           *)
LEMMA SlotsOfLevels == EngineInv => LevelSlotsAccounted
<1> SUFFICES ASSUME EngineInv, NEW v \in LevelSlots
             PROVE  /\ freeLevels[v] \in {0, 1}
                    /\ Cardinality(ListPlaces(v)) = 1 - freeLevels[v]
  BY DEF LevelSlotsAccounted
<1>1. HeapInv(Heap, {}) /\ Heap \in Heaps /\ Heap.freeLevels = freeLevels /\ Heap.book = book
  BY HeapIs
<1>2. \A l \in Locates, s \in Sides : ListOf(Heap, l, s) = Range(book[l].list[s])
  BY HeapIs
<1>3. freeLevels[v] \in {0, 1}
  BY <1>1 DEF HeapInv, ListsInv
<1>4. \A l \in Locates, s \in Sides : /\ IsInjective(book[l].list[s])
                                      /\ book[l].list[s] \in Seq(LevelSlots)
  BY <1>1, PartsOf DEF HeapInv, ListsInv
<1>5. freeLevels[v] = 0 <=> \E l \in Locates, s \in Sides : v \in Range(book[l].list[s])
  BY <1>1, <1>2 DEF HeapInv, ListsInv
<1>6. \A l \in Locates, s \in Sides : \A i \in DOMAIN book[l].list[s] :
        book[l].list[s][i] = v => v \in Range(book[l].list[s])
  BY DEF Range
<1>7. CASE freeLevels[v] = 1
  <2>1. ListPlaces(v) = {}
    <3>1. \A l \in Locates, s \in Sides : \A i \in DOMAIN book[l].list[s] :
            book[l].list[s][i] # v
      BY <1>5, <1>6, <1>7
    <3> QED  BY <3>1 DEF ListPlaces
  <2>2. Cardinality({}) = 0
    BY FS_EmptySet
  <2> QED  BY <1>7, <2>1, <2>2
<1>8. CASE freeLevels[v] = 0
  <2>1. PICK l \in Locates, s \in Sides : v \in Range(book[l].list[s])
    BY <1>5, <1>8
  <2>2. PICK i \in DOMAIN book[l].list[s] : book[l].list[s][i] = v
    BY <2>1 DEF Range
  <2>3. i \in 1..Cardinality(LevelSlots)
    BY <1>4, PlaceInRange, PoolsAreFinite
  <2>4. ListPlaces(v) = {<<l, s, i>>}
    <3>1. <<l, s, i>> \in ListPlaces(v)
      BY <2>2, <2>3 DEF ListPlaces
    <3>2. ASSUME NEW x \in ListPlaces(v) PROVE x = <<l, s, i>>
      <4>1. PICK m \in Locates, t \in Sides, j \in 1..Cardinality(LevelSlots) : x = <<m, t, j>>
        BY DEF ListPlaces
      <4>2. j \in DOMAIN book[m].list[t] /\ book[m].list[t][j] = v
        BY <4>1 DEF ListPlaces
      <4>3. v \in ListOf(Heap, l, s) /\ v \in ListOf(Heap, m, t)
        BY <1>2, <1>6, <2>1, <4>2
      <4>4. m = l /\ t = s
        BY <1>1, <4>3, OneList
      <4>5. j = i
        BY <1>4, <2>2, <4>2, <4>4 DEF IsInjective
      <4> QED  BY <4>1, <4>4, <4>5
    <3> QED  BY <3>1, <3>2
  <2>5. \A x : Cardinality({x}) = 1
    BY FS_Singleton
  <2>6. Cardinality(ListPlaces(v)) = 1
    BY <2>4, <2>5
  <2> QED  BY <1>8, <2>6
<1> QED  BY <1>3, <1>7, <1>8

(* What the index gives rests in its book.                                 *)
LEMMA IndexOfBook == EngineInv => IndexAgreesWithBook
<1> SUFFICES ASSUME EngineInv, NEW id \in Ids, index[id] # Null,
                    NEW o, o = index[id], NEW ord, ord = orders[o]
             PROVE  /\ ord.id = id
                    /\ instruments[ord.locate] = "booked"
                    /\ \E v \in Range(book[ord.locate].list[ord.side]) :
                          levels[v].price = ord.price /\ o \in Range(levels[v].queue)
  BY DEF IndexAgreesWithBook
<1>1. TypeOK /\ Sound
  BY SoundIs
<1>2. o \in OrderSlots /\ freeOrders[o] = 0 /\ ord.id = id /\ instruments[ord.locate] = "booked"
  BY <1>1, IndexedSlot
<1>3. PICK h : h = Heap
  OBVIOUS
<1>4. /\ HeapInv(h, {}) /\ h \in Heaps /\ h.orders = orders /\ h.freeOrders = freeOrders
      /\ h.levels = levels /\ h.book = book
  BY <1>3, HeapIs
<1>5. PICK v \in LevelSlots : o \in QueueOf(h, v)
  BY <1>2, <1>4 DEF HeapInv, QueuesInv
<1>6. h.levels[v].queue # <<>>
  BY <1>4, <1>5, PartsOf, NonemptyRange DEF QueueOf
<1>7. PICK m \in Locates, t \in Sides : v \in ListOf(h, m, t)
  BY <1>4, <1>6 DEF HeapInv, ListsInv
<1>8. ord.locate = m /\ ord.side = t /\ ord.price = levels[v].price
  BY <1>4, <1>5, <1>7 DEF HeapInv, HomesInv
<1>9. v \in Range(book[ord.locate].list[ord.side]) /\ o \in Range(levels[v].queue)
  BY <1>4, <1>5, <1>7, <1>8 DEF ListOf, QueueOf
<1> QED  BY <1>2, <1>8, <1>9

(* The lists are sorted and the maps find their levels.                    *)
LEMMA SortedBooks == EngineInv => BooksSorted
<1> SUFFICES ASSUME EngineInv, NEW l \in Locates, NEW s \in Sides,
                    NEW list, list = book[l].list[s]
             PROVE  /\ \A i, j \in DOMAIN list : i < j =>
                          Before(s, levels[list[i]].price, levels[list[j]].price)
                    /\ \A i \in DOMAIN list :
                          /\ levels[list[i]].queue # <<>>
                          /\ FindLevel(Heap, l, s, levels[list[i]].price) =
                                IF levels[list[i]].price = EmptyPrice THEN Null ELSE list[i]
                    /\ \A p \in Prices : book[l].map[s][p] # Null =>
                          book[l].map[s][p] \in Range(list)
  BY DEF BooksSorted, Before
<1>1. PICK h : h = Heap
  OBVIOUS
<1>2. HeapInv(h, {}) /\ h \in Heaps /\ h.levels = levels /\ h.book = book
  BY <1>1, HeapIs
<1>3. list \in Seq(LevelSlots) /\ ListOf(h, l, s) = Range(list)
  BY <1>2, PartsOf DEF ListOf
<1>4. \A i, j \in DOMAIN list : i < j =>
        Before(s, levels[list[i]].price, levels[list[j]].price)
  BY <1>2 DEF HeapInv, SortedInv, ListSorted
<1>5. MapFinds(h, l, s)
  BY <1>2 DEF HeapInv, MapsInv
<1>6. \A p \in Prices : book[l].map[s][p] # Null => book[l].map[s][p] \in Range(list)
  BY <1>2, <1>3, <1>5 DEF MapFinds
<1>7. ASSUME NEW i \in DOMAIN list, NEW v, v = list[i]
      PROVE  /\ levels[v].queue # <<>>
             /\ FindLevel(h, l, s, levels[v].price) =
                   IF levels[v].price = EmptyPrice THEN Null ELSE v
  <2>1. v \in ListOf(h, l, s) /\ v \in LevelSlots
    BY <1>2, <1>3, <1>7, PartsOf DEF Range
  <2>2. levels[v].queue # <<>>
    BY <1>2, <2>1 DEF HeapInv, ListsInv
  <2>3. levels[v].price # EmptyPrice => book[l].map[s][levels[v].price] = v
    BY <1>2, <1>5, <2>1 DEF MapFinds
  <2> QED  BY <1>2, <2>2, <2>3 DEF FindLevel
<1> QED  BY <1>1, <1>4, <1>6, <1>7

(* Gauges, books, index and pools count the same.                          *)
LEMMA GaugesOfPools == EngineInv => GaugesMatch
<1> SUFFICES ASSUME EngineInv PROVE GaugesMatch
  OBVIOUS
<1>1. TypeOK /\ IndexInv /\ GaugesInv
  BY DEF EngineInv
<1>2. PICK h : h = Heap
  OBVIOUS
<1>3. HeapInv(h, {}) /\ h \in Heaps /\ h.book = book
  BY <1>2, HeapIs
<1>4. PICK U : U = Used(freeOrders)
  OBVIOUS
<1>5. U = {o \in OrderSlots : freeOrders[o] = 0}
  BY <1>1, <1>4, TypesOf DEF Used
<1>6. IsFiniteSet(U) /\ live.orders = Cardinality(U)
  <2>1. U \in SUBSET OrderSlots
    BY <1>5
  <2> QED  BY <1>1, <1>4, <2>1, FS_Subset, PoolsAreFinite DEF GaugesInv
<1>7. ~LeakWarning
  BY <1>4, <1>6, FS_EmptySet DEF LeakWarning
<1>8. live.orders = Cardinality({id \in Ids : index[id] # Null})
  <2>1. PICK I : I = {id \in Ids : index[id] # Null}
    OBVIOUS
  <2>2. PICK f : f = [o \in U |-> orders[o].id]
    OBVIOUS
  <2>3. \A o \in U : o \in OrderSlots /\ orders[o].id \in Ids /\ index[orders[o].id] = o
    BY <1>1, <1>5 DEF IndexInv
  <2>4. f \in [U -> I]
    BY <2>1, <2>2, <2>3, NullIsNoSlot
  <2>5. IsInjective(f)
    BY <2>2, <2>3 DEF IsInjective
  <2>6. \A id \in I : \E o \in U : f[o] = id
    <3>1. TAKE id \in I
    <3>2. id \in Ids /\ index[id] # Null
      BY <2>1
    <3>3. index[id] \in U /\ orders[index[id]].id = id
      BY <1>1, <1>5, <3>2, TypesOf DEF IndexInv
    <3> QED  BY <2>2, <3>3
  <2>7. f \in Bijection(U, I)
    BY <2>4, <2>5, <2>6 DEF Bijection, Injection, Surjection
  <2>8. ExistsBijection(U, I)
    BY <2>7 DEF ExistsBijection
  <2>9. Cardinality(I) = Cardinality(U)
    BY <1>6, <2>8, FS_Bijection
  <2> QED  BY <1>6, <2>1, <2>9
<1>9. ASSUME NEW l \in Locates
      PROVE  /\ book[l].nOrders = Cardinality(OrdersOf(Heap, l))
             /\ \A s \in Sides : book[l].nLevels[s] = Len(book[l].list[s])
  <2>1. OrdersOf(h, l) = Rests(h, {}, l)
    BY <1>3, OrdersOfIs
  <2>2. book[l].nOrders = Cardinality(Rests(h, {}, l))
    BY <1>3 DEF HeapInv, CountsInv
  <2>3. \A s \in Sides : book[l].nLevels[s] = Len(book[l].list[s])
    BY <1>3 DEF HeapInv, ListsInv
  <2> QED  BY <1>2, <2>1, <2>2, <2>3
<1> QED  BY <1>1, <1>4, <1>6, <1>7, <1>8, <1>9 DEF GaugesMatch, GaugesInv

(* Level totals are those of the queues.                                   *)
LEMMA TotalsOfQueues == EngineInv => TotalsMatch
<1> SUFFICES ASSUME EngineInv, NEW v \in LevelSlots
             PROVE  levels[v].total = SharesOf(levels[v].queue)
  BY DEF TotalsMatch
<1>1. Heap.orders = orders /\ Heap.levels = levels
  BY HeapIs
<1>2. levels[v].total = SharesIn(orders, levels[v].queue)
  BY <1>1 DEF EngineInv, TotalsInv
<1> QED  BY <1>2 DEF SharesOf, SharesIn, Total

(* No message leaks an order slot, releases it twice or links it twice: at *)
(* every message boundary a slot of order_pool_ is on the free list once,  *)
(* or in one place of one queue and under one id of order_index_.          *)
THEOREM OrderSlotsSafe == Spec => []OrderSlotsAccounted
BY EngineConsistent, SlotsOfOrders, PTL

(* The same for the slots of level_pool_ and the lists of the books.       *)
THEOREM LevelSlotsSafe == Spec => []LevelSlotsAccounted
BY EngineConsistent, SlotsOfLevels, PTL

(* order_index_ never dangles and never misses the book its order is in.   *)
THEOREM IndexSafe == Spec => []IndexAgreesWithBook
BY EngineConsistent, IndexOfBook, PTL

(* add_order, execute_order, remove_order and clear_levels keep every list *)
(* of levels sorted and the level maps in step with the lists.             *)
THEOREM BooksSafe == Spec => []BooksSorted
BY EngineConsistent, SortedBooks, PTL

(* The end-of-day leak check cannot fire, and live_orders, live_levels and *)
(* the counts of the books are those of the pools.                         *)
THEOREM GaugesSafe == Spec => []GaugesMatch
BY EngineConsistent, GaugesOfPools, PTL

(* total_shares of a level, which best_bid_shares and best_ask_shares read, *)
(* is the sum of what its orders have left, after any sequence of adds,    *)
(* fills, cancels, replaces and crosses: it never drifts or goes negative. *)
THEOREM TotalsSafe == Spec => []TotalsMatch
BY EngineConsistent, TotalsOfQueues, PTL

(* No message moves a live order to another slot, changes its id, book,    *)
(* side or price, or gives it shares.                                      *)
THEOREM OrdersKept == Spec => OrdersStayPut
<1>1. ASSUME EngineInv, [Next]_vars
      PROVE  [\A id \in Ids : index[id] # Null /\ index'[id] # Null =>
                LET o == index[id]
                IN  /\ index'[id] = o
                    /\ orders'[o] = [orders[o] EXCEPT !.shares = orders'[o].shares]
                    /\ orders'[o].shares <= orders[o].shares]_vars
  <2>1. TypeOK /\ Sound
    BY <1>1, SoundIs
  <2>2. Stays(index, orders, index', orders')
    BY <1>1, <2>1, NextHandled DEF Handled
  <2> QED  BY <2>2 DEF Stays
<1> QED  BY <1>1, EngineConsistent, PTL DEF Spec, OrdersStayPut

(* The closing cross of an instrument reclaims every order of it, whether  *)
(* or not its level can be found, and leaves none of them in the index.    *)
THEOREM CrossReclaims == Spec => ClosingCrossReclaims
<1>1. ASSUME EngineInv, NEW l \in Locates, OnCrossTrade(l, TRUE)
      PROVE  /\ \A id \in Ids : index'[id] # Null => orders'[index'[id]].locate # l
             /\ \A o \in OrderSlots : orders[o].id # Null /\ orders[o].locate = l =>
                   freeOrders'[o] = freeOrders[o] + 1
  <2>1. TypeOK /\ Sound /\ IndexInv
    BY <1>1, SoundIs DEF EngineInv
  <2>2. /\ HeapInv(Heap, {}) /\ Heap.orders = orders /\ Heap.freeOrders = freeOrders
        /\ Heap'.orders = orders' /\ Heap'.freeOrders = freeOrders'
    BY <1>1, HeapIs DEF Heap
  <2>3. \A o \in OrderSlots : orders[o].id # Null => freeOrders[o] = 0
    BY <2>2 DEF HeapInv, FreeOrdersInv
  <2>4. CASE instruments[l] # "booked"
    <3>1. index' = index /\ orders' = orders
      BY <1>1, <2>4 DEF OnCrossTrade
    <3>2. \A o \in OrderSlots : orders[o].id # Null => orders[o].locate # l
      BY <2>1, <2>3, <2>4 DEF IndexInv
    <3>3. \A id \in Ids : index[id] # Null => orders[index[id]].locate # l
      BY <2>1, <2>4, IndexedSlot
    <3> QED  BY <3>1, <3>2, <3>3
  <2>5. CASE instruments[l] = "booked"
    <3>1. TRUE \in BOOLEAN
      OBVIOUS
    <3>2. /\ Cleared(Heap, Heap', l)
          /\ \A id \in Ids : index'[id] # Null =>
                index'[id] = index[id] /\ index[id] \in OrderSlots \ Rests(Heap, {}, l)
      BY <1>1, <2>1, <2>5, <3>1, CrossHandled
    <3>3. Rests(Heap, {}, l) =
            {o \in OrderSlots : freeOrders[o] = 0 /\ orders[o].locate = l}
      BY <2>2 DEF Rests
    <3>4. ASSUME NEW id \in Ids, index'[id] # Null PROVE orders'[index'[id]].locate # l
      <4>1. index'[id] = index[id] /\ index[id] \in OrderSlots \ Rests(Heap, {}, l)
        BY <3>2, <3>4
      <4>2. orders'[index[id]] = orders[index[id]]
        BY <2>2, <3>2, <4>1 DEF Cleared
      <4>3. freeOrders[index[id]] = 0
        BY <2>1, <3>4, <4>1, IndexedSlot
      <4> QED  BY <3>3, <4>1, <4>2, <4>3
    <3>5. ASSUME NEW o \in OrderSlots, orders[o].id # Null, orders[o].locate = l
          PROVE  freeOrders'[o] = freeOrders[o] + 1
      <4>1. freeOrders[o] = 0 /\ o \in Rests(Heap, {}, l)
        BY <2>3, <3>3, <3>5
      <4>2. freeOrders'[o] = 1
        BY <2>2, <3>2, <4>1 DEF Cleared
      <4> QED  BY <4>1, <4>2
    <3> QED  BY <3>4, <3>5
  <2> QED  BY <2>4, <2>5
<1>2. ASSUME EngineInv
      PROVE  [\A l \in Locates : OnCrossTrade(l, TRUE) =>
                /\ \A id \in Ids : index'[id] # Null => orders'[index'[id]].locate # l
                /\ \A o \in OrderSlots : orders[o].id # Null /\ orders[o].locate = l =>
                      freeOrders'[o] = freeOrders[o] + 1]_vars
  BY <1>1, <1>2
<1> QED  BY <1>2, EngineConsistent, PTL DEF ClosingCrossReclaims

-----------------------------------------------------------------------------
(* The market a heap shows.                                                *)

Seen == Prices \ {EmptyPrice}

Shown(ord) == [id |-> ord.id, shares |-> ord.shares]

(* The queue at a price: what the level the map finds there holds.         *)
QueueAt(h, l, s, p) ==
    IF h.book[l].map[s][p] = Null THEN <<>>
    ELSE [i \in DOMAIN h.levels[h.book[l].map[s][p]].queue |->
            Shown(h.orders[h.levels[h.book[l].map[s][p]].queue[i]])]

View(h) == [l \in Locates |-> [s \in Sides |-> [p \in Seen |-> QueueAt(h, l, s, p)]]]

(* A market with queue x at one place.                                     *)
With(market, l, s, p, x) == [market EXCEPT ![l][s] = [@ EXCEPT ![p] = x]]

(* The mapped state is the view of the memory.                             *)
LEMMA MarketIs == Market = View(Heap) /\ Market' = View(Heap')
<1>1. /\ Heap.levels = levels /\ Heap.orders = orders
      /\ Heap'.levels = levels' /\ Heap'.orders = orders'
  BY DEF Heap
<1>2. ASSUME NEW l \in Locates, NEW s \in Sides, NEW p \in Seen
      PROVE  (LET v == FindLevel(Heap, l, s, p)
              IN  IF v = Null THEN <<>>
                  ELSE [i \in DOMAIN levels[v].queue |->
                          [id |-> orders[levels[v].queue[i]].id,
                           shares |-> orders[levels[v].queue[i]].shares]])
                = QueueAt(Heap, l, s, p)
  <2>1. FindLevel(Heap, l, s, p) = Heap.book[l].map[s][p]
    BY DEF FindLevel, Seen
  <2> QED  BY <1>1, <2>1 DEF QueueAt, Shown
<1>3. ASSUME NEW l \in Locates, NEW s \in Sides, NEW p \in Seen
      PROVE  (LET v == FindLevel(Heap, l, s, p)
              IN  IF v = Null THEN <<>>
                  ELSE [i \in DOMAIN levels[v].queue |->
                          [id |-> orders[levels[v].queue[i]].id,
                           shares |-> orders[levels[v].queue[i]].shares]])'
                = QueueAt(Heap', l, s, p)
  <2>1. FindLevel(Heap, l, s, p)' = Heap'.book[l].map[s][p]
    BY DEF FindLevel, Seen
  <2> QED  BY <1>1, <2>1 DEF QueueAt, Shown
<1>4. Market = View(Heap)
  BY <1>2 DEF Market, View, Seen
<1>5. Market' = View(Heap')
  BY <1>3 DEF Market, View, Seen
<1> QED  BY <1>4, <1>5

(* Elsewhere than at price p of side s of book l the maps lead to the same *)
(* levels, none of them v.                                                 *)
Aside(h, g, l, s, p, v) ==
    \A m \in Locates, t \in Sides, x \in Seen : m # l \/ t # s \/ x # p =>
        /\ g.book[m].map[t][x] = h.book[m].map[t][x]
        /\ h.book[m].map[t][x] # v

(* But for level v and order o, which is in no other level, nothing shows. *)
Kept(h, g, v, o) ==
    /\ \A w \in LevelSlots : w # v =>
          g.levels[w].queue = h.levels[w].queue /\ o \notin QueueOf(h, w)
    /\ \A x \in OrderSlots : x # o => Shown(g.orders[x]) = Shown(h.orders[x])

(* A queue that does not show a change.                                    *)
LEMMA QueueSame ==
    ASSUME NEW h \in Heaps, NEW g, NEW v, NEW o, Kept(h, g, v, o),
           NEW m \in Locates, NEW t \in Sides, NEW x \in Prices,
           g.book[m].map[t][x] = h.book[m].map[t][x],
           h.book[m].map[t][x] # v
    PROVE  QueueAt(g, m, t, x) = QueueAt(h, m, t, x)
<1>1. PICK w : w = h.book[m].map[t][x]
  OBVIOUS
<1>2. w \in LevelSlots \cup {Null}
  BY <1>1, PartsOf
<1>3. CASE w = Null
  BY <1>1, <1>3 DEF QueueAt
<1>4. CASE w # Null
  <2>1. w \in LevelSlots /\ w # v
    BY <1>1, <1>2, <1>4
  <2>2. PICK queue : queue = h.levels[w].queue
    OBVIOUS
  <2>3. g.levels[w].queue = queue /\ o \notin Range(queue) /\ queue \in Seq(OrderSlots)
    BY <2>1, <2>2, PartsOf DEF Kept, QueueOf
  <2>4. \A i \in DOMAIN queue : queue[i] \in OrderSlots /\ queue[i] # o
    BY <2>3, RangeOfSeq DEF Range
  <2>5. \A i \in DOMAIN queue : Shown(g.orders[queue[i]]) = Shown(h.orders[queue[i]])
    BY <2>4 DEF Kept
  <2>6. QueueAt(g, m, t, x) = [i \in DOMAIN queue |-> Shown(g.orders[queue[i]])]
    BY <1>1, <1>4, <2>3 DEF QueueAt
  <2>7. QueueAt(h, m, t, x) = [i \in DOMAIN queue |-> Shown(h.orders[queue[i]])]
    BY <1>1, <1>4, <2>2 DEF QueueAt
  <2> QED  BY <2>5, <2>6, <2>7
<1> QED  BY <1>3, <1>4

(* One queue changes.                                                      *)
LEMMA ViewChanges ==
    ASSUME NEW h \in Heaps, NEW g, NEW l \in Locates, NEW s \in Sides, NEW p \in Prices,
           NEW v, NEW o, Kept(h, g, v, o), Aside(h, g, l, s, p, v)
    PROVE  /\ p = EmptyPrice => View(g) = View(h)
           /\ p # EmptyPrice => View(g) = With(View(h), l, s, p, QueueAt(g, l, s, p))
<1>1. \A m \in Locates, t \in Sides, x \in Seen : m # l \/ t # s \/ x # p =>
        QueueAt(g, m, t, x) = QueueAt(h, m, t, x)
  BY QueueSame DEF Aside, Seen
<1>2. CASE p = EmptyPrice
  <2>1. \A m \in Locates, t \in Sides, x \in Seen :
          QueueAt(g, m, t, x) = QueueAt(h, m, t, x)
    BY <1>1, <1>2 DEF Seen
  <2> QED  BY <1>2, <2>1 DEF View
<1>3. CASE p # EmptyPrice
  <2>1. p \in Seen
    BY <1>3 DEF Seen
  <2>2. View(g) = With(View(h), l, s, p, QueueAt(g, l, s, p))
    <3>1. PICK side : side = [View(h)[l][s] EXCEPT ![p] = QueueAt(g, l, s, p)]
      OBVIOUS
    <3>2. side = [x \in Seen |-> QueueAt(g, l, s, x)]
      BY <1>1, <2>1, <3>1 DEF View
    <3>3. PICK sides : sides = [View(h)[l] EXCEPT ![s] = side]
      OBVIOUS
    <3>4. sides = [t \in Sides |-> [x \in Seen |-> QueueAt(g, l, t, x)]]
      BY <1>1, <3>2, <3>3 DEF View
    <3>5. View(g) = [View(h) EXCEPT ![l] = sides]
      BY <1>1, <3>4 DEF View
    <3> QED  BY <3>1, <3>3, <3>5 DEF With
  <2> QED  BY <1>3, <2>2
<1> QED  BY <1>2, <1>3

(* A slot that no queue holds does not show.                               *)
LEMMA ViewSame ==
    ASSUME NEW h \in Heaps, NEW g, NEW o, g.book = h.book, g.levels = h.levels,
           \A v \in LevelSlots : o \notin QueueOf(h, v),
           \A x \in OrderSlots : x # o => g.orders[x] = h.orders[x]
    PROVE  View(g) = View(h)
<1>1. PICK v : v \notin LevelSlots \cup {Null}
  BY NoSetContainsEverything
<1>2. Kept(h, g, v, o)
  BY DEF Kept
<1>3. \A m \in Locates, t \in Sides, x \in Prices : h.book[m].map[t][x] # v
  BY <1>1, PartsOf
<1>4. \A m \in Locates, t \in Sides, x \in Seen : QueueAt(g, m, t, x) = QueueAt(h, m, t, x)
  BY <1>2, <1>3, QueueSame DEF Seen
<1> QED  BY <1>4 DEF View

Shows(h) == [x \in OrderSlots |-> Shown(h.orders[x])]

(* The queue at a price, by the level found there.                         *)
LEMMA QueueAtIs ==
    ASSUME NEW h \in Heaps, NEW l, NEW s, NEW p, NEW v \in LevelSlots,
           h.book[l].map[s][p] = v
    PROVE  QueueAt(h, l, s, p) = Mapped(h.levels[v].queue, Shows(h))
<1>1. v # Null
  BY NullIsNoSlot
<1>2. PICK queue : queue = h.levels[v].queue
  OBVIOUS
<1>3. \A i \in DOMAIN queue : queue[i] \in OrderSlots
  BY <1>2, PartsOf, RangeOfSeq DEF Range
<1>4. \A i \in DOMAIN queue : Shows(h)[queue[i]] = Shown(h.orders[queue[i]])
  BY <1>3 DEF Shows
<1>5. QueueAt(h, l, s, p) = [i \in DOMAIN queue |-> Shown(h.orders[queue[i]])]
  BY <1>1, <1>2 DEF QueueAt
<1> QED  BY <1>2, <1>4, <1>5 DEF Mapped

(* A level is found at one price of one side of one book.                  *)
LEMMA FoundOnce ==
    ASSUME NEW h, NEW D, HeapInv(h, D), NEW l \in Locates, NEW s \in Sides,
           NEW p \in Prices, NEW v, v = h.book[l].map[s][p], v # Null
    PROVE  /\ v \in LevelSlots /\ v \in ListOf(h, l, s) /\ h.levels[v].price = p
           /\ p # EmptyPrice
           /\ \A m \in Locates, t \in Sides, x \in Seen :
                 m # l \/ t # s \/ x # p => h.book[m].map[t][x] # v
<1>1. h \in Heaps
  BY DEF HeapInv
<1>2. p # EmptyPrice /\ v \in ListOf(h, l, s) /\ h.levels[v].price = p
  BY SMTT(30) DEF HeapInv, MapsInv, MapFinds
<1>3. v \in LevelSlots
  BY <1>1, <1>2, PartsOf
<1>4. ASSUME NEW m \in Locates, NEW t \in Sides, NEW x \in Seen, h.book[m].map[t][x] = v
      PROVE  m = l /\ t = s /\ x = p
  <2>1. x \in Prices
    BY DEF Seen
  <2>2. v \in ListOf(h, m, t) /\ h.levels[v].price = x
    BY <1>4, <2>1, SMTT(90) DEF HeapInv, MapsInv, MapFinds
  <2> QED  BY <1>2, <2>2, OneList
<1> QED  BY <1>2, <1>3, <1>4

(* What shows once order o has joined the queue at its price.              *)
Joined(h, g, l, s, p, o) ==
    /\ p = EmptyPrice => View(g) = View(h)
    /\ p # EmptyPrice => View(g) =
          With(View(h), l, s, p, Append(QueueAt(h, l, s, p), Shown(h.orders[o])))

(* What shows once order o has left the queue at its price.                *)
Left(h, g, l, s, p, o) ==
    View(g) = With(View(h), l, s, p, Unlink(QueueAt(h, l, s, p), Shown(h.orders[o])))

(* push_back shows at the back of the queue.                               *)
LEMMA PushBackShows ==
    ASSUME NEW h, NEW D, HeapInv(h, D), NEW l \in Locates, NEW s \in Sides,
           NEW p \in Prices, NEW o \in OrderSlots, o \in D,
           NEW v \in LevelSlots, h.book[l].map[s][p] = v, NEW g, g = PushBack(h, l, v, o)
    PROVE  Joined(h, g, l, s, p, o)
<1>1. h \in Heaps
  BY DEF HeapInv
<1>2. /\ p # EmptyPrice
      /\ \A m \in Locates, t \in Sides, x \in Seen :
            m # l \/ t # s \/ x # p => h.book[m].map[t][x] # v
  BY FoundOnce, NullIsNoSlot
<1>3. /\ g \in Heaps /\ g.orders = h.orders
      /\ g.levels[v].queue = Append(h.levels[v].queue, o)
      /\ \A w \in LevelSlots : w # v => g.levels[w] = h.levels[w]
      /\ \A m \in Locates : g.book[m].map = h.book[m].map
  BY <1>1, PushBackIs
<1>4. Kept(h, g, v, o)
  BY <1>3, InHand DEF Kept
<1>5. Aside(h, g, l, s, p, v)
  BY <1>2, <1>3 DEF Aside
<1>6. QueueAt(g, l, s, p) = Append(QueueAt(h, l, s, p), Shown(h.orders[o]))
  <2>1. PICK f : f = Shows(h)
    OBVIOUS
  <2>2. Shows(g) = f /\ f[o] = Shown(h.orders[o])
    BY <1>3, <2>1 DEF Shows
  <2>3. PICK queue : queue = h.levels[v].queue
    OBVIOUS
  <2>4. queue \in Seq(OrderSlots)
    BY <1>1, <1>2, <2>3, PartsOf
  <2>5. QueueAt(h, l, s, p) = Mapped(queue, f)
    BY <1>1, <1>2, <2>1, <2>3, QueueAtIs
  <2>6. QueueAt(g, l, s, p) = Mapped(Append(queue, o), f)
    <3>1. g.book[l].map[s][p] = v /\ g \in Heaps
      BY <1>3
    <3>2. QueueAt(g, l, s, p) = Mapped(g.levels[v].queue, Shows(g))
      BY <3>1, QueueAtIs
    <3> QED  BY <1>3, <2>2, <2>3, <3>2
  <2> QED  BY <2>2, <2>4, <2>5, <2>6, MappedAppend
<1>7. View(g) = With(View(h), l, s, p, QueueAt(g, l, s, p))
  BY <1>1, <1>2, <1>4, <1>5, ViewChanges
<1> QED  BY <1>2, <1>6, <1>7 DEF Joined

(* A new level shows as a queue of one, unless it is at kEmptyPrice.       *)
LEMMA OpenShows ==
    ASSUME NEW h, NEW D, HeapInv(h, D), NEW l \in Locates, NEW s \in Sides,
           NEW p \in Prices, NEW o \in OrderSlots, o \in D, NEW v \in LevelSlots,
           h.freeLevels[v] > 0, FindLevel(h, l, s, p) = Null,
           NEW g, g = PushBack(OpenLevel(h, l, s, p, v), l, v, o)
    PROVE  Joined(h, g, l, s, p, o)
<1>1. h \in Heaps
  BY DEF HeapInv
<1>2. PICK k : k = OpenLevel(h, l, s, p, v)
  OBVIOUS
<1>3. k \in Heaps /\ Opened(h, k, l, s, p, v)
  BY <1>1, <1>2, OpenLevelIs
<1>4. /\ g \in Heaps /\ g.orders = k.orders
      /\ g.levels[v].queue = Append(k.levels[v].queue, o)
      /\ \A w \in LevelSlots : w # v => g.levels[w] = k.levels[w]
      /\ \A m \in Locates : g.book[m].map = k.book[m].map
  BY <1>2, <1>3, PushBackIs, SMTT(30)
<1>5. /\ g.orders = h.orders /\ g.levels[v].queue = Append(<<>>, o)
      /\ \A w \in LevelSlots : w # v => g.levels[w] = h.levels[w]
      /\ \A m \in Locates : m # l => g.book[m].map = h.book[m].map
      /\ g.book[l].map = [h.book[l].map EXCEPT ![s] = MapSet(h.book[l].map[s], p, v)]
  <2>1. k.levels[v].queue = <<>>
    BY <1>3 DEF Opened
  <2> QED  BY <1>3, <1>4, <2>1 DEF Opened
<1>6. Kept(h, g, v, o)
  BY <1>5, InHand DEF Kept
<1>7. \A m \in Locates, t \in Sides, x \in Prices : h.book[m].map[t][x] # v
  <2>1. ASSUME NEW m \in Locates, NEW t \in Sides, NEW x \in Prices, h.book[m].map[t][x] = v
        PROVE  FALSE
    <3>1. v \in ListOf(h, m, t)
      BY <2>1, NullIsNoSlot, FoundOnce
    <3> QED  BY <3>1 DEF HeapInv, ListsInv
  <2> QED  BY <2>1
<1>8. /\ g.book[l].map[s] = MapSet(h.book[l].map[s], p, v)
      /\ \A t \in Sides : t # s => g.book[l].map[t] = h.book[l].map[t]
  <2>1. DOMAIN h.book[l].map = Sides
    BY <1>1, HeapParts DEF BookRecords
  <2> QED  BY <1>5, <2>1
<1>9. \A x \in Prices : g.book[l].map[s][x] =
        IF x = p /\ p # EmptyPrice THEN v ELSE h.book[l].map[s][x]
  BY <1>1, <1>8, PartsOf, MapSetIs
<1>10. Aside(h, g, l, s, p, v)
  <2>1. \A m \in Locates, t \in Sides, x \in Prices : m # l \/ t # s \/ x # p =>
          g.book[m].map[t][x] = h.book[m].map[t][x]
    <3>1. \A m \in Locates : m # l => g.book[m].map = h.book[m].map
      BY <1>5
    <3> QED  BY <1>8, <1>9, <3>1
  <2> QED  BY <1>7, <2>1 DEF Aside, Seen
<1>11. ASSUME p # EmptyPrice
       PROVE  QueueAt(g, l, s, p) = Append(QueueAt(h, l, s, p), Shown(h.orders[o]))
  <2>1. QueueAt(h, l, s, p) = <<>>
    BY <1>11 DEF FindLevel, QueueAt
  <2>2. PICK f : f = Shows(g)
    OBVIOUS
  <2>3. f[o] = Shown(h.orders[o])
    BY <1>5, <2>2 DEF Shows
  <2>4. QueueAt(g, l, s, p) = Mapped(Append(<<>>, o), f)
    <3>1. g.book[l].map[s][p] = v /\ g \in Heaps
      BY <1>4, <1>9, <1>11
    <3>2. QueueAt(g, l, s, p) = Mapped(g.levels[v].queue, Shows(g))
      BY <3>1, QueueAtIs
    <3> QED  BY <1>5, <2>2, <3>2
  <2>5. PICK e : e = <<>>
    OBVIOUS
  <2>6. e \in Seq(OrderSlots) /\ Mapped(e, f) = e
    BY <2>5 DEF Mapped
  <2>7. Mapped(Append(e, o), f) = Append(e, f[o])
    BY <2>6, MappedAppend
  <2> QED  BY <2>1, <2>3, <2>4, <2>5, <2>7
<1>12. /\ p = EmptyPrice => View(g) = View(h)
       /\ p # EmptyPrice => View(g) = With(View(h), l, s, p, QueueAt(g, l, s, p))
  BY <1>1, <1>6, <1>10, ViewChanges
<1> QED  BY <1>11, <1>12 DEF Joined

(* add_order shows as an order at the back of its queue.                   *)
LEMMA BookAddShows ==
    ASSUME NEW h, NEW D, HeapInv(h, D), NEW l \in Locates, NEW o \in OrderSlots, o \in D,
           NEW r \in BookAdd(h, l, o), NEW s, s = h.orders[o].side,
           NEW p, p = h.orders[o].price
    PROVE  /\ r.rc = 0 => r.heap = h
           /\ r.rc # 0 => Joined(h, r.heap, l, s, p, o)
<1>1. PICK found : found = FindLevel(h, l, s, p)
  OBVIOUS
<1>2. h \in Heaps /\ s \in Sides /\ p \in Prices
  BY OrderParts DEF HeapInv
<1>3. CASE found # Null
  <2>1. r = [rc |-> 1, heap |-> PushBack(h, l, found, o)]
    BY <1>1, <1>3 DEF BookAdd
  <2>2. found = h.book[l].map[s][p]
    BY <1>1, <1>3 DEF FindLevel
  <2>3. Joined(h, r.heap, l, s, p, o)
    <3>1. found \in LevelSlots
      <4>1. h.book[l].map[s] \in [Prices -> LevelSlots \cup {Null}]
        BY <1>2, PartsOf
      <4> QED  BY <1>2, <1>3, <2>2, <4>1
    <3> QED  BY <1>2, <2>1, <2>2, <3>1, PushBackShows
  <2> QED  BY <2>1, <2>3
<1>4. CASE found = Null
  <2>1. PICK v \in Acquirable(h.freeLevels) :
          r = IF v = Null THEN [rc |-> 0, heap |-> h]
              ELSE [rc |-> 2, heap |-> PushBack(OpenLevel(h, l, s, p, v), l, v, o)]
    BY <1>1, <1>4 DEF BookAdd
  <2>2. CASE v = Null
    BY <2>1, <2>2
  <2>3. CASE v # Null
    <3>1. v \in LevelSlots /\ h.freeLevels[v] > 0
      <4>1. DOMAIN h.freeLevels = LevelSlots
        BY <1>2, HeapParts
      <4> QED  BY <2>3, <4>1 DEF Acquirable
    <3>2. r.rc = 2 /\ r.heap = PushBack(OpenLevel(h, l, s, p, v), l, v, o)
      BY <2>1, <2>3
    <3>3. FindLevel(h, l, s, p) = Null
      BY <1>1, <1>4
    <3>4. Joined(h, r.heap, l, s, p, o)
      BY <1>2, <3>1, <3>2, <3>3, OpenShows
    <3> QED  BY <3>2, <3>4
  <2> QED  BY <2>2, <2>3
<1> QED  BY <1>3, <1>4

(* No two orders that rest have the same id.                               *)
IdsDiffer(h) ==
    \A v \in LevelSlots : \A x, y \in QueueOf(h, v) : h.orders[x].id = h.orders[y].id => x = y

(* Heap h is heap b with order o and the totals changed.                   *)
Like(b, h, o) ==
    /\ h.book = b.book
    /\ \A w \in LevelSlots : /\ h.levels[w].queue = b.levels[w].queue
                             /\ h.levels[w].price = b.levels[w].price
    /\ \A x \in OrderSlots : x # o => h.orders[x] = b.orders[x]

(* Detach, read off: level v has lost order o, or is gone.                 *)
Detached(h, g, l, s, v, o) ==
    /\ g \in Heaps /\ g.orders = h.orders
    /\ g.levels[v].queue = Unlink(h.levels[v].queue, o)
    /\ \A w \in LevelSlots : w # v => g.levels[w] = h.levels[w]
    /\ \A m \in Locates : m # l => g.book[m].map = h.book[m].map
    /\ \A t \in Sides : t # s => g.book[l].map[t] = h.book[l].map[t]
    /\ \/ g.book[l].map[s] = h.book[l].map[s]
       \/ /\ g.book[l].map[s] = MapSet(h.book[l].map[s], h.levels[v].price, Null)
          /\ Unlink(h.levels[v].queue, o) = <<>>

(* Detach does that.                                                       *)
LEMMA DetachIs ==
    ASSUME NEW h \in Heaps, NEW l \in Locates, NEW v \in LevelSlots,
           NEW o \in QueueOf(h, v), NEW s \in Sides, h.orders[o].side = s,
           NEW r, r = Detach(h, l, v, o)
    PROVE  Detached(h, r.heap, l, s, v, o)
<1>1. PICK queue : queue = h.levels[v].queue
  OBVIOUS
<1>2. queue \in Seq(OrderSlots) /\ o \in Range(queue)
  BY <1>1, PartsOf DEF QueueOf
<1>3. PICK rest : rest = Unlink(queue, o)
  OBVIOUS
<1>4. rest \in Seq(OrderSlots)
  BY <1>2, <1>3, UnlinkIs
<1>5. PICK lv : lv = [h.levels[v] EXCEPT !.queue = rest]
  OBVIOUS
<1>6. lv \in LevelRecords /\ lv.queue = rest /\ lv.price = h.levels[v].price
  <2>1. h.levels[v] \in LevelRecords
    BY HeapParts
  <2>2. PICK old : old = h.levels[v]
    OBVIOUS
  <2>3. lv = [old EXCEPT !.queue = rest] /\ old \in LevelRecords
    BY <1>5, <2>1, <2>2
  <2>4. lv \in LevelRecords /\ lv.queue = rest /\ lv.price = old.price
    BY <1>4, <2>3 DEF LevelRecords
  <2> QED  BY <2>2, <2>4
<1>7. PICK n : n = h.book[l].nOrders - 1
  OBVIOUS
<1>8. PICK left : left = WriteLevel(h, l, v, lv, n)
  OBVIOUS
<1>9. left \in Heaps
  <2>1. n \in Int
    BY <1>7, PartsOf
  <2> QED  BY <1>6, <1>8, <2>1, WriteLevelType
<1>10. /\ left.orders = h.orders /\ left.levels[v] = lv
       /\ \A w \in LevelSlots : w # v => left.levels[w] = h.levels[w]
       /\ \A m \in Locates : left.book[m].map = h.book[m].map
  BY <1>8, WriteLevelIs
<1>11. r = IF rest = <<>> THEN [rc |-> 2, heap |-> CloseLevel(left, l, s, v)]
           ELSE [rc |-> 1, heap |-> left]
  <2>1. left = [h EXCEPT !.levels[v].queue = rest, !.book[l].nOrders = @ - 1]
    BY <1>5, <1>7, <1>8 DEF WriteLevel, Heaps
  <2> QED  BY <1>1, <1>3, <2>1 DEF Detach
<1>12. CASE rest # <<>>
  <2>1. r.heap = left
    BY <1>11, <1>12
  <2> QED  BY <1>1, <1>3, <1>6, <1>9, <1>10, <2>1 DEF Detached
<1>13. CASE rest = <<>>
  <2>1. PICK g : g = CloseLevel(left, l, s, v)
    OBVIOUS
  <2>2. r.heap = g
    BY <1>11, <1>13, <2>1
  <2>3. g \in Heaps /\ Closed(left, g, l, s, v)
    BY <1>9, <2>1, CloseLevelIs
  <2>4. DOMAIN h.book[l].map = Sides
    BY HeapParts DEF BookRecords
  <2>5. g.book[l].map = [h.book[l].map EXCEPT ![s] =
            MapSet(h.book[l].map[s], h.levels[v].price, Null)]
    BY <1>6, <1>10, <2>3 DEF Closed
  <2>6. /\ g.book[l].map[s] = MapSet(h.book[l].map[s], h.levels[v].price, Null)
        /\ \A t \in Sides : t # s => g.book[l].map[t] = h.book[l].map[t]
    BY <2>4, <2>5
  <2>7. /\ g.orders = h.orders /\ g.levels[v].queue = <<>>
        /\ \A w \in LevelSlots : w # v => g.levels[w] = h.levels[w]
        /\ \A m \in Locates : m # l => g.book[m].map = h.book[m].map
    BY <1>10, <2>3 DEF Closed, BlankLevel
  <2> QED  BY <1>1, <1>3, <1>13, <2>2, <2>3, <2>6, <2>7 DEF Detached
<1> QED  BY <1>12, <1>13

(* Detach shows as an order that left.                                     *)
LEMMA DetachShows ==
    ASSUME NEW b, NEW D, HeapInv(b, D), IdsDiffer(b), NEW l \in Locates, NEW s \in Sides,
           NEW p \in Prices, NEW v \in LevelSlots, b.book[l].map[s][p] = v,
           NEW o \in QueueOf(b, v), NEW h \in Heaps, Like(b, h, o), NEW g,
           Detached(h, g, l, s, v, o)
    PROVE  p # EmptyPrice /\ Left(b, g, l, s, p, o)
<1>1. b \in Heaps /\ o \in OrderSlots
  BY PartsOf DEF HeapInv
<1>2. /\ p # EmptyPrice /\ b.levels[v].price = p
      /\ \A m \in Locates, t \in Sides, x \in Seen :
            m # l \/ t # s \/ x # p => b.book[m].map[t][x] # v
  BY FoundOnce, NullIsNoSlot
<1>3. PICK queue : queue = b.levels[v].queue
  OBVIOUS
<1>4. queue \in Seq(OrderSlots) /\ IsInjective(queue) /\ o \in Range(queue)
  BY <1>1, <1>3, PartsOf DEF HeapInv, QueuesInv, QueueOf
<1>5. PICK rest : rest = Unlink(queue, o)
  OBVIOUS
<1>6. rest \in Seq(OrderSlots) /\ Range(rest) = Range(queue) \ {o}
  BY <1>4, <1>5, UnlinkKeeps
<1>7. /\ g \in Heaps /\ g.levels[v].queue = rest
      /\ \A x \in OrderSlots : x # o => g.orders[x] = b.orders[x]
      /\ \A w \in LevelSlots : w # v => g.levels[w].queue = b.levels[w].queue
      /\ \A m \in Locates : m # l => g.book[m].map = b.book[m].map
      /\ \A t \in Sides : t # s => g.book[l].map[t] = b.book[l].map[t]
      /\ \/ g.book[l].map[s] = b.book[l].map[s]
         \/ g.book[l].map[s] = MapSet(b.book[l].map[s], p, Null) /\ rest = <<>>
  BY <1>2, <1>3, <1>5 DEF Detached, Like
<1>8. \A x \in Prices : x # p => g.book[l].map[s][x] = b.book[l].map[s][x]
  <2>1. b.book[l].map[s] \in [Prices -> LevelSlots \cup {Null}]
    BY <1>1, PartsOf
  <2>2. \A x \in Prices : x # p => MapSet(b.book[l].map[s], p, Null)[x] = b.book[l].map[s][x]
    BY <2>1, MapSetIs
  <2> QED  BY <1>7, <2>2
<1>9. Kept(b, g, v, o)
  <2>1. \A w \in LevelSlots : w # v => o \notin QueueOf(b, w)
    BY <1>1 DEF HeapInv, QueuesInv
  <2> QED  BY <1>7, <2>1 DEF Kept
<1>10. Aside(b, g, l, s, p, v)
  BY <1>2, <1>7, <1>8 DEF Aside, Seen
<1>11. PICK f : f = Shows(b)
  OBVIOUS
<1>12. \A x \in OrderSlots : f[x] = Shown(b.orders[x])
  BY <1>11 DEF Shows
<1>13. QueueAt(b, l, s, p) = Mapped(queue, f)
  BY <1>1, <1>3, <1>11, QueueAtIs
<1>14. QueueAt(g, l, s, p) = Mapped(rest, f)
  <2>1. \A i \in DOMAIN rest : rest[i] \in OrderSlots /\ rest[i] # o
    BY <1>6, RangeOfSeq DEF Range
  <2>2. Mapped(rest, Shows(g)) = Mapped(rest, f)
    BY <1>7, <1>12, <2>1 DEF Mapped, Shows
  <2>3. CASE g.book[l].map[s] = b.book[l].map[s]
    <3>1. g.book[l].map[s][p] = v /\ g \in Heaps
      BY <1>7, <2>3
    <3>2. QueueAt(g, l, s, p) = Mapped(g.levels[v].queue, Shows(g))
      BY <3>1, QueueAtIs
    <3> QED  BY <1>7, <2>2, <3>2
  <2>4. CASE g.book[l].map[s] = MapSet(b.book[l].map[s], p, Null) /\ rest = <<>>
    <3>1. b.book[l].map[s] \in [Prices -> LevelSlots \cup {Null}]
      BY <1>1, PartsOf
    <3>2. g.book[l].map[s][p] = Null
      BY <1>2, <2>4, <3>1, MapSetIs
    <3>3. QueueAt(g, l, s, p) = <<>>
      BY <3>2 DEF QueueAt
    <3>4. Mapped(rest, f) = <<>>
      BY <2>4 DEF Mapped
    <3> QED  BY <3>3, <3>4
  <2> QED  BY <1>7, <2>3, <2>4
<1>15. Unlink(Mapped(queue, f), f[o]) = Mapped(rest, f)
  <2>1. \A x, y \in Range(queue) : f[x] = f[y] => x = y
    <3>1. Range(queue) \subseteq OrderSlots
      BY <1>4, RangeOfSeq
    <3>2. \A x, y \in Range(queue) : b.orders[x].id = b.orders[y].id => x = y
      BY <1>3 DEF IdsDiffer, QueueOf
    <3>3. \A x \in Range(queue) : f[x].id = b.orders[x].id
      <4>1. \A x \in OrderSlots : Shown(b.orders[x]).id = b.orders[x].id
        BY DEF Shown
      <4>2. \A x \in OrderSlots : f[x].id = b.orders[x].id
        BY <1>12, <4>1
      <4> QED  BY <3>1, <4>2
    <3> QED  BY <3>2, <3>3
  <2> QED  BY <1>4, <1>5, <2>1, MappedUnlink
<1>16. View(g) = With(View(b), l, s, p, QueueAt(g, l, s, p))
  BY <1>1, <1>2, <1>9, <1>10, ViewChanges
<1> QED  BY <1>1, <1>2, <1>12, <1>13, <1>14, <1>15, <1>16 DEF Left

(* An order in a queue shows there, at its place.                          *)
LEMMA ShownInQueue ==
    ASSUME NEW h \in Heaps, NEW l, NEW s, NEW p, NEW v \in LevelSlots,
           h.book[l].map[s][p] = v, NEW o \in QueueOf(h, v)
    PROVE  /\ Shown(h.orders[o]) \in Range(QueueAt(h, l, s, p))
           /\ \E i \in DOMAIN QueueAt(h, l, s, p) :
                 /\ h.levels[v].queue[i] = o
                 /\ QueueAt(h, l, s, p)[i] = Shown(h.orders[o])
<1>1. PICK queue : queue = h.levels[v].queue
  OBVIOUS
<1>2. PICK view : view = QueueAt(h, l, s, p)
  OBVIOUS
<1>3. view = Mapped(queue, Shows(h))
  BY <1>1, <1>2, QueueAtIs
<1>4. PICK i \in DOMAIN queue : queue[i] = o
  BY <1>1 DEF QueueOf, Range
<1>5. o \in OrderSlots
  BY PartsOf
<1>6. i \in DOMAIN view /\ view[i] = Shown(h.orders[o])
  BY <1>3, <1>4, <1>5 DEF Mapped, Shows
<1>7. Shown(h.orders[o]) \in Range(view)
  BY <1>6 DEF Range
<1> QED  BY <1>1, <1>2, <1>4, <1>6, <1>7

(* A level the map finds for a resting order, by its place.                *)
LEMMA FoundAt ==
    ASSUME NEW h, NEW D, HeapInv(h, D), NEW o \in OrderSlots, h.freeOrders[o] = 0,
           o \notin D, NEW l, l = h.orders[o].locate, NEW s, s = h.orders[o].side,
           NEW p, p = h.orders[o].price, NEW v, v = FindLevel(h, l, s, p), v # Null
    PROVE  /\ l \in Locates /\ s \in Sides /\ p \in Prices /\ v \in LevelSlots
           /\ h.book[l].map[s][p] = v /\ o \in QueueOf(h, v)
<1>1. l \in Locates /\ s \in Sides /\ v \in ListOf(h, l, s) /\ o \in QueueOf(h, v)
  BY FoundHolds
<1>2. h \in Heaps
  BY DEF HeapInv
<1>3. v \in LevelSlots /\ p \in Prices
  BY <1>1, <1>2, PartsOf, OrderParts
<1>4. h.book[l].map[s][p] = v
  BY DEF FindLevel
<1> QED  BY <1>1, <1>3, <1>4

(* remove_order shows as an order that left.                               *)
LEMMA BookRemoveShows ==
    ASSUME NEW h, NEW D, HeapInv(h, D), IdsDiffer(h), NEW o \in OrderSlots,
           h.freeOrders[o] = 0, o \notin D, NEW l, l = h.orders[o].locate,
           NEW s, s = h.orders[o].side, NEW p, p = h.orders[o].price,
           NEW r, r = BookRemove(h, l, o), r.rc # 0
    PROVE  /\ l \in Locates /\ s \in Sides /\ p \in Seen
           /\ Shown(h.orders[o]) \in Range(QueueAt(h, l, s, p))
           /\ Left(h, r.heap, l, s, p, o)
<1>1. h \in Heaps
  BY DEF HeapInv
<1>2. PICK v : v = FindLevel(h, l, s, p)
  OBVIOUS
<1>3. v # Null
  <2>1. ASSUME v = Null PROVE FALSE
    <3>1. r = [rc |-> 0, heap |-> h]
      BY <1>2, <2>1 DEF BookRemove
    <3> QED  BY <3>1
  <2> QED  BY <2>1
<1>4. /\ l \in Locates /\ s \in Sides /\ p \in Prices /\ v \in LevelSlots
      /\ h.book[l].map[s][p] = v /\ o \in QueueOf(h, v)
  BY <1>2, <1>3, FoundAt, SMTT(90)
<1>5. PICK k : k = [h EXCEPT !.levels[v].total = @ - h.orders[o].shares]
  OBVIOUS
<1>6. r = Detach(k, l, v, o)
  BY <1>2, <1>3, <1>5 DEF BookRemove
<1>7. PICK lv : lv = [h.levels[v] EXCEPT !.total = h.levels[v].total - h.orders[o].shares]
  OBVIOUS
<1>8. k \in Heaps /\ Like(h, k, o) /\ k.orders = h.orders
  <2>1. lv \in LevelRecords /\ lv.queue = h.levels[v].queue /\ lv.price = h.levels[v].price
    <3>1. h.levels[v] \in LevelRecords /\ h.orders[o].shares \in Nat
      BY <1>1, <1>4, HeapParts, OrderParts
    <3> QED  BY <1>7, <3>1 DEF LevelRecords
  <2>2. k = [h EXCEPT !.levels = [h.levels EXCEPT ![v] = lv]]
    BY <1>1, <1>5, <1>7 DEF Heaps
  <2>3. k.orders = h.orders /\ k.book = h.book /\ k.levels = [h.levels EXCEPT ![v] = lv]
    BY <1>1, <2>2 DEF Heaps
  <2>4. k \in Heaps
    <3>1. [h.levels EXCEPT ![v] = lv] \in [LevelSlots -> LevelRecords]
      BY <1>1, <2>1, HeapParts
    <3> QED  BY <1>1, <2>2, <3>1 DEF Heaps
  <2>5. \A w \in LevelSlots : /\ k.levels[w].queue = h.levels[w].queue
                              /\ k.levels[w].price = h.levels[w].price
    BY <1>1, <2>1, <2>3, HeapParts
  <2> QED  BY <2>3, <2>4, <2>5 DEF Like
<1>9. Detached(k, r.heap, l, s, v, o)
  <2>1. o \in QueueOf(k, v) /\ k.orders[o].side = s
    BY <1>4, <1>8 DEF Like, QueueOf
  <2> QED  BY <1>4, <1>6, <1>8, <2>1, DetachIs
<1>10. p # EmptyPrice /\ Left(h, r.heap, l, s, p, o)
  <2>1. PICK g : g = r.heap
    OBVIOUS
  <2>2. Detached(k, g, l, s, v, o)
    BY <1>9, <2>1
  <2>3. p # EmptyPrice /\ Left(h, g, l, s, p, o)
    BY <1>4, <1>8, <2>2, DetachShows
  <2> QED  BY <2>1, <2>3
<1>11. Shown(h.orders[o]) \in Range(QueueAt(h, l, s, p))
  BY <1>1, <1>4, ShownInQueue
<1> QED  BY <1>4, <1>10, <1>11 DEF Seen

(* What shows once the order at place i of its queue has lost q shares.    *)
Shrunk(h, g, l, s, p, i, q) ==
    /\ i \in DOMAIN QueueAt(h, l, s, p)
    /\ q < QueueAt(h, l, s, p)[i].shares
    /\ View(g) = With(View(h), l, s, p, [QueueAt(h, l, s, p) EXCEPT ![i].shares = @ - q])

(* An order that lost shares shows as such.                                *)
LEMMA ShrinkShows ==
    ASSUME NEW h, NEW D, HeapInv(h, D), NEW l \in Locates, NEW s \in Sides,
           NEW p \in Prices, NEW v \in LevelSlots, h.book[l].map[s][p] = v,
           NEW o \in QueueOf(h, v), NEW k \in Heaps, Like(h, k, o),
           NEW q, q < h.orders[o].shares, k.orders[o].id = h.orders[o].id,
           k.orders[o].shares = h.orders[o].shares - q
    PROVE  p # EmptyPrice /\ \E i : Shrunk(h, k, l, s, p, i, q)
<1>1. h \in Heaps /\ o \in OrderSlots
  BY PartsOf DEF HeapInv
<1>2. /\ p # EmptyPrice
      /\ \A m \in Locates, t \in Sides, x \in Seen :
            m # l \/ t # s \/ x # p => h.book[m].map[t][x] # v
  BY FoundOnce, NullIsNoSlot
<1>3. Kept(h, k, v, o)
  <2>1. \A w \in LevelSlots : w # v => o \notin QueueOf(h, w)
    BY <1>1 DEF HeapInv, QueuesInv
  <2> QED  BY <2>1 DEF Kept, Like
<1>4. Aside(h, k, l, s, p, v)
  BY <1>2 DEF Aside, Like
<1>5. View(k) = With(View(h), l, s, p, QueueAt(k, l, s, p))
  BY <1>1, <1>2, <1>3, <1>4, ViewChanges
<1>6. PICK i \in DOMAIN QueueAt(h, l, s, p) :
        /\ h.levels[v].queue[i] = o
        /\ QueueAt(h, l, s, p)[i] = Shown(h.orders[o])
  BY <1>1, ShownInQueue
<1>7. PICK queue : queue = h.levels[v].queue
  OBVIOUS
<1>8. queue \in Seq(OrderSlots) /\ IsInjective(queue) /\ queue[i] = o
  BY <1>1, <1>6, <1>7, PartsOf DEF HeapInv, QueuesInv
<1>9. PICK view : view = QueueAt(h, l, s, p)
  OBVIOUS
<1>10. view = Mapped(queue, Shows(h))
  BY <1>1, <1>7, <1>9, QueueAtIs
<1>11. QueueAt(k, l, s, p) = Mapped(queue, Shows(k))
  <2>1. k.book[l].map[s][p] = v /\ k.levels[v].queue = queue
    BY <1>7 DEF Like
  <2>2. QueueAt(k, l, s, p) = Mapped(k.levels[v].queue, Shows(k))
    BY <2>1, QueueAtIs
  <2> QED  BY <2>1, <2>2
<1>12. PICK shown : shown = Shown(h.orders[o])
  OBVIOUS
<1>13. shown.shares = h.orders[o].shares /\ view[i] = shown
  BY <1>6, <1>9, <1>12 DEF Shown
<1>14. PICK less : less = [shown EXCEPT !.shares = shown.shares - q]
  OBVIOUS
<1>15. Shown(k.orders[o]) = less
  BY <1>12, <1>13, <1>14 DEF Shown
<1>16. [view EXCEPT ![i].shares = @ - q] = [view EXCEPT ![i] = less]
  BY <1>6, <1>9, <1>13, <1>14
<1>17. Mapped(queue, Shows(k)) = [view EXCEPT ![i] = less]
  <2>1. DOMAIN view = DOMAIN queue /\ \A j \in DOMAIN queue : view[j] = Shows(h)[queue[j]]
    BY <1>10 DEF Mapped
  <2>2. \A j \in DOMAIN queue : queue[j] \in OrderSlots /\ (queue[j] = o => j = i)
    BY <1>6, <1>8, <1>9, <2>1, RangeOfSeq DEF IsInjective, Range
  <2>3. \A j \in DOMAIN queue : j # i => Shows(k)[queue[j]] = Shows(h)[queue[j]]
    BY <2>2 DEF Shows, Like
  <2>4. Shows(k)[o] = less
    BY <1>1, <1>15 DEF Shows
  <2>5. \A j \in DOMAIN queue : Shows(k)[queue[j]] = IF j = i THEN less ELSE view[j]
    BY <1>8, <2>1, <2>3, <2>4
  <2>6. Mapped(queue, Shows(k)) = [j \in DOMAIN view |-> IF j = i THEN less ELSE view[j]]
    BY <2>1, <2>5 DEF Mapped
  <2>7. view = [j \in DOMAIN view |-> view[j]]
    BY <1>10 DEF Mapped
  <2> QED  BY <2>6, <2>7
<1>18. Shrunk(h, k, l, s, p, i, q)
  BY <1>5, <1>6, <1>9, <1>11, <1>13, <1>16, <1>17 DEF Shrunk
<1> QED  BY <1>2, <1>18

(* execute_order with fewer shares than are left shows as a loss of        *)
(* shares, and with as many or more as an order that left.                 *)
LEMMA BookExecuteShows ==
    ASSUME NEW h, NEW D, HeapInv(h, D), IdsDiffer(h), NEW o \in OrderSlots,
           h.freeOrders[o] = 0, o \notin D, NEW l, l = h.orders[o].locate,
           NEW s, s = h.orders[o].side, NEW p, p = h.orders[o].price,
           NEW q \in Quantities, NEW r, r = BookExecute(h, l, o, q), r.rc # -1
    PROVE  /\ l \in Locates /\ s \in Sides /\ p \in Seen
           /\ Shown(h.orders[o]) \in Range(QueueAt(h, l, s, p))
           /\ r.rc = 0 => \E i : Shrunk(h, r.heap, l, s, p, i, q)
           /\ r.rc # 0 => Left(h, r.heap, l, s, p, o)
<1>1. h \in Heaps
  BY DEF HeapInv
<1>2. PICK v : v = FindLevel(h, l, s, p)
  OBVIOUS
<1>3. v # Null
  <2>1. ASSUME v = Null PROVE FALSE
    <3>1. r = [rc |-> -1, heap |-> h]
      BY <1>2, <2>1 DEF BookExecute
    <3> QED  BY <3>1
  <2> QED  BY <2>1
<1>4. /\ l \in Locates /\ s \in Sides /\ p \in Prices /\ v \in LevelSlots
      /\ h.book[l].map[s][p] = v /\ o \in QueueOf(h, v)
  BY <1>2, <1>3, FoundAt, SMTT(90)
<1>5. PICK ord : ord = h.orders[o]
  OBVIOUS
<1>6. ord \in OrderRecords /\ ord.shares \in Nat /\ q \in Nat
  BY <1>1, <1>5, HeapParts, OrderParts, QuantitiesAreNat
<1>7. PICK filled : filled = IF q >= ord.shares THEN ord.shares ELSE q
  OBVIOUS
<1>8. filled \in Nat /\ ord.shares - filled \in Nat /\ (q < ord.shares => filled = q)
  BY <1>6, <1>7
<1>9. PICK k : k = [h EXCEPT !.levels[v].total = @ - filled, !.orders[o].shares = @ - filled]
  OBVIOUS
<1>10. r = IF q < ord.shares THEN [rc |-> 0, heap |-> k] ELSE Detach(k, l, v, o)
  <2>1. BookExecute(h, l, o, q) =
          CASE v = Null -> [rc |-> -1, heap |-> h]
            [] v # Null /\ q < ord.shares -> [rc |-> 0, heap |-> k]
            [] v # Null /\ q >= ord.shares -> Detach(k, l, v, o)
    BY <1>2, <1>5, <1>7, <1>9 DEF BookExecute
  <2> QED  BY <1>3, <1>6, <2>1
<1>11. PICK lv : lv = [h.levels[v] EXCEPT !.total = h.levels[v].total - filled]
  OBVIOUS
<1>12. PICK new : new = [ord EXCEPT !.shares = ord.shares - filled]
  OBVIOUS
<1>13. /\ new \in OrderRecords /\ new.id = ord.id /\ new.side = ord.side
       /\ new.shares = ord.shares - filled
  BY <1>6, <1>8, <1>12 DEF OrderRecords
<1>14. /\ k \in Heaps /\ Like(h, k, o) /\ k.orders[o] = new
  <2>1. lv \in LevelRecords /\ lv.queue = h.levels[v].queue /\ lv.price = h.levels[v].price
    <3>1. h.levels[v] \in LevelRecords
      BY <1>1, <1>4, HeapParts
    <3> QED  BY <1>8, <1>11, <3>1 DEF LevelRecords
  <2>2. k = [h EXCEPT !.levels = [h.levels EXCEPT ![v] = lv],
                      !.orders = [h.orders EXCEPT ![o] = new]]
    BY <1>1, <1>5, <1>9, <1>11, <1>12 DEF Heaps
  <2>3. /\ k.orders = [h.orders EXCEPT ![o] = new] /\ k.book = h.book
        /\ k.levels = [h.levels EXCEPT ![v] = lv]
    BY <1>1, <2>2 DEF Heaps
  <2>4. k \in Heaps
    <3>1. [h.levels EXCEPT ![v] = lv] \in [LevelSlots -> LevelRecords]
      BY <1>1, <2>1, HeapParts
    <3>2. [h.orders EXCEPT ![o] = new] \in [OrderSlots -> OrderRecords]
      BY <1>1, <1>13, HeapParts
    <3> QED  BY <1>1, <2>2, <3>1, <3>2 DEF Heaps
  <2>5. \A w \in LevelSlots : /\ k.levels[w].queue = h.levels[w].queue
                              /\ k.levels[w].price = h.levels[w].price
    BY <1>1, <2>1, <2>3, HeapParts
  <2>6. k.orders[o] = new /\ \A x \in OrderSlots : x # o => k.orders[x] = h.orders[x]
    BY <1>1, <2>3, HeapParts
  <2> QED  BY <2>3, <2>4, <2>5, <2>6 DEF Like
<1>15. /\ Shown(h.orders[o]) \in Range(QueueAt(h, l, s, p))
       /\ \E i \in DOMAIN QueueAt(h, l, s, p) :
             /\ h.levels[v].queue[i] = o
             /\ QueueAt(h, l, s, p)[i] = Shown(h.orders[o])
  BY <1>1, <1>4, ShownInQueue, SMTT(90)
<1>16. CASE q < ord.shares
  <2>1. r.rc = 0 /\ r.heap = k
    BY <1>10, <1>16
  <2>2. p # EmptyPrice /\ \E i : Shrunk(h, k, l, s, p, i, q)
    <3>1. /\ k.orders[o].id = h.orders[o].id /\ q < h.orders[o].shares
          /\ k.orders[o].shares = h.orders[o].shares - q
      BY <1>5, <1>8, <1>13, <1>14, <1>16
    <3> QED  BY <1>4, <1>14, <3>1, ShrinkShows
  <2> QED  BY <1>4, <1>15, <2>1, <2>2 DEF Seen
<1>17. CASE ~(q < ord.shares)
  <2>1. r = Detach(k, l, v, o)
    BY <1>10, <1>17
  <2>2. Detached(k, r.heap, l, s, v, o)
    <3>1. o \in QueueOf(k, v) /\ k.orders[o].side = s
      BY <1>4, <1>5, <1>13, <1>14 DEF Like, QueueOf
    <3> QED  BY <1>4, <1>14, <2>1, <3>1, DetachIs
  <2>3. p # EmptyPrice /\ Left(h, r.heap, l, s, p, o)
    <3>1. PICK g : g = r.heap
      OBVIOUS
    <3>2. Detached(k, g, l, s, v, o)
      BY <2>2, <3>1
    <3>3. p # EmptyPrice /\ Left(h, g, l, s, p, o)
      BY <1>4, <1>14, <3>2, DetachShows
    <3> QED  BY <3>1, <3>3
  <2>4. r.rc # 0
    BY <2>1 DEF Detach
  <2> QED  BY <1>4, <1>15, <2>3, <2>4 DEF Seen
<1> QED  BY <1>16, <1>17

(* Clearing a book shows as a book without orders.                         *)
LEMMA ClearShows ==
    ASSUME NEW h, HeapInv(h, {}), NEW l \in Locates, NEW g, Cleared(h, g, l)
    PROVE  View(g) = [View(h) EXCEPT ![l] = [s \in Sides |-> [p \in Seen |-> <<>>]]]
<1>1. h \in Heaps
  BY DEF HeapInv
<1>2. ASSUME NEW m \in Locates, m # l, NEW s \in Sides, NEW p \in Seen
      PROVE  QueueAt(g, m, s, p) = QueueAt(h, m, s, p)
  <2>1. PICK v : v = h.book[m].map[s][p]
    OBVIOUS
  <2>2. g.book[m].map[s][p] = v /\ p \in Prices
    BY <1>2, <2>1 DEF Cleared, Seen
  <2>3. CASE v = Null
    BY <2>1, <2>2, <2>3 DEF QueueAt
  <2>4. CASE v # Null
    <3>1. v \in LevelSlots /\ v \in ListOf(h, m, s)
      BY <2>1, <2>2, <2>4, FoundOnce
    <3>2. v \notin LevelsOf(h, l)
      <4>1. ASSUME v \in LevelsOf(h, l) PROVE FALSE
        <5>1. PICK t \in Sides : v \in ListOf(h, l, t)
          BY <4>1 DEF LevelsOf, ListOf, Sides
        <5> QED  BY <1>2, <3>1, <5>1, OneList
      <4> QED  BY <4>1
    <3>3. PICK queue : queue = h.levels[v].queue
      OBVIOUS
    <3>4. g.levels[v].queue = queue
      BY <3>1, <3>2, <3>3 DEF Cleared
    <3>5. \A i \in DOMAIN queue : queue[i] \in OrderSlots /\ queue[i] \in QueueOf(h, v)
      BY <1>1, <3>1, <3>3, PartsOf DEF QueueOf, Range
    <3>6. \A i \in DOMAIN queue : h.orders[queue[i]].locate = m
      BY <3>1, <3>5 DEF HeapInv, HomesInv
    <3>7. \A i \in DOMAIN queue : queue[i] \in OrderSlots \ Rests(h, {}, l)
      BY <1>2, <3>5, <3>6 DEF Rests
    <3>8. \A i \in DOMAIN queue : g.orders[queue[i]] = h.orders[queue[i]]
      BY <3>7 DEF Cleared
    <3>9. QueueAt(h, m, s, p) = [i \in DOMAIN queue |-> Shown(h.orders[queue[i]])]
      BY <2>1, <2>4, <3>3 DEF QueueAt
    <3>10. QueueAt(g, m, s, p) = [i \in DOMAIN queue |-> Shown(g.orders[queue[i]])]
      BY <2>2, <2>4, <3>4 DEF QueueAt
    <3> QED  BY <3>8, <3>9, <3>10
  <2> QED  BY <2>3, <2>4
<1>3. \A s \in Sides, p \in Seen : QueueAt(g, l, s, p) = <<>>
  <2>1. \A s \in Sides, p \in Seen : g.book[l].map[s][p] = Null
    BY DEF Cleared, EmptyBook, Seen
  <2> QED  BY <2>1 DEF QueueAt
<1>4. View(g)[l] = [s \in Sides |-> [p \in Seen |-> <<>>]]
  BY <1>3 DEF View
<1>5. \A m \in Locates : m # l => View(g)[m] = View(h)[m]
  BY <1>2 DEF View
<1>6. DOMAIN View(h) = Locates /\ View(g) = [m \in Locates |-> View(g)[m]]
      /\ View(h) = [m \in Locates |-> View(h)[m]]
  BY DEF View
<1> QED  BY <1>4, <1>5, <1>6

-----------------------------------------------------------------------------
(* A step of MarketBook, from market M to market N.                        *)

InMarket(M, id) ==
    \E l \in Locates, s \in Sides, p \in Seen : \E e \in Range(M[l][s][p]) : e.id = id

Vacant == [s \in Sides |-> [p \in Seen |-> <<>>]]

JoinStep(M, N, l, s, p, id, q) ==
    /\ l \in Locates /\ s \in Sides /\ p \in Seen /\ id \in Ids /\ q \in Quantities
    /\ ~InMarket(M, id)
    /\ N = With(M, l, s, p, Append(M[l][s][p], [id |-> id, shares |-> q]))

ShrinkStep(M, N, l, s, p, i, q) ==
    /\ l \in Locates /\ s \in Sides /\ p \in Seen /\ q \in Quantities
    /\ i \in DOMAIN M[l][s][p]
    /\ q < M[l][s][p][i].shares
    /\ N = With(M, l, s, p, [M[l][s][p] EXCEPT ![i].shares = @ - q])

LeaveStep(M, N, l, s, p, e) ==
    /\ l \in Locates /\ s \in Sides /\ p \in Seen
    /\ e \in Range(M[l][s][p])
    /\ N = With(M, l, s, p, Unlink(M[l][s][p], e))

(* An order leaves, to market K, and then another joins.                   *)
SwapStep(M, N, l, s, p, e, id, q, p2) ==
    /\ p2 \in Seen /\ id \in Ids /\ q \in Quantities
    /\ ~InMarket(M, id)
    /\ \E K : /\ LeaveStep(M, K, l, s, p, e)
              /\ N = With(K, l, s, p2, Append(K[l][s][p2], [id |-> id, shares |-> q]))

MarketStep(M, N) ==
    \/ N = M
    \/ \E l \in Locates : N = [M EXCEPT ![l] = Vacant]
    \/ \E l, s, p, id, q : JoinStep(M, N, l, s, p, id, q)
    \/ \E l, s, p, i, q : ShrinkStep(M, N, l, s, p, i, q)
    \/ \E l, s, p, e : LeaveStep(M, N, l, s, p, e)
    \/ \E l, s, p, e, id, q, p2 : SwapStep(M, N, l, s, p, e, id, q, p2)

(* The operators of the abstract book are those of the engine.             *)
LEMMA SameOperators ==
    /\ \A f : MB!Range(f) = Range(f)
    /\ \A seq, e : MB!Unlink(seq, e) = Unlink(seq, e)
<1>1. \A f : MB!Range(f) = Range(f)
  BY DEF MB!Range, Range
<1>4. \A S : MB!Cardinality(S) = Cardinality(S)
  BY DEF MB!Cardinality, Cardinality
<1>2. \A seq, S : MB!LeadingRun(seq, S) = LeadingRun(seq, S)
  BY <1>4 DEF MB!LeadingRun, LeadingRun
<1>3. \A seq, e : MB!Unlink(seq, e) = Unlink(seq, e)
  BY <1>1, <1>2 DEF MB!Unlink, Unlink
<1> QED  BY <1>1, <1>3

(* What is in the market rests.                                            *)
LEMMA RestingIs == \A id : MB!Resting(id) <=> InMarket(Market, id)
<1>1. \A id, x : x \in MB!Places(id) <=>
        /\ x \in Locates \X Sides \X Seen
        /\ \E e \in Range(Market[x[1]][x[2]][x[3]]) : e.id = id
  BY SameOperators DEF MB!Places, Seen
<1>2. ASSUME NEW id, MB!Resting(id) PROVE InMarket(Market, id)
  <2>1. PICK x : x \in MB!Places(id)
    BY <1>2 DEF MB!Resting
  <2>2. x[1] \in Locates /\ x[2] \in Sides /\ x[3] \in Seen
    BY <1>1, <2>1
  <2> QED  BY <1>1, <2>1, <2>2 DEF InMarket
<1>3. ASSUME NEW id, InMarket(Market, id) PROVE MB!Resting(id)
  <2>1. PICK l \in Locates, s \in Sides, p \in Seen :
          \E e \in Range(Market[l][s][p]) : e.id = id
    BY <1>3 DEF InMarket
  <2>2. <<l, s, p>> \in MB!Places(id)
    BY <1>1, <2>1
  <2> QED  BY <2>2 DEF MB!Resting
<1> QED  BY <1>2, <1>3

(* Such a step is a step of the abstract book.                             *)
LEMMA StepIs ==
    ASSUME MarketStep(Market, Market')
    PROVE  [MB!Next]_Market
<1>1. ASSUME NEW l \in Locates, Market' = [Market EXCEPT ![l] = Vacant]
      PROVE  MB!Next
  BY <1>1 DEF MB!Next, MB!Wipe, MB!Empty, Vacant, Seen
<1>2. ASSUME NEW l, NEW s, NEW p, NEW id, NEW q, JoinStep(Market, Market', l, s, p, id, q)
      PROVE  MB!Next
  <2>1. l \in Locates /\ s \in Sides /\ p \in Prices \ {EmptyPrice} /\ id \in Ids /\ q \in Quantities
    BY <1>2 DEF JoinStep, Seen
  <2>2. ~MB!Resting(id)
    BY <1>2, RestingIs DEF JoinStep
  <2>3. Market' = [Market EXCEPT ![l][s] = MB!WithNew(@, p, MB!Entry(id, q))]
    BY <1>2 DEF JoinStep, With, MB!WithNew, MB!Entry
  <2>4. MB!Join(l, s, p, id, q)
    BY <2>2, <2>3 DEF MB!Join
  <2> QED  BY <2>1, <2>4 DEF MB!Next
<1>3. ASSUME NEW l, NEW s, NEW p, NEW i, NEW q, ShrinkStep(Market, Market', l, s, p, i, q)
      PROVE  MB!Next
  <2>1. l \in Locates /\ s \in Sides /\ p \in Prices \ {EmptyPrice} /\ q \in Quantities
    BY <1>3 DEF ShrinkStep, Seen
  <2>2. i \in DOMAIN MB!Queue(l, s, p) /\ q < MB!Queue(l, s, p)[i].shares
    BY <1>3 DEF ShrinkStep, MB!Queue
  <2>3. Market' = [Market EXCEPT ![l][s][p][i].shares = @ - q]
    BY <1>3 DEF ShrinkStep, With
  <2>4. MB!Shrink(l, s, p, i, q)
    BY <2>2, <2>3 DEF MB!Shrink
  <2> QED  BY <2>1, <2>2, <2>4 DEF MB!Next
<1>4. ASSUME NEW l, NEW s, NEW p, NEW e, LeaveStep(Market, Market', l, s, p, e)
      PROVE  MB!Next
  <2>1. l \in Locates /\ s \in Sides /\ p \in Prices \ {EmptyPrice}
    BY <1>4 DEF LeaveStep, Seen
  <2>2. e \in MB!Range(MB!Queue(l, s, p))
    BY <1>4, SameOperators DEF LeaveStep, MB!Queue
  <2>3. Market' = [Market EXCEPT ![l][s] = MB!Without(@, p, e)]
    BY <1>4, SameOperators DEF LeaveStep, With, MB!Without
  <2>4. MB!Leave(l, s, p, e)
    BY <2>2, <2>3 DEF MB!Leave
  <2> QED  BY <2>1, <2>2, <2>4 DEF MB!Next
<1>5. ASSUME NEW l, NEW s, NEW p, NEW e, NEW id, NEW q, NEW p2,
             SwapStep(Market, Market', l, s, p, e, id, q, p2)
      PROVE  MB!Next
  <2>1. PICK K : /\ LeaveStep(Market, K, l, s, p, e)
                 /\ Market' = With(K, l, s, p2, Append(K[l][s][p2], [id |-> id, shares |-> q]))
    BY <1>5 DEF SwapStep
  <2>2. /\ l \in Locates /\ s \in Sides /\ p \in Prices \ {EmptyPrice}
        /\ p2 \in Prices \ {EmptyPrice} /\ id \in Ids /\ q \in Quantities
    BY <1>5, <2>1 DEF SwapStep, LeaveStep, Seen
  <2>3. e \in MB!Range(MB!Queue(l, s, p)) /\ ~MB!Resting(id)
    BY <1>5, <2>1, SameOperators, RestingIs DEF SwapStep, LeaveStep, MB!Queue
  <2>4. K = [Market EXCEPT ![l][s] = MB!Without(@, p, e)]
    BY <2>1, SameOperators DEF LeaveStep, With, MB!Without
  <2>5. K[l][s] = MB!Without(Market[l][s], p, e)
    <3>1. DOMAIN Market = Locates /\ DOMAIN Market[l] = Sides
      BY <2>2 DEF Market
    <3> QED  BY <2>2, <2>4, <3>1
  <2>6. Market' = [K EXCEPT ![l][s] = MB!WithNew(K[l][s], p2, MB!Entry(id, q))]
    BY <2>1 DEF With, MB!WithNew, MB!Entry
  <2>7. Market' = [Market EXCEPT ![l][s] = MB!WithNew(MB!Without(@, p, e), p2, MB!Entry(id, q))]
    <3>1. PICK x : x = MB!WithNew(K[l][s], p2, MB!Entry(id, q))
      OBVIOUS
    <3>2. PICK y : y = MB!Without(Market[l][s], p, e)
      OBVIOUS
    <3>3. K = [Market EXCEPT ![l][s] = y] /\ Market' = [K EXCEPT ![l][s] = x]
      BY <2>4, <2>6, <3>1, <3>2
    <3>4. Market' = [Market EXCEPT ![l][s] = x]
      <4>1. Market = [m \in Locates |-> Market[m]]
        BY DEF Market
      <4>2. Market[l] = [t \in Sides |-> Market[l][t]]
        BY <2>2 DEF Market
      <4>3. PICK M : M = Market
        OBVIOUS
      <4>4. PICK N : N = Market'
        OBVIOUS
      <4>5. /\ M = [m \in Locates |-> M[m]] /\ M[l] = [t \in Sides |-> M[l][t]]
            /\ K = [M EXCEPT ![l][s] = y] /\ N = [K EXCEPT ![l][s] = x]
        BY <3>3, <4>1, <4>2, <4>3, <4>4
      <4>6. K[l] = [M[l] EXCEPT ![s] = y]
        BY <2>2, <4>5
      <4>7. N = [M EXCEPT ![l] = [M[l] EXCEPT ![s] = x]]
        BY <2>2, <4>5, <4>6
      <4> QED  BY <4>3, <4>4, <4>7
    <3> QED  BY <2>5, <3>1, <3>4
  <2>8. MB!Swap(l, s, p, e, id, q, p2)
    BY <2>3, <2>7 DEF MB!Swap
  <2> QED  BY <2>2, <2>3, <2>8 DEF MB!Next
<1> QED  BY <1>1, <1>2, <1>3, <1>4, <1>5 DEF MarketStep

(* An order in a queue is the one the index has for its id.                *)
LEMMA QueuedIndexed ==
    ASSUME NEW h, NEW D, NEW idx, NEW inst, NEW lv, Consistent(h, D, idx, inst, lv),
           NEW v \in LevelSlots, NEW x \in QueueOf(h, v)
    PROVE  x \in OrderSlots /\ h.orders[x].id \in Ids /\ idx[h.orders[x].id] = x
<1>1. HeapInv(h, D)
  BY DEF Consistent
<1>2. x \in OrderSlots
  BY <1>1, PartsOf DEF HeapInv
<1>3. h.freeOrders[x] = 0 /\ x \notin D
  BY <1>1, <1>2 DEF HeapInv, QueuesInv
<1>4. Held(h, D)[x] = 0
  BY <1>2, <1>3 DEF Held
<1> QED  BY <1>2, <1>4 DEF Consistent, IndexOK

(* So no two queued orders have the same id, and an id that the index does *)
(* not have is not in the market.                                          *)
LEMMA IdsInMarket ==
    ASSUME NEW h, NEW D, NEW idx, NEW inst, NEW lv, Consistent(h, D, idx, inst, lv)
    PROVE  IdsDiffer(h) /\ \A id : idx[id] = Null => ~InMarket(View(h), id)
<1>1. IdsDiffer(h)
  <2>1. ASSUME NEW v \in LevelSlots, NEW x \in QueueOf(h, v), NEW y \in QueueOf(h, v),
               h.orders[x].id = h.orders[y].id
        PROVE  x = y
    <3>1. idx[h.orders[x].id] = x
      BY QueuedIndexed
    <3>2. idx[h.orders[y].id] = y
      BY QueuedIndexed
    <3> QED  BY <2>1, <3>1, <3>2
  <2> QED  BY <2>1 DEF IdsDiffer
<1>2. ASSUME NEW id, InMarket(View(h), id) PROVE idx[id] # Null
  <2>1. h \in Heaps
    BY DEF Consistent, HeapInv
  <2>2. PICK l \in Locates, s \in Sides, p \in Seen :
          \E e \in Range(QueueAt(h, l, s, p)) : e.id = id
    BY <1>2 DEF InMarket, View
  <2>3. PICK view : view = QueueAt(h, l, s, p)
    OBVIOUS
  <2>4. PICK i \in DOMAIN view : view[i].id = id
    BY <2>2, <2>3 DEF Range
  <2>5. PICK v : v = h.book[l].map[s][p]
    OBVIOUS
  <2>6. v # Null
    <3>1. ASSUME v = Null PROVE FALSE
      <4>1. view = <<>>
        BY <2>3, <2>5, <3>1 DEF QueueAt
      <4> QED  BY <2>4, <4>1
    <3> QED  BY <3>1
  <2>7. v \in LevelSlots
    BY <2>1, <2>5, <2>6, PartsOf DEF Seen
  <2>8. PICK queue : queue = h.levels[v].queue
    OBVIOUS
  <2>9. view = [j \in DOMAIN queue |-> Shown(h.orders[queue[j]])]
    BY <2>3, <2>5, <2>6, <2>8 DEF QueueAt
  <2>10. PICK x : x = queue[i]
    OBVIOUS
  <2>11. x \in QueueOf(h, v) /\ h.orders[x].id = id
    <3>1. i \in DOMAIN queue /\ view[i] = Shown(h.orders[x])
      BY <2>4, <2>9, <2>10
    <3>2. Shown(h.orders[x]).id = h.orders[x].id
      BY DEF Shown
    <3> QED  BY <2>4, <2>8, <2>10, <3>1, <3>2 DEF QueueOf, Range
  <2>12. x \in OrderSlots /\ idx[h.orders[x].id] = x
    BY <2>7, <2>11, QueuedIndexed
  <2> QED  BY <2>11, <2>12, NullIsNoSlot
<1> QED  BY <1>1, <1>2

(* A queue of the view.                                                    *)
LEMMA ViewAt ==
    ASSUME NEW h, NEW l \in Locates, NEW s \in Sides, NEW p \in Seen
    PROVE  View(h)[l][s][p] = QueueAt(h, l, s, p)
BY DEF View

(* A message that is dropped changes no market.                            *)
LEMMA RejectShows ==
    ASSUME NEW c, Reject(c)
    PROVE  MarketStep(View(Heap), View(Heap'))
<1>1. Heap' = Heap
  BY DEF Reject, Heap
<1> QED  BY <1>1 DEF MarketStep

(* Acquiring a slot does not show,                                         *)
LEMMA TakeShows ==
    ASSUME NEW h, NEW D, HeapInv(h, D), NEW o \in OrderSlots, h.freeOrders[o] > 0,
           NEW g, g = TakeOrder(h, o)
    PROVE  View(g) = View(h)
<1>1. h \in Heaps /\ h.freeOrders[o] = 1
  BY DEF HeapInv, FreeOrdersInv
<1>2. g.book = h.book /\ g.levels = h.levels /\ g.orders = h.orders
  BY <1>1 DEF TakeOrder, Heaps
<1>3. \A v \in LevelSlots : o \notin QueueOf(h, v)
  BY <1>1 DEF HeapInv, QueuesInv
<1> QED  BY <1>1, <1>2, <1>3, ViewSame

(* nor does constructing an order in it,                                   *)
LEMMA NewShows ==
    ASSUME NEW h, NEW D, HeapInv(h, D), NEW o \in OrderSlots, o \in D, NEW id, NEW l, NEW s,
           NEW p, NEW q, NEW g, g = NewOrder(h, o, id, l, s, p, q)
    PROVE  View(g) = View(h)
<1>1. h \in Heaps /\ \A v \in LevelSlots : o \notin QueueOf(h, v)
  BY InHand DEF HeapInv
<1>2. g.book = h.book /\ g.levels = h.levels
      /\ g.orders = [h.orders EXCEPT ![o] =
            [id |-> id, locate |-> l, side |-> s, price |-> p, shares |-> q]]
  BY <1>1 DEF NewOrder, Heaps
<1>3. \A x \in OrderSlots : x # o => g.orders[x] = h.orders[x]
  BY <1>1, <1>2, HeapParts
<1>4. g.book = h.book /\ g.levels = h.levels
  BY <1>2
<1> QED  BY <1>1, <1>3, <1>4, ViewSame

(* nor does releasing it.                                                  *)
LEMMA ReleaseShows ==
    ASSUME NEW h, NEW D, HeapInv(h, D), NEW o \in OrderSlots, o \in D,
           NEW g, g = ReleaseOrder(h, o)
    PROVE  View(g) = View(h)
<1>1. h \in Heaps /\ \A v \in LevelSlots : o \notin QueueOf(h, v)
  BY InHand DEF HeapInv
<1>2. g.book = h.book /\ g.levels = h.levels
      /\ g.orders = [h.orders EXCEPT ![o] = BlankOrder]
  BY <1>1 DEF ReleaseOrder, Heaps
<1>3. \A x \in OrderSlots : x # o => g.orders[x] = h.orders[x]
  BY <1>1, <1>2, HeapParts
<1>4. g.book = h.book /\ g.levels = h.levels
  BY <1>2
<1> QED  BY <1>1, <1>3, <1>4, ViewSame

-----------------------------------------------------------------------------
(* What the handlers do to the market.                                     *)

(* The market with a new order at the back of its queue.                   *)
WithOrder(M, l, s, p, id, q) ==
    With(M, l, s, p, Append(M[l][s][p], [id |-> id, shares |-> q]))

(* add_order shows as a new order, unless it failed or is at kEmptyPrice.  *)
LEMMA NewOrderShows ==
    ASSUME NEW h, NEW D, HeapInv(h, D), NEW o \in OrderSlots, o \in D, NEW id \in Ids,
           NEW l \in Locates, NEW s \in Sides, NEW p \in Prices, NEW q \in Quantities,
           NEW k, k = NewOrder(h, o, id, l, s, p, q), NEW r \in BookAdd(k, l, o)
    PROVE  \/ View(r.heap) = View(h)
           \/ r.rc # 0 /\ p \in Seen /\ View(r.heap) = WithOrder(View(h), l, s, p, id, q)
<1>1. PICK ord : ord = [id |-> id, locate |-> l, side |-> s, price |-> p, shares |-> q]
  OBVIOUS
<1>2. HeapInv(k, D) /\ k.orders[o] = ord
  <2>1. HeapInv(k, D) /\ k.orders = [h.orders EXCEPT ![o] = ord]
    BY <1>1, NewKeeps
  <2>2. h.orders \in [OrderSlots -> OrderRecords]
    BY HeapParts DEF HeapInv
  <2> QED  BY <2>1, <2>2
<1>3. View(k) = View(h)
  BY NewShows
<1>4. s = k.orders[o].side /\ p = k.orders[o].price
  BY <1>1, <1>2
<1>5. /\ r.rc = 0 => r.heap = k
      /\ r.rc # 0 => Joined(k, r.heap, l, s, p, o)
  BY <1>2, <1>4, BookAddShows
<1>6. CASE r.rc = 0
  BY <1>3, <1>5, <1>6
<1>7. CASE r.rc # 0
  <2>1. Joined(k, r.heap, l, s, p, o)
    BY <1>5, <1>7
  <2>2. CASE p = EmptyPrice
    BY <1>3, <2>1, <2>2 DEF Joined
  <2>3. CASE p # EmptyPrice
    <3>1. p \in Seen
      BY <2>3 DEF Seen
    <3>2. Shown(k.orders[o]) = [id |-> id, shares |-> q]
      BY <1>1, <1>2 DEF Shown
    <3>3. View(r.heap) =
            With(View(k), l, s, p, Append(QueueAt(k, l, s, p), Shown(k.orders[o])))
      BY <2>1, <2>3 DEF Joined
    <3>4. QueueAt(k, l, s, p) = View(h)[l][s][p]
      BY <1>3, <3>1, ViewAt
    <3>5. View(r.heap) = WithOrder(View(h), l, s, p, id, q)
      BY <1>3, <3>2, <3>3, <3>4 DEF WithOrder
    <3> QED  BY <1>7, <3>1, <3>5
  <2> QED  BY <2>2, <2>3
<1> QED  BY <1>6, <1>7

(* on_add_order.                                                           *)
LEMMA AddSteps ==
    ASSUME TypeOK, Sound, NEW l \in Locates, NEW id \in Ids, NEW s \in Sides,
           NEW q \in Quantities, NEW p \in Prices, OnAddOrder(l, id, s, q, p)
    PROVE  MarketStep(View(Heap), View(Heap'))
<1>1. ASSUME ~Duplicate(id), NEW o \in Acquirable(freeOrders), o # Null,
             NEW r \in BookAdd(NewOrder(TakeOrder(Heap, o), o, id, l, s, p, q), l, o),
             \/ r.rc = 0 /\ Abandon(r.heap, o)
             \/ r.rc # 0 /\ Commit(r.heap)
      PROVE  MarketStep(View(Heap), View(Heap'))
  <2>1. o \in OrderSlots /\ Heap.freeOrders[o] > 0
    BY <1>1, Acquired DEF Heap
  <2>2. HeapInv(Heap, {})
    BY DEF Sound, Consistent
  <2>3. PICK g : g = TakeOrder(Heap, o)
    OBVIOUS
  <2>4. HeapInv(g, {o}) /\ View(g) = View(Heap)
    <3>1. HeapInv(g, {} \cup {o})
      BY <2>1, <2>2, <2>3, TakeKeeps
    <3>2. {} \cup {o} = {o}
      OBVIOUS
    <3> QED  BY <2>1, <2>2, <2>3, <3>1, <3>2, TakeShows
  <2>5. PICK k : k = NewOrder(g, o, id, l, s, p, q)
    OBVIOUS
  <2>6. r \in BookAdd(k, l, o) /\ o \in {o}
    BY <1>1, <2>3, <2>5
  <2>7. \/ View(r.heap) = View(g)
        \/ r.rc # 0 /\ p \in Seen /\ View(r.heap) = WithOrder(View(g), l, s, p, id, q)
    BY <2>1, <2>4, <2>5, <2>6, NewOrderShows
  <2>8. HeapInv(k, {o}) /\ k.orders[o].locate = l
    <3>1. /\ HeapInv(k, {o})
          /\ k.orders = [g.orders EXCEPT ![o] =
                [id |-> id, locate |-> l, side |-> s, price |-> p, shares |-> q]]
      BY <2>1, <2>4, <2>5, <2>6, NewKeeps
    <3>2. g.orders \in [OrderSlots -> OrderRecords]
      BY <2>4, HeapParts DEF HeapInv
    <3> QED  BY <2>1, <3>1, <3>2
  <2>9. /\ r.rc = 0 => r.heap = k
        /\ r.rc # 0 => r.heap \in Heaps
    <3>1. PICK D : D = {o}
      OBVIOUS
    <3>2. HeapInv(k, D) /\ o \in D /\ k.orders[o].locate = l /\ r \in BookAdd(k, l, o)
      BY <2>6, <2>8, <3>1
    <3>3. (r.rc = 0 => r.heap = k) /\ (r.rc # 0 => HeapInv(r.heap, D \ {o}))
      BY <2>1, <3>2, BookAddKeeps
    <3> QED  BY <3>3 DEF HeapInv
  <2>10. CASE r.rc = 0
    <3>1. PICK f : f = ReleaseOrder(k, o)
      OBVIOUS
    <3>2. f \in Heaps /\ View(f) = View(k)
      <4>1. HeapInv(f, {o} \ {o})
        BY <2>1, <2>6, <2>8, <3>1, ReleaseKeeps
      <4> QED  BY <2>1, <2>6, <2>8, <3>1, <4>1, ReleaseShows DEF HeapInv
    <3>3. Heap' = f
      BY <1>1, <2>9, <2>10, <3>1, <3>2, CommitIs DEF Abandon
    <3>4. View(Heap') = View(Heap)
      BY <2>4, <2>7, <2>9, <2>10, <3>2, <3>3
    <3> QED  BY <3>4 DEF MarketStep
  <2>11. CASE r.rc # 0
    <3>1. r.heap \in Heaps
      BY <2>9, <2>11
    <3>2. Heap' = r.heap
      BY <1>1, <2>11, <3>1, CommitIs
    <3>3. CASE View(r.heap) = View(g)
      BY <2>4, <3>2, <3>3 DEF MarketStep
    <3>4. CASE p \in Seen /\ View(r.heap) = WithOrder(View(g), l, s, p, id, q)
      <4>1. ~InMarket(View(Heap), id)
        BY <1>1, IdsInMarket DEF Duplicate, Sound
      <4>2. JoinStep(View(Heap), View(Heap'), l, s, p, id, q)
        BY <2>4, <3>2, <3>4, <4>1 DEF JoinStep, WithOrder
      <4> QED  BY <4>2 DEF MarketStep
    <3> QED  BY <2>7, <3>3, <3>4
  <2> QED  BY <2>10, <2>11
<1> QED  BY <1>1, RejectShows DEF OnAddOrder

(* The tail of a handler that took order o out of its book.                *)
LEMMA RetireShows ==
    ASSUME NEW id, NEW r, NEW o \in OrderSlots, o = index[id], Removed(Heap, {}, r, o),
           Retire(r.heap, id, r.rc)
    PROVE  View(Heap') = View(r.heap)
<1>1. HeapInv(r.heap, {o}) /\ o \in {o}
  <2>1. {} \cup {o} = {o}
    OBVIOUS
  <2> QED  BY <2>1 DEF Removed, Unlinked
<1>2. PICK f : f = ReleaseOrder(r.heap, o)
  OBVIOUS
<1>3. f \in Heaps /\ View(f) = View(r.heap)
  <2>1. HeapInv(f, {o} \ {o})
    BY <1>1, <1>2, ReleaseKeeps
  <2> QED  BY <1>1, <1>2, <2>1, ReleaseShows DEF HeapInv
<1>4. Heap' = f
  BY <1>2, <1>3, CommitIs DEF Retire
<1> QED  BY <1>3, <1>4

(* An order that left its queue.                                           *)
LEMMA LeftSteps ==
    ASSUME NEW h, NEW g, NEW l \in Locates, NEW s \in Sides, NEW p \in Seen, NEW o,
           Shown(h.orders[o]) \in Range(QueueAt(h, l, s, p)), Left(h, g, l, s, p, o)
    PROVE  LeaveStep(View(h), View(g), l, s, p, Shown(h.orders[o]))
BY ViewAt DEF Left, LeaveStep

(* on_order_executed, on_order_executed_with_price and on_order_cancel.    *)
LEMMA ReduceSteps ==
    ASSUME TypeOK, Sound, NEW c, NEW l \in Locates, NEW id \in Ids,
           NEW q \in Quantities, Reduce(c, l, id, q)
    PROVE  MarketStep(View(Heap), View(Heap'))
<1>1. ASSUME Known(id), NEW r, r = BookExecute(Heap, Home(id), index[id], q),
             \/ r.rc = 0 /\ Commit(r.heap)
             \/ r.rc > 0 /\ Retire(r.heap, id, r.rc)
      PROVE  MarketStep(View(Heap), View(Heap'))
  <2>1. PICK o : o = index[id]
    OBVIOUS
  <2>2. index[id] # Null
    BY <1>1 DEF Known
  <2>3. PICK h : h = Heap
    OBVIOUS
  <2>4. o \in OrderSlots /\ h.freeOrders[o] = 0 /\ Home(id) = h.orders[o].locate
    BY <2>1, <2>2, <2>3, IndexedSlot DEF Heap, Home
  <2>5. PICK m : m = h.orders[o].locate
    OBVIOUS
  <2>6. PICK s : s = h.orders[o].side
    OBVIOUS
  <2>7. PICK p : p = h.orders[o].price
    OBVIOUS
  <2>8. r = BookExecute(h, m, o, q) /\ HeapInv(h, {}) /\ o \notin {} /\ IdsDiffer(h)
    BY <1>1, <2>1, <2>3, <2>4, <2>5, IdsInMarket DEF Sound, Consistent
  <2>9. r.rc # -1
    BY <1>1
  <2>10. /\ m \in Locates /\ s \in Sides /\ p \in Seen
         /\ Shown(h.orders[o]) \in Range(QueueAt(h, m, s, p))
         /\ r.rc = 0 => \E i : Shrunk(h, r.heap, m, s, p, i, q)
         /\ r.rc # 0 => Left(h, r.heap, m, s, p, o)
    BY <2>4, <2>5, <2>6, <2>7, <2>8, <2>9, BookExecuteShows
  <2>11. /\ r.rc = 0 => Reduced(h, {}, r, o, q)
         /\ r.rc > 0 => Removed(h, {}, r, o)
    BY <2>4, <2>5, <2>8, BookExecuteKeeps
  <2>12. CASE r.rc = 0
    <3>1. r.heap \in Heaps
      BY <2>11, <2>12 DEF Reduced, HeapInv
    <3>2. Heap' = r.heap
      BY <1>1, <2>12, <3>1, CommitIs
    <3>3. PICK i : Shrunk(h, r.heap, m, s, p, i, q)
      BY <2>10, <2>12
    <3>4. ShrinkStep(View(h), View(r.heap), m, s, p, i, q)
      BY <2>10, <3>3, ViewAt DEF Shrunk, ShrinkStep
    <3> QED  BY <2>3, <3>2, <3>4 DEF MarketStep
  <2>13. CASE r.rc > 0
    <3>1. Removed(Heap, {}, r, o) /\ Retire(r.heap, id, r.rc)
      BY <1>1, <2>3, <2>11, <2>13
    <3>2. View(Heap') = View(r.heap)
      BY <2>1, <2>4, <3>1, RetireShows
    <3>3. Left(h, r.heap, m, s, p, o)
      BY <2>10, <2>13
    <3>4. LeaveStep(View(h), View(r.heap), m, s, p, Shown(h.orders[o]))
      BY <2>10, <3>3, LeftSteps
    <3> QED  BY <2>3, <3>2, <3>4 DEF MarketStep
  <2> QED  BY <1>1, <2>12, <2>13
<1> QED  BY <1>1, RejectShows DEF Reduce

(* on_order_delete.                                                        *)
LEMMA DeleteSteps ==
    ASSUME TypeOK, Sound, NEW l \in Locates, NEW id \in Ids, OnOrderDelete(l, id)
    PROVE  MarketStep(View(Heap), View(Heap'))
<1>1. ASSUME Known(id), NEW r, r = BookRemove(Heap, Home(id), index[id]),
             r.rc # 0, Retire(r.heap, id, r.rc)
      PROVE  MarketStep(View(Heap), View(Heap'))
  <2>1. PICK o : o = index[id]
    OBVIOUS
  <2>2. index[id] # Null
    BY <1>1 DEF Known
  <2>3. PICK h : h = Heap
    OBVIOUS
  <2>4. o \in OrderSlots /\ h.freeOrders[o] = 0 /\ Home(id) = h.orders[o].locate
    BY <2>1, <2>2, <2>3, IndexedSlot DEF Heap, Home
  <2>5. PICK m : m = h.orders[o].locate
    OBVIOUS
  <2>6. PICK s : s = h.orders[o].side
    OBVIOUS
  <2>7. PICK p : p = h.orders[o].price
    OBVIOUS
  <2>8. r = BookRemove(h, m, o) /\ HeapInv(h, {}) /\ o \notin {} /\ IdsDiffer(h)
    BY <1>1, <2>1, <2>3, <2>4, <2>5, IdsInMarket DEF Sound, Consistent
  <2>9. /\ m \in Locates /\ s \in Sides /\ p \in Seen
        /\ Shown(h.orders[o]) \in Range(QueueAt(h, m, s, p))
        /\ Left(h, r.heap, m, s, p, o)
    BY <1>1, <2>4, <2>5, <2>6, <2>7, <2>8, BookRemoveShows
  <2>10. Removed(Heap, {}, r, o)
    BY <1>1, <2>3, <2>4, <2>5, <2>8, BookRemoveKeeps
  <2>11. View(Heap') = View(r.heap)
    BY <1>1, <2>1, <2>4, <2>10, RetireShows
  <2>12. LeaveStep(View(h), View(r.heap), m, s, p, Shown(h.orders[o]))
    BY <2>9, LeftSteps
  <2> QED  BY <2>3, <2>11, <2>12 DEF MarketStep
<1> QED  BY <1>1, RejectShows DEF OnOrderDelete

(* on_cross_trade.                                                         *)
LEMMA CrossSteps ==
    ASSUME TypeOK, Sound, NEW l \in Locates, NEW closing \in BOOLEAN,
           OnCrossTrade(l, closing)
    PROVE  MarketStep(View(Heap), View(Heap'))
<1>1. CASE ~closing \/ instruments[l] # "booked"
  <2>1. Reject({"cross_trades"})
    BY <1>1 DEF OnCrossTrade, Reject
  <2> QED  BY <2>1, RejectShows
<1>2. CASE closing /\ instruments[l] = "booked"
  <2>1. Cleared(Heap, Heap', l)
    BY <1>2, CrossHandled
  <2>2. PICK h : h = Heap
    OBVIOUS
  <2>3. PICK g : g = Heap'
    OBVIOUS
  <2>4. HeapInv(h, {}) /\ Cleared(h, g, l)
    BY <2>1, <2>2, <2>3 DEF Sound, Consistent
  <2>5. View(g) = [View(h) EXCEPT ![l] = Vacant]
    BY <2>4, ClearShows DEF Vacant
  <2>6. View(Heap') = [View(Heap) EXCEPT ![l] = Vacant]
    BY <2>2, <2>3, <2>5
  <2> QED  BY <2>6 DEF MarketStep
<1> QED  BY <1>1, <1>2

(* on_order_replace, once the old order is out of its book, with slot o in *)
(* hand.                                                                   *)
LEMMA SubstituteSteps ==
    ASSUME TypeOK, Sound, NEW old \in Ids, NEW id \in Ids, index[old] # Null,
           index[id] = Null, NEW o \in OrderSlots,
           freeOrders[o] > 0, NEW q \in Quantities, NEW p \in Prices, NEW c,
           NEW r, r = BookRemove(TakeOrder(Heap, o), Home(old), index[old]), r.rc # 0,
           Substitute(r.heap, Home(old), old, id, o, orders[index[old]].side, q, p, r.rc, c)
    PROVE  MarketStep(View(Heap), View(Heap'))
<1>1. PICK x : x = index[old]
  OBVIOUS
<1>2. PICK g : g = TakeOrder(Heap, o)
  OBVIOUS
<1>3. PICK D : D = {o}
  OBVIOUS
<1>4. Consistent(g, D, index, instruments, live) /\ g.orders = orders /\ HeapInv(g, D)
  <2>1. Consistent(Heap, {}, index, instruments, live) /\ Heap.freeOrders[o] > 0
        /\ Heap.orders = orders
    BY DEF Sound, Heap
  <2>2. /\ Consistent(g, {} \cup {o}, index, instruments, live)
        /\ g.orders = Heap.orders
    BY <1>2, <2>1, TakeConsistent
  <2>3. {} \cup {o} = D
    BY <1>3
  <2> QED  BY <2>1, <2>2, <2>3 DEF Consistent
<1>5. View(g) = View(Heap)
  <2>1. HeapInv(Heap, {}) /\ Heap.freeOrders[o] > 0
    BY DEF Sound, Consistent, Heap
  <2> QED  BY <1>2, <2>1, TakeShows
<1>6. /\ x \in OrderSlots /\ x \notin D /\ g.freeOrders[x] = 0
      /\ Home(old) = g.orders[x].locate
  <2>1. x \in OrderSlots /\ freeOrders[x] = 0
    BY <1>1, IndexedSlot
  <2>2. g.freeOrders = [freeOrders EXCEPT ![o] = freeOrders[o] - 1]
    BY <1>2 DEF TakeOrder, Heap
  <2> QED  BY <1>1, <1>3, <1>4, <2>1, <2>2, TypesOf DEF Home
<1>7. PICK l : l = g.orders[x].locate
  OBVIOUS
<1>8. PICK s : s = g.orders[x].side
  OBVIOUS
<1>9. PICK p1 : p1 = g.orders[x].price
  OBVIOUS
<1>10. r = BookRemove(g, l, x) /\ IdsDiffer(g)
  BY <1>1, <1>2, <1>4, <1>6, <1>7, IdsInMarket
<1>11. /\ l \in Locates /\ s \in Sides /\ p1 \in Seen
       /\ Shown(g.orders[x]) \in Range(QueueAt(g, l, s, p1))
       /\ Left(g, r.heap, l, s, p1, x)
  BY <1>4, <1>6, <1>7, <1>8, <1>9, <1>10, BookRemoveShows
<1>12. LeaveStep(View(g), View(r.heap), l, s, p1, Shown(g.orders[x]))
  BY <1>11, LeftSteps
<1>13. HeapInv(r.heap, D \cup {x}) /\ x \in D \cup {x}
  <2>1. Removed(g, D, r, x)
    BY <1>4, <1>6, <1>7, <1>10, BookRemoveKeeps
  <2> QED  BY <2>1 DEF Removed, Unlinked
<1>14. PICK f : f = ReleaseOrder(r.heap, x)
  OBVIOUS
<1>15. HeapInv(f, D) /\ View(f) = View(r.heap) /\ o \in D
  <2>1. PICK E : E = D \cup {x}
    OBVIOUS
  <2>2. HeapInv(r.heap, E) /\ x \in E
    BY <1>13, <2>1
  <2>3. HeapInv(f, E \ {x})
    BY <1>6, <1>14, <2>2, ReleaseKeeps
  <2>4. E \ {x} = D
    BY <1>6, <2>1
  <2>5. View(f) = View(r.heap)
    BY <1>6, <1>14, <2>2, ReleaseShows
  <2> QED  BY <1>3, <2>3, <2>4, <2>5
<1>16. PICK k : k = NewOrder(f, o, id, l, s, p, q)
  OBVIOUS
<1>17. PICK a \in BookAdd(k, l, o) :
         \/ a.rc = 0 /\ Abandon(a.heap, o)
         \/ a.rc # 0 /\ Commit(a.heap)
  BY <1>1, <1>4, <1>6, <1>7, <1>8, <1>14, <1>16 DEF Substitute
<1>18. \/ View(a.heap) = View(f)
       \/ a.rc # 0 /\ p \in Seen /\ View(a.heap) = WithOrder(View(f), l, s, p, id, q)
  BY <1>11, <1>15, <1>16, NewOrderShows
<1>19. HeapInv(k, D) /\ k.orders[o].locate = l
  <2>1. /\ HeapInv(k, D)
        /\ k.orders = [f.orders EXCEPT ![o] =
              [id |-> id, locate |-> l, side |-> s, price |-> p, shares |-> q]]
    BY <1>11, <1>15, <1>16, NewKeeps
  <2>2. f.orders \in [OrderSlots -> OrderRecords]
    BY <1>15, HeapParts DEF HeapInv
  <2> QED  BY <2>1, <2>2
<1>20. (a.rc = 0 => a.heap = k) /\ (a.rc # 0 => a.heap \in Heaps)
  <2>1. /\ l \in Locates /\ HeapInv(k, D) /\ o \in D /\ k.orders[o].locate = l
        /\ a \in BookAdd(k, l, o)
    BY <1>11, <1>15, <1>19
  <2>2. (a.rc = 0 => a.heap = k) /\ (a.rc # 0 => HeapInv(a.heap, D \ {o}))
    BY <2>1, BookAddKeeps, SMTT(30)
  <2> QED  BY <2>2 DEF HeapInv
<1>21. View(Heap') = View(a.heap)
  <2>1. CASE a.rc = 0
    <3>1. PICK e : e = ReleaseOrder(k, o)
      OBVIOUS
    <3>2. HeapInv(e, D \ {o})
      BY <1>15, <1>19, <3>1, ReleaseKeeps
    <3>3. e \in Heaps /\ View(e) = View(k)
      BY <1>15, <1>19, <3>1, <3>2, ReleaseShows DEF HeapInv
    <3>4. Heap' = e
      BY <1>17, <1>20, <2>1, <3>1, <3>3, CommitIs DEF Abandon
    <3> QED  BY <1>20, <2>1, <3>3, <3>4
  <2>2. CASE a.rc # 0
    <3>1. Heap' = a.heap
      BY <1>17, <1>20, <2>2, CommitIs
    <3> QED  BY <3>1
  <2> QED  BY <2>1, <2>2
<1>22. CASE View(a.heap) = View(f)
  <2>1. LeaveStep(View(Heap), View(Heap'), l, s, p1, Shown(g.orders[x]))
    BY <1>5, <1>12, <1>15, <1>21, <1>22
  <2> QED  BY <2>1 DEF MarketStep
<1>23. CASE p \in Seen /\ View(a.heap) = WithOrder(View(f), l, s, p, id, q)
  <2>1. ~InMarket(View(Heap), id)
    BY IdsInMarket DEF Sound
  <2>2. SwapStep(View(Heap), View(Heap'), l, s, p1, Shown(g.orders[x]), id, q, p)
    BY <1>5, <1>12, <1>15, <1>21, <1>23, <2>1 DEF SwapStep, WithOrder
  <2> QED  BY <2>2 DEF MarketStep
<1> QED  BY <1>18, <1>22, <1>23

(* on_order_replace.                                                       *)
LEMMA ReplaceSteps ==
    ASSUME TypeOK, Sound, NEW l \in Locates, NEW old \in Ids, NEW id \in Ids,
           NEW q \in Quantities, NEW p \in Prices, OnOrderReplace(l, old, id, q, p)
    PROVE  MarketStep(View(Heap), View(Heap'))
<1>1. ASSUME index[old] # Null, ~Duplicate(id), NEW o \in Acquirable(freeOrders), o # Null,
             NEW r, r = BookRemove(TakeOrder(Heap, o), Home(old), index[old]), r.rc # 0,
             NEW c,
             Substitute(r.heap, Home(old), old, id, o, orders[index[old]].side, q, p, r.rc, c)
      PROVE  MarketStep(View(Heap), View(Heap'))
  <2>1. o \in OrderSlots /\ freeOrders[o] > 0 /\ index[id] = Null
    BY <1>1, Acquired DEF Duplicate
  <2> QED  BY <1>1, <2>1, SubstituteSteps
<1> QED  BY <1>1, RejectShows DEF OnOrderReplace

(* Every message is a step of the market.                                  *)
LEMMA NextSteps ==
    ASSUME TypeOK, Sound, [Next]_vars
    PROVE  MarketStep(View(Heap), View(Heap'))
<1>1. ASSUME NEW c, Reject(c) PROVE MarketStep(View(Heap), View(Heap'))
  BY <1>1, RejectShows
<1>2. CASE OnNonCrossTrade \/ OnBrokenTrade
  BY <1>1, <1>2 DEF OnNonCrossTrade, OnBrokenTrade
<1>3. ASSUME NEW l \in Locates, OnStockDirectory(l)
      PROVE  MarketStep(View(Heap), View(Heap'))
  BY <1>1, <1>3 DEF OnStockDirectory
<1>4. ASSUME NEW l \in Locates, NEW closing \in BOOLEAN, OnCrossTrade(l, closing)
      PROVE  MarketStep(View(Heap), View(Heap'))
  BY <1>4, CrossSteps
<1>5. ASSUME NEW l \in Locates, NEW id \in Ids, OnOrderDelete(l, id)
      PROVE  MarketStep(View(Heap), View(Heap'))
  BY <1>5, DeleteSteps
<1>6. ASSUME NEW l \in Locates, NEW id \in Ids, NEW q \in Quantities,
             \/ OnOrderExecuted(l, id, q)
             \/ OnOrderExecutedWithPrice(l, id, q)
             \/ OnOrderCancel(l, id, q)
      PROVE  MarketStep(View(Heap), View(Heap'))
  BY <1>6, ReduceSteps DEF OnOrderExecuted, OnOrderExecutedWithPrice, OnOrderCancel
<1>7. ASSUME NEW l \in Locates, NEW id \in Ids, NEW q \in Quantities, NEW p \in Prices,
             NEW s \in Sides, OnAddOrder(l, id, s, q, p)
      PROVE  MarketStep(View(Heap), View(Heap'))
  BY <1>7, AddSteps
<1>8. ASSUME NEW l \in Locates, NEW id \in Ids, NEW q \in Quantities, NEW p \in Prices,
             NEW new \in Ids, OnOrderReplace(l, id, new, q, p)
      PROVE  MarketStep(View(Heap), View(Heap'))
  BY <1>8, ReplaceSteps
<1>9. CASE UNCHANGED vars
  <2>1. Heap' = Heap
    BY <1>9 DEF vars, Heap
  <2> QED  BY <2>1 DEF MarketStep
<1> QED  BY <1>2, <1>3, <1>4, <1>5, <1>6, <1>7, <1>8, <1>9 DEF Next

(* A new engine shows an empty market.                                     *)
LEMMA InitShows == Init => MB!Init
<1> SUFFICES ASSUME Init PROVE MB!Init
  OBVIOUS
<1>1. \A l \in Locates, s \in Sides, p \in Prices : book[l].map[s][p] = Null
  BY DEF Init, EmptyBook
<1>2. Heap.book = book
  BY DEF Heap
<1>3. \A l \in Locates, s \in Sides, p \in Seen : QueueAt(Heap, l, s, p) = <<>>
  BY <1>1, <1>2 DEF QueueAt, Seen
<1>4. View(Heap) = [l \in Locates |-> Vacant]
  BY <1>3 DEF View, Vacant
<1> QED  BY <1>4, MarketIs DEF MB!Init, MB!Empty, Vacant, Seen

(* The engine implements the abstract book.                                *)
THEOREM EngineIsAMarket == Spec => ImplementsMarketBook
<1>1. Init => MB!Init
  BY InitShows
<1>2. EngineInv /\ [Next]_vars => [MB!Next]_Market
  <2> SUFFICES ASSUME EngineInv, [Next]_vars PROVE [MB!Next]_Market
    OBVIOUS
  <2>1. TypeOK /\ Sound
    BY SoundIs
  <2>2. MarketStep(View(Heap), View(Heap'))
    BY <2>1, NextSteps
  <2>3. MarketStep(Market, Market')
    BY <2>2, MarketIs
  <2> QED  BY <2>3, StepIs
<1> QED  BY <1>1, <1>2, EngineConsistent, PTL DEF Spec, ImplementsMarketBook, MB!Spec

=============================================================================
