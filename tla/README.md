# A TLA+ model of itchparser

itchparser maps a NASDAQ ITCH 5.0 capture into memory, splits it into messages
and rebuilds the order books of every instrument from them. This directory
holds TLA+ modules for its parts, TLC configurations that check them on small
instances, and TLAPS proofs of what matters most for instances of every size.
`PROJECT.json` says which lines each definition stands for.

## The system

| part | state | operations | what makes it correct |
|---|---|---|---|
| `MMapFile` | mapping, size, descriptor | open, move, release | one owner per mapping; nothing leaks when a step of open fails |
| `Parser`, `Stats` | read position, counters | `run`, `dispatch`, 23 handlers | frame boundaries are never lost; no read outside a frame; the report adds up |
| `MatchingEngine` | instruments, pools, index, gauges | `on_*`, one per message type | five structures stay consistent along every early return |
| `OrderBook`, `PriceLevel` | two sorted lists of levels, two level maps, queues of orders | add, execute, cancel, remove, clear | price-time priority; no empty, lost or double level |
| `FlatHashMap` | keys, values, size | insert, find, erase, clear | a map, whatever collides |
| `DirectOrderIndex` | array, overflow map, count | insert, find, erase | a map from live ids to live slots |
| `MemoryPool` | slots, free list | acquire, release | every slot free once or in use once |
| `LockFreeLogger` | ring, two indices, flags, file | log, start, stop, drain thread | nothing accepted is lost, repeated, reordered or raced on |
| `InstrumentMap` | instruments and their attributes | registration, halts, Reg SHO | an order finds its book |
| `ITCHProcessor`, `main` | all of the above | open, start, parse, stop, report | the report tells the truth |

Calls go one way: `ITCHProcessor` opens the file, starts the logger, runs the
parser over the buffer and stops the logger; the parser calls the engine once
per message; the engine calls one book, the two pools that all books share, and
the index. Everything but the logger runs on one thread. The logger has a
second one, the drain thread, which shares three atomics, the ring and the
descriptor with the thread that logs. The engine lives as long as the
processor, the mapping and the statistics as long as one run.

What is hard here is therefore of four kinds: long legal message sequences
that exhaust or reuse what the books share (slots, levels, index cells, links
written by hand); the interleavings of the two logger threads under stale
loads; boundaries (cut-off files, the key that marks an empty cell, a ring,
table or line that is full); and system calls that fail half-way, with owners
that change by moves. The hazards in `PROJECT.json` name the lines.

## Modules

| module | models | abstract module it implements |
|---|---|---|
| `MatchingEngine` (with `Lists`) | engine, books, levels, pools | `MarketBook` |
| `IntrusiveBook` (with `MemoryPool`, `Lists`) | one book with all of its links, bounded level maps, the free list inside the level slots | `MarketBook` |
| `DirectOrderIndex` | the order index over pool memory | `OrderMap` |
| `FlatHashMap` | the level map | `KeyValueMap` |
| `LockFreeLogger` | the logger and its thread | `BoundedLog` |
| `Parser` | `run`, `dispatch`, the counters of `Stats` | |
| `MMapFile` | objects that own mappings and descriptors, and the kernel's tables | |
| `InstrumentMap` | instruments and the handlers that write into them | |
| `ITCHProcessor` | composes `MMapFile` and `InstrumentMap` with a program that runs several files | |

`MC*` modules give values to constants that a .cfg cannot express, symmetry
sets and views. `*Proofs` modules hold theorems; `ListLemmas` has the facts about
sequences, walks and sums that the proofs of the engine and of the book share.
An operator introduced by a comment `MUTANT` is not part of the model: it is the definition after it with a
plausible bug, and shows that the property listed with it in `PROJECT.json`
notices that bug.

### MatchingEngine

One action is one handler `on_*`. A handler computes on a record `Heap` (order
memory, level memory, two free lists, books) with operators named after the
code's functions (`BookAdd`, `BookExecute`, `BookRemove`, `ClearLevels`), then
commits it, so that an action contains everything the handler does on each of
its paths, the gauges `live` and the counters it increments (`counted`)
included. An intrusive list is the sequence of slots it links. A free list is
the number of times each slot is on it, so that a double release is visible.
Which free slot is handed out is left open. The index is a map here and has a
module of its own; the level maps are maps that never fill up, but that lose
the key `kEmptyPrice` as the code does. MPIDs, timestamps, match numbers and
`peak_*` are left out, because no handler reads them; `LeakWarning` is the test
of the end-of-run report that compares the pools with the gauges.

`MarketBook` is what a reader of the book may rely on: per instrument, side and
price a queue of orders; an order joins at the back, shrinks in place, leaves,
is replaced by one at the back of the same side of the same book, or goes with
all of its book at the closing cross.

### IntrusiveBook

The same book one level down: `prev_` and `next_` of orders and levels, head
and tail of a level, the best level of a side, the level maps, and the pool of
levels whose free list lies over `price_cents` of a free slot. The operations
are those of `OrderBook`, one action each, with `PushBack`, `UnlinkOrder`,
`InsertLevelSorted`, `RemoveLevelFromList`, `OpenLevel` and `CloseLevel` named
after the functions they call and in the order of the calls: `CloseLevel` reads
the price it erases from the map before the release overwrites it. The caller is
the engine, so an order is constructed before `add_order` gets it, and the other
operations get an order that rests. A map has room for `MapCapacity` keys and
refuses the next one silently, as the release build does.

### DirectOrderIndex

The array holds pointers only: whether a cell belongs to an id is decided by
reading `order_id` through the pointer. So the memory of the pool is a variable
here and a released slot holds anything afterwards. `Remove` is look up, erase,
release. Adding and replacing take several steps, because the engine looks the
new id up first and inserts it last: `Begin` is lookups and acquire, `TakeOld`
erases and releases the order that a replace takes out, `Construct` writes the
new id into the slot, and `Insert` enters the order or, where `insert` returns
false (`Refused`), rolls it back; `Abandon` is an order for which the book found
no level. `InsertNeverRefused` is evaluated after `Construct`, on the memory that
`insert` reads, and says that the rollback is never taken.

### FlatHashMap

The hash function is chosen in the initial state, so all of them are checked.
`erase` takes out an entry and then one `Repair` step per turn of its loop,
because the question is whether that loop ends and what it leaves behind.

### LockFreeLogger

A program counter per thread. `headSeen`, `tailSeen` and `runningSeen` are what
the other thread sees of the three atomics, and catch up in steps of their own
(`SeeHead`, `SeeTail`, `SeeStop`), so every load may be stale. Release and
acquire appear as what is synchronised: whoever sees `running_` false sees all
entries published before; creating and joining the thread synchronises
everything. A message is its number. A line that the file takes only in part
counts as lost; whether the file ever refuses anything is chosen in the initial
state (`faulty`), and `BoundedLog` lets lines go missing only if it does. `out` is how far `drain_loop` has filled its scratch memory: each
`snprintf` may write `EntrySize` bytes there and may return more than that, any
natural number; a negative return, which the code skips, is left out, as the
format always yields characters.

### Parser

One action per way through the loop of `run`. Handlers are told apart by the
size of their message and by whether they call the engine; a call is remembered
as type and offset. Bytes have `Base` values. A file is what some sender framed,
cut off anywhere; the payloads it framed are kept beside the bytes so that
`FeedDelivered` can compare what arrives with what was sent. `IsFramed` says what
framing is, and TLC checks it of every file of the run (`FeedsAreFramed`).

### MMapFile, InstrumentMap, ITCHProcessor

`MMapFile` computes on a record `World` of objects, open descriptors and mapped
bytes. `open_into` has one outcome per system call that fails and one per
address `mmap` may choose; a new descriptor is the lowest number that is free,
so a number closed too early soon belongs to somebody else. Objects come and go
as they do in the code: the local `m` of `MMapFile::open`, `mapped` and `mmap`
of `ITCHProcessor::run` (in `main` the same two steps), and objects of the
program around it, which it constructs, opens, moves, assigns (to themselves
too) and destroys between runs.

`InstrumentMap` has `get_or_create`, which only a directory message and an
added order call, and the three handlers that write into an instrument. The
attributes of a directory message are one value, because it overwrites them all.

`ITCHProcessor` runs the steps of `run` against both: open, take over the
mapping, start the logger (which shares the descriptor table and may fail to
open its file), parse message by message, stop, report, return. The logger
accessor lets the program start the logger before a run. `fed` is a history
variable: all messages of all runs. It is there because the engine is not reset
between runs whereas the statistics are.

## Runs

| run | bounds | question |
|---|---|---|
| `engine_core` | 2 instruments, 3 ids, 2 prices, shares 1-2, 3 order slots, 2 level slots | do index, pools, lists, totals and gauges agree after every message, and is it a `MarketBook`? |
| `engine_limits` | 1 instrument, 4 ids over 3 order slots, 2 level slots, prices with `kEmptyPrice`, shares 0-2 | do rejections and rollbacks leak a slot or change a book, and what becomes of orders that no message can find? |
| `engine_replace`, `engine_mismatch` | the engine with few level slots, and with two instruments | the first two findings below |
| `book` | 4 orders, 3 prices, 3 level slots, shares 1-2, maps with room | are all links right in both directions, do maps and lists agree, is every level slot free or linked exactly once, and is it a `MarketBook`? |
| `book_full_map` | the same, maps with room for one level | the third finding below |
| `index` | 6 ids, 2 cells, 3 slots | do collisions, overflow and reused slots, in the middle of an add or a replace too, confuse the index or make it refuse an order? |
| `flatmap_safety` | 5 keys, 4 cells, 2 values, every hash function | chains that wrap, a full table, a key too many |
| `flatmap_liveness` | 4 keys, 4 cells | does the repair loop end? |
| `logger` | ring of 4, batches of 2, 5 messages, 1 drop, 2 starts, 2 levels, lines that fit and lines that do not | races, overruns, losses, order; does stop return, is everything drained? |
| `parser` | 3 frames of up to 4 bytes, bytes of 3 values, cut anywhere | are exactly the right messages delivered? |
| `processor` | 2 objects of the program, 3 descriptors, 3 addresses, files of 1 or 2 messages, 3 messages in all, 2 instruments | does everything that is opened have one owner, does a run leave nothing behind, do its message statistics start over, are instruments what the messages made them? |

Why these bounds reach the cases that matter. Three orders at one price give a
first, a middle and a last one to unlink; two prices give an insertion before
and behind an existing level, three prices one in between; two instruments give
a wrong locate and a bystander for the closing cross; fewer level slots than
combinations of instrument, side and price make the engine runs meet exhaustion.
With three prices a map of 4 never fills, and one of 1 does with the second
level. A table with more keys than cells is full, wraps, and repairs chains that
cover all of it. A ring of 4 that takes 5 messages reuses a slot, and batches of
2 split what waits; two lines fill the scratch memory, so a clamp that is
missing shows with lines of 3 where there is room for 2. Payloads of 4 bytes
need both bytes of their length where a byte has three values. Three descriptors
are as many as two objects of the program and a run can hold, so that the
logger, and sometimes the run itself, finds none left. `MaxFed` of 3 allows two
runs, the second with the instruments of the first; a failed open costs nothing
and may happen any number of times.

`MaxHead`, `MaxDropped` and `MaxStarts` bound counters of the logger, `MaxFed`
the messages fed to the processor, and `MaxSentinel` bounds how far `size_` of a
`FlatHashMap` may run ahead of its entries when `kEmpty` is stored; nothing is
compared with them outside of guards.

Slots and ids of the engine, order slots of the book, slots of the index, keys
and values of the table, and objects, addresses and instruments of the processor
are interchangeable (no order, no arithmetic, no `CHOOSE` among them), so
symmetry is sound there; it is not used with liveness, and the refinements
checked with it are of specifications without fairness. The view of the engine
runs leaves out `counted`, which no step reads.

Only `parser` switches the deadlock check off: `run` returns.

Fairness is used in two runs. `flatmap_liveness`: the loop of `erase` goes on.
`logger`: the drain thread is scheduled again and again, a store becomes
visible in finite time, and a call of `log` or `stop` that has begun proceeds.
Nothing makes the application call `log`, `start` or `stop`, and `StopReturns`
and `EventuallyDrained` hold without it.

## Findings

* `engine_replace`: `on_order_replace` removes the old order before it finds out
  that there is no level slot for the new one; both are gone, whereas the
  comment above the handler promises "on any failure leave the old order
  untouched". (The order-pool failure is handled as promised.)
* `engine_mismatch`: a message whose locate differs from its order's is counted
  under "Rejected events (book unchanged)" and then carried out.

* `book_full_map`: `insert_level_into_map` ignores that a full map refuses a
  level. The level is linked and counted, but cannot be found: the next order at
  its price opens a second level, and once there is room again, orders of one
  level are unlinked through the other. Where the map has room (`book`) nothing
  of the kind happens; the map's capacity is a constant that a deep book would
  have to exceed.

Noted while modelling, and not stated as runs:

* A single byte left over at the end of a file is not reported
  (`ReportExplainsBytes` says "all but at most one byte").
* A level at `kEmptyPrice` takes orders that no message can reach before the
  closing cross (`ClosingCrossReclaims` shows that they go then).
* A log line of 256 bytes or more is cut to 256, of which the last is the
  terminating zero in place of the newline.
* When `mmap` fails, `size_` of the object keeps the size of the file, so an
  object that is not valid may report a size; `OwnedOnce` concerns what is owned.
* `unknown_order_events` also counts duplicate adds, and `instruments_registered`
  does not count instruments that an order created (`InstrumentsFollowFeed` says
  which are counted). A halt or Reg SHO message for an instrument that does not
  exist yet is lost.
* The engine holds a reference to the logger and never logs.

## Proofs

| theorem | says, for all values of the constants | assumptions |
|---|---|---|
| `MatchingEngineProofs!TypeCorrect` | the state stays well typed and the gauges never go below zero | prices and quantities are naturals, pools finite, there is an instrument, null is no slot |
| `MatchingEngineProofs!OrderSlotsSafe`, `LevelSlotsSafe`, `IndexSafe` | every pool slot is free once or in use once, and the index knows exactly the orders that rest | the same |
| `MatchingEngineProofs!BooksSafe`, `GaugesSafe` | levels are sorted and agree with the maps and counts of their book; the gauges and the leak warning tell the truth | the same |
| `MatchingEngineProofs!TotalsSafe` | the total of a level is what the orders of its queue have left | the same |
| `MatchingEngineProofs!OrdersKept`, `CrossReclaims` | an order that stays keeps its place, side and price; the closing cross gives everything back | the same |
| `MatchingEngineProofs!EngineIsAMarket` | the engine implements `MarketBook` | the same |
| `IntrusiveBookProofs!QueuesStayLinked`, `LevelsStayLinked`, `FreeListStaysWhole` | links of orders and levels are right in both directions, maps, totals and counts agree with them, every level is free or linked exactly once | no map ever refuses a level (`MapsHaveRoom`); values are naturals, slots and prices finite, null is no slot |
| `IntrusiveBookProofs!BookIsAMarket` | the book in memory implements `MarketBook` | the same |
| `IntrusiveBookProofs!RoomForPrices`, `RoomForLevels`, `BookWithRoom` | no map refuses a level, and all of the above holds without that condition | a map has room for every price in use, or for every level of the pool |
| `DirectOrderIndexProofs!PointersAreLive`, `EntriesAreUnique`, `InsertNeverFails`, `SizeIsRight` | no stale pointer, no id in both places, no order that `insert` refuses after it was constructed, a right size | ids are naturals, capacity positive |
| `DirectOrderIndexProofs!IndexIsAMap` | the index implements `OrderMap` | the same |
| `FlatHashMapProofs!KeysHaveOneCell`, `FindNeverMisses` | a key is in one cell, and `find` gets what was last inserted, between calls of `erase` and within them | capacity positive, the empty mark is no key and null no value |
| `FlatHashMapProofs!TableIsAMap` | the table implements `KeyValueMap` | the same |
| `LockFreeLoggerProofs!LoggerTypes`, `RingNeverOverrun`, `EntriesNeverRace`, `StopLosesNothing`, `FileOutlivesDrain` | the safety of the ring and of stop | capacity and batch positive |
| `LockFreeLoggerProofs!ScratchNeverOverrun` | no line is formatted past the scratch memory, whatever natural number `snprintf` returns | lengths are naturals |
| `LockFreeLoggerProofs!LoggerIsAQueue` | the logger implements `BoundedLog`: nothing accepted is lost, doubled or reordered on its way to the file | all of the above, and the model's bounds are naturals |
| `ITCHProcessorProofs!FilesOwnedOnce`, `RunsCleanUp` | every descriptor and mapping has one owner, and a run gives back what it took | descriptors are naturals, sizes positive; the program's own objects are named differently from those of `run` |
| `ITCHProcessorProofs!ReportsOwnRun`, `InstrumentsOfFeed` | the message statistics (`stats_`) a run reports are its own; the instruments are those of the messages fed | the same, and locates are finite |
| `ParserProofs!NoFieldOutsideFrame`, `ReportIsComplete` | no read outside a frame, a report that adds up | message sizes positive, bytes are bytes |
| `ParserProofs!FeedIsDelivered` | the engine hears of exactly the messages that are due, in order | the same, and the files are framed feeds, cut off anywhere |

The arguments.

*Engine.* `EngineInv` joins the types, `HeapInv(Heap, {})`, `TotalsInv(Heap)`,
`IndexInv` and `GaugesInv`. None of the properties is inductive alone: that a release frees a
slot once needs the queues to be disjoint, that needs every order to lie in the
level the map finds for its price, and that the order exists at all is known
only from the index. In the middle of a handler the heap is not whole: an order
has been taken from the pool and is in no queue, or has left its queue and is
not yet released. `HeapInv(h, D)` is therefore an invariant of a heap `h` and the
set `D` of slots that the handler has in its hands; `D` is empty between
messages. There is one lemma for each operator on the heap, which says what it
keeps and how it changes `D`, and a handler is the sequence of its lemmas.
`Consistent` joins totals, index and gauges to that.

*Totals.* `TotalsInv` needs sums, and the fold that defines them is a recursion
over the subsets of a domain. A table of the sums over all subsets exists, and any
two ways to take terms out agree (`SumsExist`, `SumsAnyOrder`): were it otherwise
there would be a smallest subset where it fails, and `Smallest` rules that out
without an induction. Hence a term can be taken out of a sum (`TotalOneOut`) and
terms can be renumbered (`TotalRenamed`), which is what `push_back`, a fill and an
unlink do to the queue of a level. A level that lost its order's shares but not
yet the order (`TotalsWithout`) is between two statements of `execute_order` or
`remove_order`.

*Engine as a market.* `View(h)` is the market a heap shows: at a price, the
queue of the level the map finds there. Since ids differ (the index points each
at another slot), removing an order from a queue is removing its entry from the
view. Every handler then is a step `Join`, `Shrink`, `Leave`, `Swap` or `Wipe`,
or shows nothing.

*Book.* `Inv` says that there are lists behind the links: `L` of the levels of
each side, `Q` of the orders of each level, `F` of the free levels; that they are
linked in both directions (`Chain`), share nothing and miss nothing; and that
maps, prices, totals and counts are those of the lists. `QueuesLinked`,
`LevelsLinked` and `FreeListWhole` each need the others: unlinking trusts a `prev_`
that is right only if the order is in one queue, the level that becomes empty is
found in the list only if the map named the right one, and releasing it keeps the
free list whole only if it was not free. Within an operation the invariant bends
in two ways, and only these: `Sound` has a set `E` of levels that are in use
though empty (a level just opened, or about to be closed), and `Shaped` leaves out
totals, which `execute_order` and `remove_order` change before they unlink. What
an operation writes (`PushIs`, `LevelInserted`, `LevelRemoved`) is kept apart from
what that does to the lists (`OpenKeeps`, `CloseKeeps`, `AddKeeps`).

A walk along links is a recursive function of the slots already seen. That it
ends, and returns the list the links describe, is shown without an induction: a
table of all walks exists (`WalksExist`), because there would be a smallest
length without one otherwise, and on a path every table gives the rest of that
path (`PathIsFollow`). In the same way the pool after `clear_levels` is followed
from one release to the next (`ReleaseAll`). `View` is to the book what it is to
the engine: the queue at a price, with the shares that are left.

`MapsHaveRoom` is a condition that cannot be dropped: `book_full_map` shows
`QueuesLinked` broken once a map has refused a level. It is also all that is
needed. A side with no more than `kPriceLevelMapCapacity` prices in use meets it
(`RoomForPrices`), and so does a pool with no more levels than that
(`RoomForLevels`); the default build has room for 2^13 levels in a map and 2^22 in
the pool, so there it is the depth of the books that has to meet it.

*Index.* `IndexInv` joins types, `NoStalePointer`, `NoDoubleEntry` and
`AddingApart`; none is inductive alone, because `find` decides by memory that only
`NoStalePointer` vouches for, and erasing from the array is right only if the id
is not in the overflow too. `AddingApart` says of an order on its way that no
entry points to its slot, so that the constructor writes where the index does not
look, and that its id is still absent; hence `insert` has no reason to refuse it
(`NotRefused`). One lemma says what storing does to the index (`StoreIsPut`) and
one what erasing and releasing does (`EraseIsTake`). Size needs `CountInv`, a
cardinality that every step changes by one or not at all.

*Hash map.* `ChainsWhole` is the invariant of linear probing: no empty cell lies
between the home of a key and the cell it is in. While `erase` shifts a chain
back there is one, the hole, and the invariant excepts what lies behind it and
has not been looked at. The arithmetic is that of distances modulo the capacity.

*Logger.* `LoggerInv` adds to types and `RingBounded` what each thread knows in
the middle of a call (`InFlight`: the test for a full ring still holds when the
entry is published; a batch lies below the head the drain has seen) and the life
of the thread (`Lifecycle`: a drain that has seen the stop has seen every entry).
That two indices less than a ring apart have different slots is `SlotsDiffer`.
Scratch memory needs `ScratchUsed`, that the lines so far take at most an entry
each, besides the bound on a batch. For the refinement, `EntriesInv` numbers the
entries: those in the ring, in the scratch memory and in the file are
consecutive, and `PendingInv` says which of them the abstract log still holds.

*Processor.* `ProcessorInv` says, for each point of `run`, which object owns each
descriptor and mapping (`Own`); there is one lemma for each operation of
`MMapFile`, the move operations with themselves as the argument included.
`FeedInv` says of every instrument what the messages fed so far make it, by the
first message about it and the latest of each kind, so that the step is about one
message only.

*Parser.* `CallsStayInFrame` is inductive because it bounds every message by `p`
and `p` by the buffer; the report is a balance (`Explains`) that each way through
the loop keeps. For `FeedDelivered` the invariant is `Progress`: while `run` goes on
it is about to read the frame of some message `j` of the feed and the engine has
heard of the messages due before `j` (`AtFrame`); when it stops, of all. A step goes
to frame `j + 1` whatever it did with `j`, and stops early only where the file is
cut, behind which nothing is due (`NothingDueBehind`). Where the frames start is a
recursive function of the payloads, whose defining equations follow from the
existence of a table of starts (`StartsAre`).

Only model-checked: liveness (`StopReturns`, `EventuallyDrained`, `EraseEnds`),
which is out of the prover's reach. Every other property of the passing runs is
stated by a theorem.

## Not modelled

* The arguments of `main` and everything that is printed: pure I/O. The steps
  `main` takes are those of `ITCHProcessor::run`, once.
* The clock of `Stats` and the rates computed from it: floating point that
  nothing reads but the report.
* `peak_*` of the engine and `collisions_` of the index: statistics that no step
  reads.
* Packed structs, enums and byte swapping: data layout without state. The sizes
  of messages are constants of `Parser`, and `load_be16` is an operator there.
* Functions without a caller: `clear` of the index, `clear_and_release`,
  `clear_metadata`.
* C++ exceptions (`std::bad_alloc`, a thread that cannot be created): no code in
  `src/` handles one.
* `madvise`, prefaulting, branch hints: no change of state.

64-bit indices and counters do not wrap.

## Plan

Done, in this order: engine and `MarketBook`; index and `OrderMap`; logger and
`BoundedLog`; hash map and `KeyValueMap`; parser; the book at pointer level with
its pool; lengths of log lines; files, instruments and the processor that
composes them. The engine came first, because everything else serves it.

Proofs came after the models: first what is local to a component, then the heap
of the engine, then the refinements, and last the two that need an account of
walks and of recursion over the input without an induction, `IntrusiveBook` and
`FeedDelivered`.

Every safety property, action property and refinement that a passing run checks
is also proved; liveness stays with TLC. What would be worth adding next is a book
at pointer level inside the engine, with the order pool's own free list, so that
the step from `IntrusiveBook` to the sequences of `MatchingEngine` is a refinement
too and not two implementations of the same `MarketBook`.
