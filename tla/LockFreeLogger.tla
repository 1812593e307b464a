--------------------------- MODULE LockFreeLogger ---------------------------
(***************************************************************************)
(* LockFreeLogger: a ring of log entries between one producer, the         *)
(* application thread, which also calls start and stop, and one consumer,  *)
(* the drain thread, which writes the entries to a file.                   *)
(*                                                                         *)
(* The two threads share three atomics.  A load may return an older value  *)
(* than the last one stored: headSeen, runningSeen and tailSeen are what   *)
(* the other thread sees, and they catch up in actions of their own.       *)
(* Acquire and release order them: whoever sees running == false also sees *)
(* the entries published before it, and creating and joining the thread    *)
(* synchronises everything.                                                *)
(*                                                                         *)
(* Abstractions.  An entry is the number of its message; its timestamp,    *)
(* tag and text are left out but for the length of its line.  A line the   *)
(* file takes only in part counts as lost.  The retries of write after     *)
(* EINTR are one step with it.  Starting a running logger and stopping a   *)
(* stopped one do nothing and are left out.  Indices are 64 bits wide in   *)
(* the code and do not wrap here.                                          *)
(***************************************************************************)
EXTENDS Integers, Sequences

CONSTANTS
    Capacity,      \* capacity_, a power of two: h & mask_ is h % Capacity
    Batch,         \* kBatch
    Levels,        \* LogLevel
    EntrySize,     \* sizeof(LogEntry), the room of a line in scratch
    Lengths,       \* what snprintf may return
    MaxHead,       \* bound: messages accepted
    MaxDropped,    \* bound: messages dropped
    MaxStarts      \* bound: calls of start

ASSUME CapacityPositive == Capacity \in Nat \ {0}
ASSUME BatchPositive == Batch \in Nat \ {0}
ASSUME LengthsAreNat == EntrySize \in Nat /\ Lengths \subseteq Nat
ASSUME LevelsAreNat == Levels # {} /\ Levels \subseteq Nat
ASSUME BoundsAreNat == MaxHead \in Nat /\ MaxDropped \in Nat /\ MaxStarts \in Nat

VARIABLES
    head, tail,         \* head_, tail_
    headSeen, tailSeen, \* head_ as the drain, tail_ as the producer sees it
    ring,               \* ring_
    running,            \* running_
    runningSeen,        \* running_ as the drain sees it
    dropped,            \* dropped_
    minLevel,           \* min_level_
    fdOpen,             \* fd_ >= 0
    faulty,             \* whether ::write may give up on a batch
    file,               \* the lines in the file
    starts,             \* how often start opened the file
    app,                \* where the application thread is
    drain,              \* where the drain thread is
    residue,            \* whether the drain is in its second loop
    count,              \* count in drain_loop
    lines,              \* what scratch holds
    out                 \* out - scratch.data()

shared == <<head, tail, headSeen, tailSeen, ring, running, runningSeen>>
drainVars == <<drain, residue, count, lines, out>>
rest == <<dropped, minLevel, fdOpen, faulty, file, starts>>
vars == <<shared, rest, app, drainVars>>

Slot(i) == i % Capacity

Init ==
    /\ head = 0 /\ tail = 0 /\ headSeen = 0 /\ tailSeen = 0
    /\ ring = [s \in 0..(Capacity - 1) |-> 0]
    /\ running = FALSE /\ runningSeen = FALSE
    /\ dropped = 0
    /\ minLevel \in Levels
    /\ fdOpen = FALSE /\ faulty \in BOOLEAN /\ file = <<>> /\ starts = 0
    /\ app = "idle"
    /\ drain = "off" /\ residue = FALSE /\ count = 0 /\ lines = <<>> /\ out = 0

-----------------------------------------------------------------------------
(* The application thread.                                                 *)

SetMinLevel(level) ==
    /\ app = "idle"
    /\ minLevel' = level
    /\ UNCHANGED <<shared, dropped, fdOpen, faulty, file, starts, app, drainVars>>

(* start: open the file, raise running, create the drain thread.  Nobody   *)
(* else runs before the thread does, so this is one step; a failing open   *)
(* changes nothing.                                                        *)
Start ==
    /\ app = "idle" /\ ~running /\ starts < MaxStarts
    /\ starts' = starts + 1
    /\ fdOpen' = TRUE /\ file' = <<>>
    /\ running' = TRUE /\ runningSeen' = TRUE
    /\ headSeen' = head
    /\ drain' = "check" /\ residue' = FALSE /\ count' = 0 /\ lines' = <<>> /\ out' = 0
    /\ UNCHANGED <<head, tail, tailSeen, ring, dropped, minLevel, faulty, app>>

\* MUTANT: `h - t > capacity_'.
LogCheckOffByOne(level) ==
    /\ app = "idle"
    /\ level >= minLevel
    /\ \/ /\ head - tailSeen > Capacity
          /\ dropped < MaxDropped
          /\ dropped' = dropped + 1
          /\ UNCHANGED app
       \/ /\ head - tailSeen <= Capacity
          /\ head < MaxHead
          /\ app' = "write"
          /\ UNCHANGED dropped
    /\ UNCHANGED <<shared, minLevel, fdOpen, faulty, file, starts, drainVars>>

(* log, up to the test for a full ring.  A message below the minimum level *)
(* changes nothing.                                                        *)
LogCheck(level) ==
    /\ app = "idle"
    /\ level >= minLevel
    /\ \/ /\ head - tailSeen >= Capacity
          /\ dropped < MaxDropped
          /\ dropped' = dropped + 1
          /\ UNCHANGED app
       \/ /\ head - tailSeen < Capacity
          /\ head < MaxHead
          /\ app' = "write"
          /\ UNCHANGED dropped
    /\ UNCHANGED <<shared, minLevel, fdOpen, faulty, file, starts, drainVars>>

(* log fills the entry.                                                    *)
LogWrite ==
    /\ app = "write"
    /\ app' = "publish"
    /\ ring' = [ring EXCEPT ![Slot(head)] = head]
    /\ UNCHANGED <<head, tail, headSeen, tailSeen, running, runningSeen, rest,
                   drainVars>>

(* log stores head_.                                                       *)
LogPublish ==
    /\ app = "publish"
    /\ app' = "idle"
    /\ head' = head + 1
    /\ UNCHANGED <<tail, headSeen, tailSeen, ring, running, runningSeen, rest,
                   drainVars>>

(* stop lowers running and waits.                                          *)
StopSignal ==
    /\ app = "idle" /\ running
    /\ app' = "join"
    /\ running' = FALSE
    /\ UNCHANGED <<head, tail, headSeen, tailSeen, ring, runningSeen, rest,
                   drainVars>>

\* MUTANT: does not wait for the thread.
StopJoinEarly ==
    /\ app = "join"
    /\ app' = "idle"
    /\ fdOpen' = FALSE
    /\ UNCHANGED <<shared, dropped, minLevel, faulty, file, starts, drainVars>>

(* stop, once the drain thread has ended.                                  *)
StopJoin ==
    /\ app = "join" /\ drain = "done"
    /\ app' = "idle"
    /\ drain' = "off"
    /\ tailSeen' = tail
    /\ fdOpen' = FALSE
    /\ UNCHANGED <<head, tail, headSeen, ring, running, runningSeen, dropped,
                   minLevel, faulty, file, starts, residue, count, lines, out>>

-----------------------------------------------------------------------------
(* The drain thread.                                                       *)

\* MUTANT: no second loop.
DrainCheckEnds ==
    /\ drain = "check"
    /\ drain' = IF runningSeen THEN "load" ELSE "done"
    /\ UNCHANGED <<shared, rest, app, residue, count, lines, out>>

(* The condition of the first loop.                                        *)
DrainCheck ==
    /\ drain = "check"
    /\ drain' = "load"
    /\ residue' = ~runningSeen
    /\ UNCHANGED <<shared, rest, app, count, lines, out>>

Smaller(a, b) == IF a <= b THEN a ELSE b

\* MUTANT: the second loop waits for entries as the first one does.
DrainLoadWaits ==
    /\ drain = "load"
    /\ IF headSeen = tail
       THEN UNCHANGED drainVars
       ELSE /\ drain' = "read"
            /\ count' = Smaller(Batch, headSeen - tail)
            /\ lines' = <<>> /\ out' = 0
            /\ UNCHANGED residue
    /\ UNCHANGED <<shared, rest, app>>

(* Both loops load head_; with nothing to do the first one sleeps and      *)
(* starts over, the second one ends.                                       *)
DrainLoad ==
    /\ drain = "load"
    /\ IF headSeen = tail
       THEN /\ drain' = IF residue THEN "done" ELSE "check"
            /\ UNCHANGED <<count, lines, out>>
       ELSE /\ drain' = "read"
            /\ count' = Smaller(Batch, headSeen - tail)
            /\ lines' = <<>> /\ out' = 0
    /\ UNCHANGED <<shared, rest, app, residue>>

\* MUTANT: what snprintf returns is what it would have written.
UsedUnclamped(n) == n

(* How far out moves on after snprintf returned n.                         *)
Used(n) == Smaller(n, EntrySize)

(* One turn of the formatting loop: snprintf may write EntrySize bytes.    *)
DrainRead ==
    /\ drain = "read"
    /\ lines' = Append(lines, ring[Slot(tail + Len(lines))])
    /\ \E n \in Lengths : out' = out + Used(n)
    /\ drain' = IF Len(lines) + 1 = count THEN "write" ELSE "read"
    /\ UNCHANGED <<shared, rest, app, residue, count>>

(* write_batch: nothing without a file, else the batch or, when ::write    *)
(* fails, its first k lines.                                               *)
DrainWrite ==
    /\ drain = "write"
    /\ drain' = "publish"
    /\ IF fdOpen
       THEN \E k \in (IF faulty THEN 0..count ELSE {count}) :
                file' = file \o SubSeq(lines, 1, k)
       ELSE UNCHANGED file
    /\ UNCHANGED <<shared, dropped, minLevel, fdOpen, faulty, starts, app,
                   residue, count, lines, out>>

\* MUTANT: frees a full batch whatever was read.
DrainPublishBatch ==
    /\ drain = "publish"
    /\ drain' = IF residue THEN "load" ELSE "check"
    /\ tail' = tail + Batch
    /\ count' = 0 /\ lines' = <<>> /\ out' = 0
    /\ UNCHANGED <<head, headSeen, tailSeen, ring, running, runningSeen, rest,
                   app, residue>>

(* Both loops store tail_ and start over.                                  *)
DrainPublish ==
    /\ drain = "publish"
    /\ drain' = IF residue THEN "load" ELSE "check"
    /\ tail' = tail + count
    /\ count' = 0 /\ lines' = <<>> /\ out' = 0
    /\ UNCHANGED <<head, headSeen, tailSeen, ring, running, runningSeen, rest,
                   app, residue>>

-----------------------------------------------------------------------------
(* Stores become visible to the other thread.                              *)

SeeHead ==
    /\ headSeen # head
    /\ headSeen' = head
    /\ UNCHANGED <<head, tail, tailSeen, ring, running, runningSeen, rest, app,
                   drainVars>>

SeeTail ==
    /\ tailSeen # tail
    /\ tailSeen' = tail
    /\ UNCHANGED <<head, tail, headSeen, ring, running, runningSeen, rest, app,
                   drainVars>>

\* MUTANT: memory_order_relaxed on running_.
SeeStopRelaxed ==
    /\ runningSeen /\ ~running
    /\ runningSeen' = FALSE
    /\ UNCHANGED <<head, tail, headSeen, tailSeen, ring, running, rest, app,
                   drainVars>>

(* The exchange in stop releases, the load in the loop condition acquires. *)
SeeStop ==
    /\ runningSeen /\ ~running
    /\ runningSeen' = FALSE
    /\ headSeen' = head
    /\ UNCHANGED <<head, tail, tailSeen, ring, running, rest, app, drainVars>>

-----------------------------------------------------------------------------
App ==
    \/ Start
    \/ LogWrite
    \/ LogPublish
    \/ StopSignal
    \/ StopJoin
    \/ \E level \in Levels : SetMinLevel(level) \/ LogCheck(level)

Drain == DrainCheck \/ DrainLoad \/ DrainRead \/ DrainWrite \/ DrainPublish

See == SeeHead \/ SeeTail \/ SeeStop

Next == App \/ Drain \/ See

(* The drain thread keeps being scheduled, a store becomes visible in      *)
(* finite time, and a call of log or stop that has begun goes on.  Nothing *)
(* makes the application call log, start or stop.                          *)
Fairness ==
    /\ WF_vars(Drain)
    /\ WF_vars(SeeHead) /\ WF_vars(SeeTail) /\ WF_vars(SeeStop)
    /\ WF_vars(LogWrite) /\ WF_vars(LogPublish) /\ WF_vars(StopJoin)

Spec == Init /\ [][Next]_vars
FairSpec == Spec /\ Fairness

-----------------------------------------------------------------------------
(* Properties.                                                             *)

(* Every variable has its type.                                            *)
TypeOK ==
    /\ head \in Nat /\ tail \in Nat /\ headSeen \in Nat /\ tailSeen \in Nat
    /\ ring \in [0..(Capacity - 1) -> Nat]
    /\ running \in BOOLEAN /\ runningSeen \in BOOLEAN
    /\ dropped \in Nat
    /\ minLevel \in Levels
    /\ fdOpen \in BOOLEAN /\ faulty \in BOOLEAN
    /\ file \in Seq(Nat)
    /\ starts \in Nat
    /\ app \in {"idle", "write", "publish", "join"}
    /\ drain \in {"off", "check", "load", "read", "write", "publish", "done"}
    /\ residue \in BOOLEAN
    /\ count \in 0..Batch
    /\ lines \in Seq(Nat)
    /\ out \in Nat

(* However stale the indices are that log and drain_loop compare, the ring *)
(* never holds more than it has room for, nor less than nothing.           *)
RingBounded ==
    /\ tailSeen <= tail /\ tail <= headSeen /\ headSeen <= head
    /\ head <= tail + Capacity

(* log never fills the entry that drain_loop is reading: entries are plain *)
(* memory, so that would be a data race.                                   *)
NoSlotRace ==
    app = "write" /\ drain = "read" => Slot(head) # Slot(tail + Len(lines))

(* A logger that was stopped has drained every message it accepted, and    *)
(* the drain thread is alive exactly from start to the end of stop.        *)
StopFlushes ==
    /\ drain = "done" => tail = head
    /\ drain = "off" <=> ~running /\ app # "join"

(* The drain thread never finds its file closed under it.                  *)
FileOpenWhileDraining == drain # "off" => fdOpen

(* Whenever drain_loop formats an entry, scratch has room for all that     *)
(* snprintf may write, however long the lines before it would have been.   *)
(* (A negative return, which this format never gives, is skipped by the    *)
(* code and takes no room, as a length of zero does here.)                 *)
ScratchFits == drain = "read" => out + EntrySize <= EntrySize * Batch

(* stop() returns.                                                         *)
StopReturns == app = "join" ~> app = "idle"

(* A message published while the logger runs is taken out of the ring,     *)
(* even if the application logs nothing more or stops the logger.          *)
EventuallyDrained ==
    \A n \in 1..MaxHead : head >= n /\ drain # "off" ~> tail >= n

-----------------------------------------------------------------------------
(* A batch has left the queue when it is in the file, not when its slots   *)
(* are given back.                                                         *)
Pending ==
    LET from == tail + (IF drain = "publish" THEN count ELSE 0)
    IN  [i \in 1..(head - from) |-> ring[Slot(from + i - 1)]]

BL == INSTANCE BoundedLog WITH accepted <- head, pending <- Pending, written <- file

(* Ring, batches and stale indices amount to a bounded queue that delivers *)
(* in order: an accepted message is neither overwritten in its slot nor    *)
(* read before it is written.                                              *)
ImplementsBoundedLog == BL!Spec

=============================================================================
