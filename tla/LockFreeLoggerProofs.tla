------------------------ MODULE LockFreeLoggerProofs ------------------------
(***************************************************************************)
(* For any capacity, batch size and bounds: the ring is never overrun, its *)
(* entries are never read and written at once, and a logger that stopped   *)
(* has emptied it.                                                         *)
(***************************************************************************)
EXTENDS LockFreeLogger, SequenceTheorems, TLAPS

Working == {"read", "write", "publish"}

(* What log knows between its test for a full ring and its store of head_, *)
(* and drain_loop between its load of head_ and its store of tail_.        *)
InFlight ==
    /\ app \in {"write", "publish"} => head - tailSeen < Capacity
    /\ drain \in Working => count > 0 /\ tail + count <= headSeen
    /\ drain = "read" => Len(lines) < count
    /\ drain = "write" => Len(lines) = count

(* The life of the drain thread: while stop waits for it, running_ is      *)
(* false, and a drain that has seen so has seen every entry too.           *)
Lifecycle ==
    /\ drain = "off" <=> ~running /\ app # "join"
    /\ fdOpen <=> drain # "off"
    /\ app = "join" => ~running
    /\ running => runningSeen
    /\ drain # "off" /\ ~runningSeen => headSeen = head
    /\ drain # "off" /\ residue => ~runningSeen
    /\ drain = "done" => residue /\ tail = headSeen

LoggerInv == TypeOK /\ RingBounded /\ InFlight /\ Lifecycle

USE CapacityPositive, BatchPositive, LengthsAreNat, LevelsAreNat, BoundsAreNat

(* The mask keeps every index inside the ring.                             *)
LEMMA SlotInRange == \A i \in Nat : Slot(i) \in 0..(Capacity - 1)
  BY DEF Slot

(* Indices less than a ring apart have different slots.                    *)
LEMMA SlotsDiffer ==
  ASSUME NEW i \in Nat, NEW j \in Nat, i < j, j - i < Capacity
  PROVE  Slot(i) # Slot(j)
<1>. DEFINE d == (j \div Capacity) - (i \div Capacity)
<1>1. /\ i = Capacity * (i \div Capacity) + (i % Capacity)
      /\ j = Capacity * (j \div Capacity) + (j % Capacity)
      /\ i \div Capacity \in Int /\ j \div Capacity \in Int
      /\ i % Capacity \in Int /\ j % Capacity \in Int
  OBVIOUS
<1>2. d \in Int
  BY <1>1
<1>3. Capacity * d = Capacity * (j \div Capacity) - Capacity * (i \div Capacity)
  BY <1>1
<1>4. i % Capacity = j % Capacity => j - i = Capacity * d
  BY <1>1, <1>3
<1>. HIDE DEF d
<1>5. CASE d <= 0
  <2>1. Capacity * d <= 0
    BY <1>2, <1>5
  <2>. QED  BY <1>2, <1>4, <2>1 DEF Slot
<1>6. CASE d >= 1
  <2>1. Capacity * d >= Capacity
    BY <1>2, <1>6
  <2>. QED  BY <1>2, <1>4, <2>1 DEF Slot
<1>. QED  BY <1>2, <1>5, <1>6

(* A new logger satisfies the invariant.                                   *)
LEMMA LoggerInvInitially == Init => LoggerInv
<1>. SUFFICES ASSUME Init PROVE LoggerInv
  OBVIOUS
<1>1. TypeOK
  <2>1. ring \in [0..(Capacity - 1) -> Nat]
    BY DEF Init
  <2>2. file \in Seq(Nat) /\ lines \in Seq(Nat)
    BY EmptySeq DEF Init
  <2>3. running \in BOOLEAN /\ runningSeen \in BOOLEAN /\ fdOpen \in BOOLEAN
        /\ faulty \in BOOLEAN /\ residue \in BOOLEAN
    BY DEF Init
  <2>. QED  BY <2>1, <2>2, <2>3 DEF Init, TypeOK
<1>2. RingBounded /\ InFlight /\ Lifecycle
  BY DEF Init, RingBounded, InFlight, Lifecycle, Working
<1>. QED  BY <1>1, <1>2 DEF LoggerInv

(* No step of the application thread breaks it.                            *)
LEMMA AppKeeps ==
  ASSUME LoggerInv, App
  PROVE  LoggerInv'
<1>. USE DEF LoggerInv, shared, rest, drainVars
<1>1. CASE Start
  <2>1. TypeOK'
    <3>1. file' \in Seq(Nat) /\ lines' \in Seq(Nat)
      BY <1>1, EmptySeq DEF Start
    <3>2. running' \in BOOLEAN /\ runningSeen' \in BOOLEAN /\ fdOpen' \in BOOLEAN
          /\ faulty' \in BOOLEAN /\ residue' \in BOOLEAN
      BY <1>1 DEF Start, TypeOK
    <3>. QED  BY <1>1, <3>1, <3>2 DEF Start, TypeOK
  <2>2. RingBounded' /\ InFlight'
    BY <1>1 DEF Start, TypeOK, RingBounded, InFlight, Lifecycle, Working
  <2>3. Lifecycle'
    BY <1>1 DEF Start, TypeOK, RingBounded, InFlight, Lifecycle, Working
  <2>. QED  BY <2>1, <2>2, <2>3
<1>2. CASE LogWrite
  <2>1. TypeOK'
    BY <1>2, SlotInRange DEF LogWrite, TypeOK
  <2>. QED
    BY <1>2, <2>1 DEF LogWrite, TypeOK, RingBounded, InFlight, Lifecycle, Working
<1>3. CASE LogPublish
  <2>1. TypeOK'
    BY <1>3 DEF LogPublish, TypeOK
  <2>2. RingBounded' /\ InFlight'
    BY <1>3 DEF LogPublish, TypeOK, RingBounded, InFlight, Lifecycle, Working
  <2>3. Lifecycle'
    BY <1>3 DEF LogPublish, TypeOK, RingBounded, InFlight, Lifecycle, Working
  <2>. QED  BY <2>1, <2>2, <2>3
<1>4. CASE StopSignal
  <2>1. TypeOK'
    BY <1>4 DEF StopSignal, TypeOK
  <2>2. RingBounded' /\ InFlight'
    BY <1>4 DEF StopSignal, TypeOK, RingBounded, InFlight, Lifecycle, Working
  <2>3. Lifecycle'
    BY <1>4 DEF StopSignal, TypeOK, RingBounded, InFlight, Lifecycle, Working
  <2>. QED  BY <2>1, <2>2, <2>3
<1>5. CASE StopJoin
  <2>1. TypeOK'
    BY <1>5 DEF StopJoin, TypeOK
  <2>2. RingBounded' /\ InFlight'
    BY <1>5 DEF StopJoin, TypeOK, RingBounded, InFlight, Lifecycle, Working
  <2>3. Lifecycle'
    BY <1>5 DEF StopJoin, TypeOK, RingBounded, InFlight, Lifecycle, Working
  <2>. QED  BY <2>1, <2>2, <2>3
<1>6. ASSUME NEW level \in Levels, SetMinLevel(level) PROVE LoggerInv'
  BY <1>6 DEF SetMinLevel, TypeOK, RingBounded, InFlight, Lifecycle, Working
<1>7. ASSUME NEW level \in Levels, LogCheck(level) PROVE LoggerInv'
  BY <1>7 DEF LogCheck, TypeOK, RingBounded, InFlight, Lifecycle, Working
<1>. QED  BY <1>1, <1>2, <1>3, <1>4, <1>5, <1>6, <1>7 DEF App

(* No step of the drain thread breaks it.                                  *)
LEMMA DrainKeeps ==
  ASSUME LoggerInv, Drain
  PROVE  LoggerInv'
<1>. USE DEF LoggerInv, shared, rest, drainVars
<1>1. CASE DrainCheck
  <2>1. TypeOK'
    BY <1>1 DEF DrainCheck, TypeOK
  <2>2. RingBounded' /\ InFlight'
    BY <1>1 DEF DrainCheck, TypeOK, RingBounded, InFlight, Lifecycle, Working
  <2>3. Lifecycle'
    BY <1>1 DEF DrainCheck, TypeOK, RingBounded, InFlight, Lifecycle, Working
  <2>. QED  BY <2>1, <2>2, <2>3
<1>2. CASE DrainLoad
  <2>1. CASE headSeen = tail
    <3>1. TypeOK' /\ RingBounded' /\ InFlight'
      BY <1>2, <2>1 DEF DrainLoad, TypeOK, RingBounded, InFlight, Working
    <3>2. Lifecycle'
      BY <1>2, <2>1 DEF DrainLoad, TypeOK, Lifecycle
    <3>. QED  BY <3>1, <3>2
  <2>2. CASE headSeen # tail
    <3>1. count' \in 1..Batch /\ tail + count' <= headSeen
      BY <1>2, <2>2 DEF DrainLoad, Smaller, TypeOK, RingBounded
    <3>2. TypeOK' /\ RingBounded' /\ InFlight'
      BY <1>2, <2>2, <3>1, SMTT(30) DEF DrainLoad, TypeOK, RingBounded, InFlight, Working
    <3>3. Lifecycle'
      BY <1>2, <2>2 DEF DrainLoad, TypeOK, Lifecycle
    <3>. QED  BY <3>2, <3>3
  <2>. QED  BY <2>1, <2>2
<1>3. CASE DrainRead
  <2>1. ring[Slot(tail + Len(lines))] \in Nat
    <3>1. tail + Len(lines) \in Nat
      BY LenProperties DEF TypeOK
    <3>. QED  BY <3>1, SlotInRange DEF TypeOK
  <2>2. lines' \in Seq(Nat) /\ Len(lines') = Len(lines) + 1
    BY <1>3, <2>1 DEF DrainRead, TypeOK
  <2>3. out' \in Nat
    BY <1>3 DEF DrainRead, Used, Smaller, TypeOK
  <2>. QED
    BY <1>3, <2>2, <2>3, SMTT(30) DEF DrainRead, TypeOK, RingBounded, InFlight, Lifecycle, Working
<1>4. CASE DrainWrite
  <2>1. file' \in Seq(Nat)
    <3>1. ASSUME NEW k \in 0..count, file' = file \o SubSeq(lines, 1, k)
          PROVE  file' \in Seq(Nat)
      <4>1. Len(lines) = count /\ lines \in Seq(Nat) /\ file \in Seq(Nat)
        BY <1>4 DEF DrainWrite, InFlight, TypeOK
      <4>2. SubSeq(lines, 1, k) \in Seq(Nat)
        BY <4>1
      <4>. QED  BY <3>1, <4>1, <4>2
    <3>2. CASE fdOpen
      <4>1. PICK k \in (IF faulty THEN 0..count ELSE {count}) :
                file' = file \o SubSeq(lines, 1, k)
        BY <1>4, <3>2 DEF DrainWrite
      <4>2. k \in 0..count
        BY <4>1 DEF TypeOK
      <4>. QED  BY <3>1, <4>1, <4>2
    <3>3. CASE ~fdOpen
      BY <1>4, <3>3 DEF DrainWrite, TypeOK
    <3>. QED  BY <3>2, <3>3
  <2>. QED
    BY <1>4, <2>1 DEF DrainWrite, TypeOK, RingBounded, InFlight, Lifecycle, Working
<1>5. CASE DrainPublish
  <2>1. TypeOK'
    BY <1>5 DEF DrainPublish, TypeOK
  <2>2. RingBounded' /\ InFlight'
    BY <1>5 DEF DrainPublish, TypeOK, RingBounded, InFlight, Lifecycle, Working
  <2>3. Lifecycle'
    BY <1>5 DEF DrainPublish, TypeOK, RingBounded, InFlight, Lifecycle, Working
  <2>. QED  BY <2>1, <2>2, <2>3
<1>. QED  BY <1>1, <1>2, <1>3, <1>4, <1>5 DEF Drain

(* Nor does a store that becomes visible.                                  *)
LEMMA SeeKeeps ==
  ASSUME LoggerInv, See
  PROVE  LoggerInv'
<1>. USE DEF LoggerInv, shared, rest, drainVars
<1>1. CASE SeeHead
  <2>1. TypeOK'
    BY <1>1 DEF SeeHead, TypeOK
  <2>2. RingBounded' /\ InFlight'
    BY <1>1 DEF SeeHead, TypeOK, RingBounded, InFlight, Lifecycle, Working
  <2>3. Lifecycle'
    BY <1>1 DEF SeeHead, TypeOK, RingBounded, InFlight, Lifecycle, Working
  <2>. QED  BY <2>1, <2>2, <2>3
<1>2. CASE SeeTail
  <2>1. TypeOK'
    BY <1>2 DEF SeeTail, TypeOK
  <2>2. RingBounded' /\ InFlight'
    BY <1>2 DEF SeeTail, TypeOK, RingBounded, InFlight, Lifecycle, Working
  <2>3. Lifecycle'
    BY <1>2 DEF SeeTail, TypeOK, RingBounded, InFlight, Lifecycle, Working
  <2>. QED  BY <2>1, <2>2, <2>3
<1>3. CASE SeeStop
  <2>1. TypeOK'
    BY <1>3 DEF SeeStop, TypeOK
  <2>2. RingBounded' /\ InFlight'
    BY <1>3 DEF SeeStop, TypeOK, RingBounded, InFlight, Lifecycle, Working
  <2>3. Lifecycle'
    BY <1>3 DEF SeeStop, TypeOK, RingBounded, InFlight, Lifecycle, Working
  <2>. QED  BY <2>1, <2>2, <2>3
<1>. QED  BY <1>1, <1>2, <1>3 DEF See

(* The invariant of the logger, from the start and for ever.               *)
THEOREM LoggerIsSound == Spec => []LoggerInv
<1>1. LoggerInv /\ [Next]_vars => LoggerInv'
  <2>. SUFFICES ASSUME LoggerInv, [Next]_vars PROVE LoggerInv'
    OBVIOUS
  <2>1. CASE Next
    BY <2>1, AppKeeps, DrainKeeps, SeeKeeps DEF Next
  <2>2. CASE UNCHANGED vars
    BY <2>2 DEF vars, shared, rest, drainVars, LoggerInv, TypeOK, RingBounded,
                InFlight, Lifecycle, Working
  <2>. QED  BY <2>1, <2>2
<1>. QED  BY <1>1, LoggerInvInitially, PTL DEF Spec

(* Every variable of the logger has its type.                              *)
THEOREM LoggerTypes == Spec => []TypeOK
<1>1. LoggerInv => TypeOK
  BY DEF LoggerInv
<1>. QED  BY <1>1, LoggerIsSound, PTL

(* Stale indices never make the ring overflow or underflow.                *)
THEOREM RingNeverOverrun == Spec => []RingBounded
<1>1. LoggerInv => RingBounded
  BY DEF LoggerInv
<1>. QED  BY <1>1, LoggerIsSound, PTL

(* log and drain_loop never touch the same entry at the same time.         *)
THEOREM EntriesNeverRace == Spec => []NoSlotRace
<1>1. LoggerInv => NoSlotRace
  <2>. SUFFICES ASSUME LoggerInv, app = "write", drain = "read"
                PROVE  Slot(head) # Slot(tail + Len(lines))
    BY DEF NoSlotRace
  <2>1. /\ tail + Len(lines) \in Nat /\ head \in Nat
        /\ tail + Len(lines) < head /\ head - (tail + Len(lines)) < Capacity
    BY DEF LoggerInv, TypeOK, RingBounded, InFlight, Working
  <2>. QED  BY <2>1, SlotsDiffer
<1>. QED  BY <1>1, LoggerIsSound, PTL

(* When the drain thread ends nothing accepted is left in the ring, and it *)
(* is alive exactly from start to the end of stop.                         *)
THEOREM StopLosesNothing == Spec => []StopFlushes
<1>1. LoggerInv => StopFlushes
  BY DEF LoggerInv, TypeOK, Lifecycle, StopFlushes
<1>. QED  BY <1>1, LoggerIsSound, PTL

(* stop closes the file after the drain thread ended, never before.        *)
THEOREM FileOutlivesDrain == Spec => []FileOpenWhileDraining
<1>1. LoggerInv => FileOpenWhileDraining
  BY DEF LoggerInv, Lifecycle, FileOpenWhileDraining
<1>. QED  BY <1>1, LoggerIsSound, PTL

-----------------------------------------------------------------------------
(* The lines formatted so far take at most an entry each.                  *)
ScratchUsed == drain = "read" => out <= EntrySize * Len(lines)

(* One more line takes at most one more entry.                             *)
LEMMA OneMoreLine ==
  ASSUME NEW e \in Nat, NEW n \in Nat, NEW o \in Nat, NEW u \in Nat,
         o <= e * n, u <= e
  PROVE  o + u <= e * (n + 1)
<1>1. e * (n + 1) = e * n + e
  OBVIOUS
<1>2. e * n \in Nat
  OBVIOUS
<1>. QED  BY <1>1, <1>2

(* No step lets the lines outgrow their entries.                           *)
LEMMA ScratchKeeps ==
  ASSUME LoggerInv, ScratchUsed, [Next]_vars
  PROVE  ScratchUsed'
<1>. USE DEF LoggerInv, shared, rest, drainVars
<1>1. CASE DrainRead
  <2>1. PICK n \in Lengths : out' = out + Used(n)
    BY <1>1 DEF DrainRead
  <2>2. Used(n) \in Nat /\ Used(n) <= EntrySize
    BY DEF Used, Smaller
  <2>3. ring[Slot(tail + Len(lines))] \in Nat
    <3>1. tail + Len(lines) \in Nat
      BY LenProperties DEF TypeOK
    <3>. QED  BY <3>1, SlotInRange DEF TypeOK
  <2>4. Len(lines') = Len(lines) + 1 /\ Len(lines) \in Nat
    BY <1>1, <2>3, LenProperties DEF DrainRead, TypeOK
  <2>5. out \in Nat /\ out <= EntrySize * Len(lines)
    BY <1>1 DEF DrainRead, ScratchUsed, TypeOK
  <2>6. out + Used(n) <= EntrySize * (Len(lines) + 1)
    BY <2>2, <2>4, <2>5, OneMoreLine
  <2>. QED  BY <2>1, <2>4, <2>6 DEF ScratchUsed
<1>2. CASE DrainLoad
  <2>1. drain' = "read" => out' = 0 /\ Len(lines') = 0
    BY <1>2 DEF DrainLoad
  <2>. QED  BY <2>1 DEF ScratchUsed
<1>3. ASSUME drain' # "read" PROVE ScratchUsed'
  BY <1>3 DEF ScratchUsed
<1>4. ASSUME UNCHANGED drainVars PROVE ScratchUsed'
  BY <1>4 DEF ScratchUsed
<1>5. CASE App
  <2>1. drain' # "read" \/ UNCHANGED drainVars
    BY <1>5 DEF App, Start, LogWrite, LogPublish, StopSignal, StopJoin,
                SetMinLevel, LogCheck
  <2>. QED  BY <2>1, <1>3, <1>4
<1>6. CASE DrainCheck \/ DrainWrite \/ DrainPublish
  <2>1. drain' # "read"
    BY <1>6 DEF DrainCheck, DrainWrite, DrainPublish
  <2>. QED  BY <2>1, <1>3
<1>7. CASE See
  BY <1>7, <1>4 DEF See, SeeHead, SeeTail, SeeStop
<1>8. CASE UNCHANGED vars
  BY <1>8, <1>4 DEF vars
<1>. QED  BY <1>1, <1>2, <1>5, <1>6, <1>7, <1>8 DEF Next, Drain

(* snprintf never writes past scratch, whatever naturals it returns.       *)
THEOREM ScratchNeverOverrun == Spec => []ScratchFits
<1>1. Init => ScratchUsed
  BY DEF Init, ScratchUsed
<1>2. LoggerInv /\ ScratchUsed => ScratchFits
  <2>. SUFFICES ASSUME LoggerInv, ScratchUsed, drain = "read"
                PROVE  out + EntrySize <= EntrySize * Batch
    BY DEF ScratchFits
  <2>1. out \in Nat /\ out <= EntrySize * Len(lines) /\ Len(lines) \in Nat
        /\ Len(lines) < Batch
    BY LenProperties DEF LoggerInv, TypeOK, InFlight, Working, ScratchUsed
  <2>2. out + EntrySize <= EntrySize * (Len(lines) + 1)
    BY <2>1, OneMoreLine
  <2>3. PICK d \in Nat : Batch = (Len(lines) + 1) + d
    <3>1. Batch - (Len(lines) + 1) \in Nat
      BY <2>1
    <3>2. Batch = (Len(lines) + 1) + (Batch - (Len(lines) + 1))
      BY <2>1
    <3>. QED  BY <3>1, <3>2
  <2>4. EntrySize * Batch = EntrySize * (Len(lines) + 1) + EntrySize * d
    BY <2>1, <2>3
  <2>5. EntrySize * d \in Nat /\ EntrySize * (Len(lines) + 1) \in Nat
    BY <2>1, <2>3
  <2>. QED  BY <2>1, <2>2, <2>4, <2>5
<1>. QED  BY <1>1, <1>2, ScratchKeeps, LoggerIsSound, PTL DEF Spec

-----------------------------------------------------------------------------
(* The refinement.  Messages are numbered: n of them from a on.            *)
Numbered(a, n) == [i \in 1..n |-> a + i - 1]

Numbers(s, a, n) ==
  s \in Seq(Nat) /\ Len(s) = n /\ \A i \in 1..n : s[i] = a + i - 1

(* What such a sequence is.                                                *)
LEMMA NumberedIs ==
  ASSUME NEW a \in Nat, NEW n \in Nat
  PROVE  Numbers(Numbered(a, n), a, n)
<1>1. PICK s : s = Numbered(a, n)
  OBVIOUS
<1>2. DOMAIN s = 1..n /\ \A i \in 1..n : s[i] = a + i - 1
  BY <1>1 DEF Numbered
<1>3. s \in [1..n -> Nat]
  BY <1>1 DEF Numbered
<1>4. s \in Seq(Nat)
  BY <1>3, SeqDef
<1>5. Len(s) = n
  BY <1>2, <1>4
<1>. QED  BY <1>1, <1>2, <1>4, <1>5 DEF Numbers

(* There is only one.                                                      *)
LEMMA NumberedOnly ==
  ASSUME NEW a \in Nat, NEW n \in Nat, NEW s \in Seq(Nat), Len(s) = n,
         \A i \in 1..n : s[i] = a + i - 1
  PROVE  s = Numbered(a, n)
<1>1. s = [i \in 1..n |-> s[i]]
  BY LenProperties
<1>2. [i \in 1..n |-> s[i]] = [i \in 1..n |-> a + i - 1]
  OBVIOUS
<1>. QED  BY <1>1, <1>2 DEF Numbered

(* One more message.                                                       *)
LEMMA NumberedAppend ==
  ASSUME NEW a \in Nat, NEW n \in Nat
  PROVE  Append(Numbered(a, n), a + n) = Numbered(a, n + 1)
<1>1. PICK s : s = Numbered(a, n)
  OBVIOUS
<1>2. s \in Seq(Nat) /\ Len(s) = n /\ \A i \in 1..n : s[i] = a + i - 1
  <2>1. Numbers(Numbered(a, n), a, n)
    BY NumberedIs
  <2>2. Numbers(s, a, n)
    BY <1>1, <2>1
  <2>. QED  BY <2>2 DEF Numbers
<1>3. PICK t : t = Append(s, a + n)
  OBVIOUS
<1>4. a + n \in Nat
  OBVIOUS
<1>5. /\ t \in Seq(Nat) /\ Len(t) = n + 1 /\ t[n + 1] = a + n
      /\ \A i \in 1..n : t[i] = s[i]
  BY <1>2, <1>3, <1>4, AppendProperties
<1>6. \A i \in 1..(n + 1) : t[i] = a + i - 1
  BY <1>2, <1>5
<1>7. t = Numbered(a, n + 1)
  BY <1>5, <1>6, NumberedOnly
<1>. QED  BY <1>1, <1>3, <1>7

(* The first k, and the others.                                            *)
LEMMA NumberedSplit ==
  ASSUME NEW a \in Nat, NEW n \in Nat, NEW k \in 0..n
  PROVE  /\ SubSeq(Numbered(a, n), 1, k) = Numbered(a, k)
         /\ SubSeq(Numbered(a, n), k + 1, n) = Numbered(a + k, n - k)
<1>1. PICK s : s = Numbered(a, n)
  OBVIOUS
<1>2. s \in Seq(Nat) /\ Len(s) = n /\ \A i \in 1..n : s[i] = a + i - 1
  <2>1. Numbers(Numbered(a, n), a, n)
    BY NumberedIs
  <2>2. Numbers(s, a, n)
    BY <1>1, <2>1
  <2>. QED  BY <2>2 DEF Numbers
<1>3. PICK t : t = SubSeq(s, 1, k)
  OBVIOUS
<1>4. t \in Seq(Nat) /\ Len(t) = k /\ \A i \in 1..k : t[i] = s[i]
  <2>1. t = [i \in 1..k |-> s[i]]
    BY <1>2, <1>3
  <2>2. t \in [1..k -> Nat]
    BY <1>2, <2>1
  <2>3. t \in Seq(Nat)
    BY <2>2, SeqDef
  <2>. QED  BY <2>1, <2>3
<1>5. t = Numbered(a, k)
  BY <1>2, <1>4, NumberedOnly
<1>6. PICK u : u = SubSeq(s, k + 1, n)
  OBVIOUS
<1>7. u \in Seq(Nat) /\ Len(u) = n - k /\ \A i \in 1..(n - k) : u[i] = s[k + i]
  <2>1. u = [i \in 1..(n - k) |-> s[k + i]]
    BY <1>2, <1>6
  <2>2. u \in [1..(n - k) -> Nat]
    BY <1>2, <2>1
  <2>3. u \in Seq(Nat)
    BY <2>2, SeqDef
  <2>. QED  BY <2>1, <2>3
<1>8. \A i \in 1..(n - k) : u[i] = (a + k) + i - 1
  BY <1>2, <1>7
<1>9. u = Numbered(a + k, n - k)
  BY <1>7, <1>8, NumberedOnly
<1>. QED  BY <1>1, <1>3, <1>5, <1>6, <1>9

(* The inductive invariant behind the refinement: an entry that has been   *)
(* published and not yet given back is in its slot, and so is the one that *)
(* is about to be published; what scratch holds are the oldest entries.    *)
EntriesInv ==
    /\ \A i \in tail..(head - 1) : ring[Slot(i)] = i
    /\ app = "publish" => ring[Slot(head)] = head
    /\ drain \in Working => lines = Numbered(tail, Len(lines))

(* There are no entries at first.                                          *)
LEMMA EntriesInitially == Init => EntriesInv
  BY DEF Init, EntriesInv, Working

(* log does not overwrite an entry that is waiting.                        *)
LEMMA EntriesAppKeeps ==
  ASSUME LoggerInv, EntriesInv, App
  PROVE  EntriesInv'
<1>. USE DEF LoggerInv, shared, rest, drainVars
<1>1. head \in Nat /\ tail \in Nat
  BY DEF TypeOK
<1>2. ASSUME UNCHANGED <<head, tail, ring>>, app' # "publish",
             drain' \notin Working \/ UNCHANGED drainVars
      PROVE  EntriesInv'
  BY <1>2 DEF EntriesInv
<1>3. CASE LogWrite
  <2>1. /\ head' = head /\ tail' = tail /\ UNCHANGED drainVars
        /\ ring' = [ring EXCEPT ![Slot(head)] = head]
    BY <1>3 DEF LogWrite
  <2>2. head - tail < Capacity
    BY <1>1, <1>3 DEF LogWrite, TypeOK, RingBounded, InFlight
  <2>3. ring'[Slot(head)] = head
    BY <1>1, <2>1, SlotInRange DEF TypeOK
  <2>4. ASSUME NEW i \in tail..(head - 1) PROVE ring'[Slot(i)] = i
    <3>1. i \in Nat /\ i < head /\ head - i < Capacity
      BY <1>1, <2>2
    <3>2. Slot(i) # Slot(head)
      BY <1>1, <3>1, SlotsDiffer
    <3>3. Slot(i) \in 0..(Capacity - 1) /\ ring[Slot(i)] = i
      BY <3>1, SlotInRange DEF EntriesInv
    <3>. QED  BY <2>1, <3>2, <3>3 DEF TypeOK
  <2>. QED  BY <2>1, <2>3, <2>4 DEF EntriesInv
<1>4. CASE LogPublish
  <2>1. /\ head' = head + 1 /\ tail' = tail /\ ring' = ring /\ UNCHANGED drainVars
        /\ app' = "idle" /\ ring[Slot(head)] = head
    BY <1>4 DEF LogPublish, EntriesInv
  <2>2. \A i \in tail..((head + 1) - 1) : ring[Slot(i)] = i
    BY <1>1, <2>1 DEF EntriesInv
  <2>. QED  BY <2>1, <2>2 DEF EntriesInv
<1>5. CASE Start
  BY <1>2, <1>5 DEF Start, Working
<1>6. CASE StopSignal
  BY <1>2, <1>6 DEF StopSignal
<1>7. CASE StopJoin
  BY <1>2, <1>7 DEF StopJoin, Working
<1>8. ASSUME NEW level \in Levels, SetMinLevel(level) PROVE EntriesInv'
  BY <1>2, <1>8 DEF SetMinLevel
<1>9. ASSUME NEW level \in Levels, LogCheck(level) PROVE EntriesInv'
  BY <1>2, <1>9 DEF LogCheck
<1>. QED  BY <1>3, <1>4, <1>5, <1>6, <1>7, <1>8, <1>9 DEF App

(* drain_loop reads the entries that were published, in order.             *)
LEMMA EntriesDrainKeeps ==
  ASSUME LoggerInv, EntriesInv, Drain
  PROVE  EntriesInv'
<1>. USE DEF LoggerInv, shared, rest, drainVars
<1>1. head \in Nat /\ tail \in Nat /\ count \in Nat
  BY DEF TypeOK
<1>2. UNCHANGED <<head, ring, app>>
  BY DEF Drain, DrainCheck, DrainLoad, DrainRead, DrainWrite, DrainPublish
<1>3. ASSUME tail' = tail, drain' \in Working => lines' = Numbered(tail, Len(lines'))
      PROVE  EntriesInv'
  BY <1>2, <1>3 DEF EntriesInv
<1>4. CASE DrainCheck
  BY <1>3, <1>4 DEF DrainCheck, Working
<1>5. CASE DrainLoad
  <2>1. tail' = tail
    BY <1>5 DEF DrainLoad
  <2>2. drain' \in Working => lines' = <<>>
    BY <1>5 DEF DrainLoad, Working
  <2>3. Numbered(tail, 0) = <<>>
    BY DEF Numbered
  <2>4. Len(<<>>) = 0
    OBVIOUS
  <2>. QED  BY <1>3, <2>1, <2>2, <2>3, <2>4
<1>6. CASE DrainRead
  <2>1. PICK n : n = Len(lines)
    OBVIOUS
  <2>2. n \in Nat /\ n < count /\ tail + count <= head
    BY <1>1, <1>6, <2>1, LenProperties DEF DrainRead, TypeOK, InFlight, Working, RingBounded
  <2>3. tail + n \in tail..(head - 1)
    BY <1>1, <2>2
  <2>4. ring[Slot(tail + n)] = tail + n
    BY <2>3 DEF EntriesInv
  <2>5. lines = Numbered(tail, n)
    BY <1>6, <2>1 DEF DrainRead, EntriesInv, Working
  <2>6. tail' = tail /\ lines' = Append(lines, tail + n)
    BY <1>6, <2>1, <2>4 DEF DrainRead
  <2>7. lines' = Numbered(tail, n + 1)
    BY <1>1, <2>2, <2>5, <2>6, NumberedAppend
  <2>8. Len(lines') = n + 1
    <3>1. Numbers(Numbered(tail, n + 1), tail, n + 1)
      BY <1>1, <2>2, NumberedIs
    <3>. QED  BY <2>7, <3>1 DEF Numbers
  <2>. QED  BY <1>3, <2>6, <2>7, <2>8
<1>7. CASE DrainWrite
  BY <1>3, <1>7 DEF DrainWrite, EntriesInv, Working
<1>8. CASE DrainPublish
  <2>1. tail' = tail + count /\ drain' \notin Working
    BY <1>8 DEF DrainPublish, Working
  <2>2. \A i \in (tail + count)..(head - 1) : i \in tail..(head - 1)
    BY <1>1
  <2>. QED  BY <1>2, <2>1, <2>2 DEF EntriesInv
<1>. QED  BY <1>4, <1>5, <1>6, <1>7, <1>8 DEF Drain

(* Every entry is where its number says.                                   *)
THEOREM EntriesKept == Spec => []EntriesInv
<1>1. LoggerInv /\ EntriesInv /\ [Next]_vars => EntriesInv'
  <2>. SUFFICES ASSUME LoggerInv, EntriesInv, [Next]_vars PROVE EntriesInv'
    OBVIOUS
  <2>1. CASE App
    BY <2>1, EntriesAppKeeps
  <2>2. CASE Drain
    BY <2>2, EntriesDrainKeeps
  <2>3. CASE See \/ UNCHANGED vars
    <3>1. UNCHANGED <<head, tail, ring, app, drain, lines>>
      BY <2>3 DEF See, SeeHead, SeeTail, SeeStop, vars, shared, drainVars
    <3>. QED  BY <3>1 DEF EntriesInv
  <2>. QED  BY <2>1, <2>2, <2>3 DEF Next
<1>. QED  BY <1>1, EntriesInitially, LoggerIsSound, PTL DEF Spec

(* The oldest message that is not in the file.                             *)
Oldest == tail + (IF drain = "publish" THEN count ELSE 0)

(* What waits are the messages from the oldest on.                         *)
PendingInv ==
    /\ Oldest \in Nat /\ head \in Nat /\ head - Oldest \in Nat
    /\ tailSeen <= Oldest
    /\ Pending = Numbered(Oldest, head - Oldest)
    /\ Len(Pending) = head - Oldest

(* The ring and the indices say so.                                        *)
LEMMA PendingIs ==
  ASSUME LoggerInv, EntriesInv
  PROVE  PendingInv
<1>1. /\ Oldest \in Nat /\ head \in Nat /\ tail \in Nat /\ tail <= Oldest
      /\ Oldest <= head /\ tailSeen <= Oldest
  BY DEF LoggerInv, TypeOK, RingBounded, InFlight, Working, Oldest
<1>2. PICK a : a = Oldest
  OBVIOUS
<1>3. PICK n : n = head - a
  OBVIOUS
<1>4. a \in Nat /\ n \in Nat
  BY <1>1, <1>2, <1>3
<1>5. Pending = [i \in 1..n |-> ring[Slot(a + i - 1)]]
  BY <1>2, <1>3 DEF Pending, Oldest
<1>6. \A i \in 1..n : a + i - 1 \in tail..(head - 1)
  BY <1>1, <1>2, <1>3
<1>7. \A i \in 1..n : ring[Slot(a + i - 1)] = a + i - 1
  BY <1>6 DEF EntriesInv
<1>8. Pending = Numbered(a, n)
  BY <1>5, <1>7 DEF Numbered
<1>9. Numbers(Pending, a, n)
  BY <1>4, <1>8, NumberedIs
<1>. QED  BY <1>1, <1>2, <1>3, <1>4, <1>8, <1>9 DEF Numbers, PendingInv

(* Each step of the two threads is a step of the bounded queue, or none.   *)
LEMMA StepRefines ==
  ASSUME LoggerInv, LoggerInv', EntriesInv, PendingInv, PendingInv', [Next]_vars
  PROVE  [BL!Next]_<<head, Pending, file, faulty>>
<1>. USE DEF shared, rest, drainVars
<1>1. PICK a, n : /\ a = Oldest /\ n = head - Oldest /\ a \in Nat /\ n \in Nat
                  /\ Pending = Numbered(a, n) /\ Len(Pending) = n
                  /\ head = a + n
  BY DEF PendingInv
<1>2. PICK b, k : /\ b = Oldest' /\ k = head' - Oldest' /\ b \in Nat /\ k \in Nat
                  /\ Pending' = Numbered(b, k)
  BY DEF PendingInv
<1>3. faulty' = faulty
  BY DEF Next, App, Drain, See, Start, LogWrite, LogPublish, StopSignal, StopJoin,
         SetMinLevel, LogCheck, DrainCheck, DrainLoad, DrainRead, DrainWrite, DrainPublish,
         SeeHead, SeeTail, SeeStop, vars
<1>4. ASSUME head' = head, Oldest' = Oldest PROVE Pending' = Pending
  BY <1>1, <1>2, <1>4
<1>5. CASE LogPublish
  <2>1. head' = head + 1 /\ Oldest' = Oldest /\ file' = file
    BY <1>5 DEF LogPublish, Oldest
  <2>2. b = a /\ k = n + 1
    BY <1>1, <1>2, <2>1
  <2>3. Pending' = Append(Pending, head)
    <3>1. Append(Numbered(a, n), a + n) = Numbered(a, n + 1)
      BY <1>1, NumberedAppend
    <3>. QED  BY <1>1, <1>2, <2>2, <3>1
  <2>4. Len(Pending) < Capacity
    <3>1. head - tailSeen < Capacity /\ tailSeen <= Oldest
      BY <1>5 DEF LogPublish, LoggerInv, InFlight, PendingInv
    <3>2. tailSeen \in Nat
      BY DEF LoggerInv, TypeOK
    <3>. QED  BY <1>1, <3>1, <3>2
  <2>. QED  BY <1>3, <2>1, <2>3, <2>4 DEF BL!Next, BL!Accept
<1>6. CASE DrainWrite
  <2>1. /\ head' = head /\ tail' = tail /\ count' = count
        /\ drain = "write" /\ drain' = "publish" /\ fdOpen
    BY <1>6 DEF DrainWrite, LoggerInv, Lifecycle
  <2>2. count \in Nat /\ count > 0 /\ tail \in Nat /\ lines = Numbered(tail, count)
        /\ Len(lines) = count /\ tail + count <= head
    BY <2>1 DEF LoggerInv, TypeOK, InFlight, EntriesInv, Working, RingBounded
  <2>3. a = tail /\ b = tail + count
    <3>1. Oldest = tail + 0 /\ Oldest' = tail + count
      BY <2>1 DEF Oldest
    <3>. QED  BY <1>1, <1>2, <2>2, <3>1
  <2>4. count \in 1..n /\ k = n - count /\ count \in 0..n
    BY <1>1, <1>2, <2>1, <2>2, <2>3
  <2>5. Pending' = SubSeq(Pending, count + 1, Len(Pending))
    <3>1. SubSeq(Numbered(a, n), count + 1, n) = Numbered(a + count, n - count)
      <4>1. a \in Nat /\ n \in Nat /\ count \in 0..n
        BY <1>1, <2>4
      <4>. QED  BY <4>1, NumberedSplit
    <3>2. Pending' = Numbered(a + count, n - count)
      BY <1>2, <2>3, <2>4
    <3>. QED  BY <1>1, <3>1, <3>2
  <2>6. PICK j \in (IF faulty THEN 0..count ELSE {count}) : file' = file \o SubSeq(lines, 1, j)
    BY <1>6, <2>1 DEF DrainWrite
  <2>7. j \in 0..count /\ (j < count => faulty)
    BY <2>2, <2>6
  <2>8. SubSeq(lines, 1, j) = SubSeq(Pending, 1, j)
    <3>1. SubSeq(Numbered(tail, count), 1, j) = Numbered(tail, j)
      BY <2>2, <2>7, NumberedSplit
    <3>2. j \in 0..n
      BY <1>1, <2>4, <2>7
    <3>3. SubSeq(Numbered(a, n), 1, j) = Numbered(a, j)
      <4>1. a \in Nat /\ n \in Nat /\ j \in 0..n
        BY <1>1, <3>2
      <4>. QED  BY <4>1, NumberedSplit
    <3>. QED  BY <1>1, <2>2, <2>3, <3>1, <3>3
  <2>9. BL!Deliver(count, j)
    BY <1>3, <2>1, <2>5, <2>6, <2>7, <2>8 DEF BL!Deliver
  <2>. QED  BY <1>1, <2>4, <2>7, <2>9 DEF BL!Next
<1>7. CASE Start
  <2>1. head' = head /\ file' = <<>> /\ tail' = tail /\ drain' = "check"
    BY <1>7 DEF Start
  <2>2. drain = "off"
    BY <1>7 DEF Start, LoggerInv, Lifecycle
  <2>3. Pending' = Pending
    BY <1>4, <2>1, <2>2 DEF Oldest
  <2>. QED  BY <1>3, <2>1, <2>3 DEF BL!Next, BL!Reopen
<1>8. ASSUME head' = head, Oldest' = Oldest, file' = file
      PROVE  UNCHANGED <<head, Pending, file, faulty>>
  BY <1>3, <1>4, <1>8
<1>9. CASE DrainPublish
  <2>1. head' = head /\ file' = file /\ tail' = tail + count /\ drain = "publish"
        /\ drain' # "publish"
    BY <1>9 DEF DrainPublish
  <2>2. Oldest' = Oldest
    <3>1. tail' \in Nat /\ tail \in Nat /\ count \in Nat
      BY DEF LoggerInv, TypeOK
    <3>. QED  BY <2>1, <3>1 DEF Oldest
  <2>. QED  BY <1>8, <2>1, <2>2
<1>10. ASSUME UNCHANGED <<head, tail, file>>, drain # "publish", drain' # "publish"
       PROVE  UNCHANGED <<head, Pending, file, faulty>>
  BY <1>8, <1>10 DEF Oldest
<1>11. CASE DrainCheck \/ DrainLoad \/ DrainRead
  BY <1>10, <1>11 DEF DrainCheck, DrainLoad, DrainRead
<1>12. CASE StopJoin
  BY <1>10, <1>12 DEF StopJoin
<1>13. ASSUME UNCHANGED <<head, tail, file, drain, count>>
       PROVE  UNCHANGED <<head, Pending, file, faulty>>
  BY <1>8, <1>13 DEF Oldest
<1>14. CASE LogWrite \/ StopSignal \/ See \/ UNCHANGED vars
  BY <1>13, <1>14 DEF LogWrite, StopSignal, See, SeeHead, SeeTail, SeeStop, vars
<1>15. ASSUME NEW level \in Levels, SetMinLevel(level) \/ LogCheck(level)
       PROVE  UNCHANGED <<head, Pending, file, faulty>>
  BY <1>13, <1>15 DEF SetMinLevel, LogCheck
<1>. QED
  BY <1>5, <1>6, <1>7, <1>9, <1>11, <1>12, <1>14, <1>15 DEF Next, App, Drain

(* For any capacity, batch size and staleness of the indices: the logger   *)
(* implements the bounded queue, whose file receives the accepted messages *)
(* in order and loses only what ::write refuses.                           *)
THEOREM LoggerIsAQueue == Spec => ImplementsBoundedLog
<1>1. Init => BL!Init
  <2>. SUFFICES ASSUME Init PROVE BL!Init
    OBVIOUS
  <2>1. head = 0 /\ tail = 0 /\ drain = "off" /\ file = <<>> /\ faulty \in BOOLEAN
    BY DEF Init
  <2>2. Pending = <<>>
    BY <2>1 DEF Pending
  <2>. QED  BY <2>1, <2>2 DEF BL!Init
<1>2. LoggerInv /\ LoggerInv' /\ EntriesInv /\ PendingInv /\ PendingInv' /\ [Next]_vars
        => [BL!Next]_<<head, Pending, file, faulty>>
  BY StepRefines
<1>3. LoggerInv /\ EntriesInv => PendingInv
  BY PendingIs
<1>. QED
  BY <1>1, <1>2, <1>3, LoggerIsSound, EntriesKept, PTL
  DEF Spec, ImplementsBoundedLog, BL!Spec

=============================================================================
