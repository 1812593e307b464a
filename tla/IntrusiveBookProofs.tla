------------------------ MODULE IntrusiveBookProofs ------------------------
(***************************************************************************)
(* Theorems about IntrusiveBook, for every number of orders and levels:    *)
(* the memory of an OrderBook is what it stands for.                       *)
(*                                                                         *)
(*  1. Walks.  A walk along the links is a recursive function; on links    *)
(*     that form a list it returns that list (PathIsFollow).  Linking an   *)
(*     element in, or past one, turns a list into a list.                  *)
(*  2. The invariant, Inv: there are lists L of the levels of each side, Q *)
(*     of the orders of each level and F of the free levels behind the     *)
(*     links.  In the midst of an operation Sound holds with a set E of    *)
(*     levels that are in use though empty, and Shaped while the total of  *)
(*     one of them lags behind.                                            *)
(*  3. Each operation, write by write (...Is), then list by list (...Keeps *)
(*     and ...Step), up to InvHolds and what it implies.                   *)
(*  4. The refinement: Market is a function View of the heap, and each     *)
(*     operation moves it as one of MarketBook's actions does.             *)
(*                                                                         *)
(* Theorems are about behaviours on which no map refuses a level;          *)
(* RoomForPrices and RoomForLevels say of which books that is true.        *)
(***************************************************************************)
EXTENDS IntrusiveBook, ListLemmas

-----------------------------------------------------------------------------
(* Walks.  Follow is a recursion over the lists of slots already seen, of  *)
(* which none longer than the number of slots goes on.                     *)

(* Where the walk goes next, and what it returns if w does the rest.       *)
NextSeen(link, x, seen) == IF seen = <<>> THEN x ELSE link[seen[Len(seen)]]

WalkStep(w, link, x, seen) ==
    IF NextSeen(link, x, seen) \in DOMAIN link /\ Len(seen) <= Cardinality(DOMAIN link)
    THEN w[Append(seen, NextSeen(link, x, seen))] ELSE seen

(* The lists of at least n slots, and the walks from there on.             *)
Deep(link, n) == {seen \in Seq(DOMAIN link) : Len(seen) >= n}

Walks(w, link, x, n) ==
    w = [seen \in Deep(link, n) |-> WalkStep(w, link, x, seen)]

(* A table of the walks that have come far ends all of them, ...           *)
LEMMA WalksEnd ==
    ASSUME NEW link, IsFiniteSet(DOMAIN link), NEW x, NEW n \in Nat,
           n > Cardinality(DOMAIN link)
    PROVE  \E w : Walks(w, link, x, n)
<1>1. PICK w : w = [seen \in Deep(link, n) |-> seen]
  OBVIOUS
<1>2. Cardinality(DOMAIN link) \in Nat
  BY FS_CardinalityType
<1>3. ASSUME NEW seen \in Deep(link, n) PROVE WalkStep(w, link, x, seen) = seen
  <2>1. Len(seen) \in Nat /\ Len(seen) >= n
    BY LenProperties DEF Deep
  <2>2. ~(Len(seen) <= Cardinality(DOMAIN link))
    BY <1>2, <2>1
  <2> QED  BY <2>2 DEF WalkStep
<1>4. w = [seen \in Deep(link, n) |-> WalkStep(w, link, x, seen)]
  BY <1>1, <1>3
<1> QED  BY <1>4 DEF Walks

(* ... and it tells how those go on that have come one slot less far.      *)
LEMMA WalksExtend ==
    ASSUME NEW link, NEW x, NEW n \in Nat, NEW w, Walks(w, link, x, n + 1)
    PROVE  \E u : Walks(u, link, x, n)
<1>1. PICK u : u = [seen \in Deep(link, n) |->
                        IF Len(seen) = n THEN WalkStep(w, link, x, seen) ELSE w[seen]]
  OBVIOUS
<1>2. ASSUME NEW seen \in Deep(link, n + 1) PROVE u[seen] = w[seen]
  <2>1. seen \in Deep(link, n) /\ Len(seen) # n
    BY LenProperties DEF Deep
  <2> QED  BY <1>1, <2>1
<1>3. ASSUME NEW seen \in Deep(link, n)
      PROVE  WalkStep(u, link, x, seen) = WalkStep(w, link, x, seen)
  <2>1. CASE NextSeen(link, x, seen) \in DOMAIN link
    <3>1. PICK at : at = NextSeen(link, x, seen)
      OBVIOUS
    <3>2. seen \in Seq(DOMAIN link) /\ at \in DOMAIN link /\ Len(seen) >= n /\ Len(seen) \in Nat
      BY <2>1, <3>1, LenProperties DEF Deep
    <3>3. /\ Append(seen, at) \in Seq(DOMAIN link)
          /\ Len(Append(seen, at)) = Len(seen) + 1
      BY <3>2, AppendProperties
    <3>4. Append(seen, at) \in Deep(link, n + 1)
      BY <3>2, <3>3 DEF Deep
    <3> QED  BY <1>2, <3>1, <3>4 DEF WalkStep
  <2>2. CASE NextSeen(link, x, seen) \notin DOMAIN link
    BY <2>2 DEF WalkStep
  <2> QED  BY <2>1, <2>2
<1>4. ASSUME NEW seen \in Deep(link, n)
      PROVE  u[seen] = WalkStep(w, link, x, seen)
  <2>1. CASE Len(seen) = n
    BY <1>1, <2>1
  <2>2. CASE Len(seen) # n
    <3>1. seen \in Deep(link, n + 1)
      BY <2>2, LenProperties DEF Deep
    <3>2. w[seen] = WalkStep(w, link, x, seen)
      BY <3>1 DEF Walks
    <3> QED  BY <1>2, <3>1, <3>2
  <2> QED  BY <2>1, <2>2
<1>5. u = [seen \in Deep(link, n) |-> u[seen]]
  BY <1>1
<1>6. u = [seen \in Deep(link, n) |-> WalkStep(u, link, x, seen)]
  BY <1>3, <1>4, <1>5
<1> QED  BY <1>6 DEF Walks

(* So there is a table of all walks.                                       *)
LEMMA WalksExist ==
    ASSUME NEW link, IsFiniteSet(DOMAIN link), NEW x
    PROVE  \E w : Walks(w, link, x, 0)
<1>1. PICK N \in Nat : N = Cardinality(DOMAIN link)
  BY FS_CardinalityType
<1> DEFINE T == {n \in Nat : \E w : Walks(w, link, x, n)}
<1>2. N + 1 \in T
  <2>1. N + 1 \in Nat /\ N + 1 > Cardinality(DOMAIN link)
    BY <1>1
  <2> QED  BY <2>1, WalksEnd
<1>3. PICK n \in T : \A m \in T : n <= m
  <2> HIDE DEF T
  <2>1. T \subseteq Nat
    BY DEF T
  <2> QED  BY <1>2, <2>1, Smallest
<1>4. CASE n = 0
  BY <1>3, <1>4
<1>5. CASE n # 0
  <2>1. PICK m \in Nat : n = m + 1
    <3>1. n - 1 \in Nat /\ n = (n - 1) + 1
      BY <1>3, <1>5
    <3> QED  BY <3>1
  <2>2. PICK w : Walks(w, link, x, m + 1)
    BY <1>3, <2>1
  <2>3. \E u : Walks(u, link, x, m)
    BY <2>2, WalksExtend
  <2>4. m \in T
    BY <2>3
  <2> QED  BY <1>3, <2>1, <2>4
<1> QED  BY <1>4, <1>5

(* Follow takes its walk from such a table.                                *)
LEMMA FollowIs ==
    ASSUME NEW link, IsFiniteSet(DOMAIN link), NEW x
    PROVE  \E w : Walks(w, link, x, 0) /\ Follow(link, x) = w[<<>>]
<1> DEFINE Rec(w) == w = [seen \in Seq(DOMAIN link) |-> WalkStep(w, link, x, seen)]
           walk == CHOOSE w : Rec(w)
<1>1. Deep(link, 0) = Seq(DOMAIN link)
  BY LenProperties DEF Deep
<1>2. \E w : Rec(w)
  <2>1. PICK w : Walks(w, link, x, 0)
    BY WalksExist
  <2>2. Rec(w)
    BY <1>1, <2>1 DEF Walks
  <2> QED  BY <2>2
<1>3. Rec(walk)
  BY <1>2
<1>4. Follow(link, x) = walk[<<>>]
  BY DEF Follow, WalkStep, NextSeen
<1>5. Walks(walk, link, x, 0)
  BY <1>1, <1>3 DEF Walks
<1> QED  BY <1>4, <1>5

(* A list without repetitions, from x along link to Null.                  *)
Path(link, x, seq) ==
    /\ seq \in Seq(DOMAIN link) /\ IsInjective(seq)
    /\ x = IF seq = <<>> THEN Null ELSE seq[1]
    /\ \A i \in 1..Len(seq) : link[seq[i]] = IF i = Len(seq) THEN Null ELSE seq[i + 1]

(* That list is what Follow sees.                                          *)
LEMMA PathIsFollow ==
    ASSUME NEW link, IsFiniteSet(DOMAIN link), Null \notin DOMAIN link,
           NEW x, NEW seq, Path(link, x, seq)
    PROVE  Follow(link, x) = seq
<1> DEFINE D == DOMAIN link
           Front(i) == SubSeq(seq, 1, i)
<1>1. PICK w : Walks(w, link, x, 0) /\ Follow(link, x) = w[<<>>]
  BY FollowIs
<1>2. seq \in Seq(D) /\ Len(seq) \in Nat /\ \A i \in 1..Len(seq) : seq[i] \in D
  BY LenProperties, ElementOfSeq DEF Path
<1>3. Len(seq) <= Cardinality(D) /\ Cardinality(D) \in Nat
  <2>1. IsFiniteSet(Range(seq)) /\ Cardinality(Range(seq)) = Len(seq)
    BY InjectiveLen DEF Path
  <2>2. Range(seq) \subseteq D
    BY <1>2, LenProperties DEF Range
  <2> QED  BY <2>1, <2>2, FS_Subset, FS_CardinalityType
<1>4. ASSUME NEW i \in 0..Len(seq)
      PROVE  /\ Front(i) \in Seq(D) /\ Len(Front(i)) = i
             /\ \A k \in 1..i : Front(i)[k] = seq[k]
  <2>1. i \in Int /\ 1 \in Int /\ \A k \in 1..i : seq[k] \in D
    BY <1>2
  <2>2. PICK f : f = Front(i)
    OBVIOUS
  <2>3. /\ f \in Seq(D)
        /\ Len(f) = IF 1 <= i THEN i - 1 + 1 ELSE 0
        /\ \A k \in 1..(i - 1 + 1) : f[k] = seq[1 + k - 1]
    BY <2>1, <2>2, SubSeqProperties
  <2>4. Len(f) = i
    BY <1>2, <2>3
  <2>5. ASSUME NEW k \in 1..i PROVE f[k] = seq[k]
    <3>1. k \in 1..(i - 1 + 1) /\ 1 + k - 1 = k
      BY <1>2
    <3> QED  BY <2>3, <3>1
  <2> QED  BY <2>2, <2>3, <2>4, <2>5
<1>5. Front(0) = <<>>
  <2>1. Front(0) \in Seq(D) /\ Len(Front(0)) = 0
    BY <1>2, <1>4
  <2> HIDE DEF Front
  <2> QED  BY <2>1, EmptySeq
<1>6. Front(Len(seq)) = seq
  <2>1. /\ Front(Len(seq)) \in Seq(D) /\ Len(Front(Len(seq))) = Len(seq)
        /\ \A k \in 1..Len(seq) : Front(Len(seq))[k] = seq[k]
    BY <1>2, <1>4
  <2> HIDE DEF Front
  <2> QED  BY <1>2, <2>1, SeqEqual
<1>7. ASSUME NEW i \in 0..Len(seq)
      PROVE  NextSeen(link, x, Front(i)) = IF i = Len(seq) THEN Null ELSE seq[i + 1]
  <2>1. CASE i = 0
    BY <1>2, <1>5, <2>1 DEF NextSeen, Path
  <2>2. CASE i # 0
    <3>1. Len(Front(i)) = i /\ Front(i)[i] = seq[i] /\ Front(i) # <<>> /\ i \in 1..Len(seq)
      BY <1>2, <1>4, <2>2
    <3> HIDE DEF Front
    <3> QED  BY <3>1 DEF NextSeen, Path
  <2> QED  BY <2>1, <2>2
<1>8. \A i \in 0..Len(seq) : w[Front(i)] = WalkStep(w, link, x, Front(i))
  <2>1. \A i \in 0..Len(seq) : Front(i) \in Deep(link, 0)
    BY <1>4 DEF Deep
  <2> HIDE DEF Front
  <2> QED  BY <1>1, <2>1 DEF Walks
<1>9. w[Front(Len(seq))] = seq
  <2>1. NextSeen(link, x, Front(Len(seq))) \notin D
    BY <1>2, <1>7
  <2>2. w[Front(Len(seq))] = WalkStep(w, link, x, Front(Len(seq)))
    BY <1>2, <1>8
  <2> HIDE DEF Front
  <2> QED  BY <1>6, <2>1, <2>2 DEF WalkStep
<1>10. ASSUME NEW i \in 0..Len(seq), i # Len(seq)
       PROVE  w[Front(i)] = w[Front(i + 1)]
  <2>1. i + 1 \in 1..Len(seq) /\ i + 1 \in 0..Len(seq) /\ i <= Cardinality(D)
    BY <1>2, <1>3, <1>10
  <2>2. NextSeen(link, x, Front(i)) = seq[i + 1] /\ seq[i + 1] \in D
    BY <1>2, <1>7, <1>10, <2>1
  <2>3. Append(Front(i), seq[i + 1]) = Front(i + 1)
    <3>1. PICK a : a = Append(Front(i), seq[i + 1])
      OBVIOUS
    <3>2. PICK f \in Seq(D) : f = Front(i) /\ Len(f) = i /\ \A k \in 1..i : f[k] = seq[k]
      BY <1>4
    <3>3. /\ a \in Seq(D) /\ Len(a) = i + 1 /\ a[i + 1] = seq[i + 1]
          /\ \A k \in 1..i : a[k] = seq[k]
      BY <2>2, <3>1, <3>2, AppendProperties
    <3>4. PICK g \in Seq(D) : g = Front(i + 1) /\ Len(g) = i + 1 /\ \A k \in 1..(i + 1) : g[k] = seq[k]
      BY <1>4, <2>1
    <3>5. ASSUME NEW k \in 1..Len(a) PROVE a[k] = g[k]
      <4>1. k \in 1..(i + 1) /\ (k = i + 1 \/ k \in 1..i)
        BY <1>2, <3>3
      <4>2. g[k] = seq[k]
        BY <3>4, <4>1
      <4>3. a[k] = seq[k]
        BY <3>3, <4>1
      <4> QED  BY <4>2, <4>3
    <3>6. a = g
      BY <3>3, <3>4, <3>5, SeqEqual
    <3> QED  BY <3>1, <3>4, <3>6
  <2>4. w[Front(i)] = w[Append(Front(i), seq[i + 1])]
    <3>1. Len(Front(i)) = i
      BY <1>4
    <3> HIDE DEF Front
    <3> QED  BY <1>8, <2>1, <2>2, <3>1 DEF WalkStep
  <2> QED  BY <2>3, <2>4
<1> DEFINE T == {i \in 0..Len(seq) : w[Front(i)] = seq}
<1>11. PICK n \in T : \A m \in T : n <= m
  <2>1. Len(seq) \in T
    BY <1>2, <1>9
  <2> HIDE DEF T
  <2>2. T \subseteq Nat
    BY <1>2 DEF T
  <2> QED  BY <2>1, <2>2, Smallest
<1>12. n = 0
  <2> SUFFICES ASSUME n # 0 PROVE FALSE
    OBVIOUS
  <2>1. PICK m \in 0..Len(seq) : n = m + 1 /\ m # Len(seq)
    <3>1. n - 1 \in 0..Len(seq) /\ n = (n - 1) + 1 /\ n - 1 # Len(seq)
      BY <1>2, <1>11
    <3> QED  BY <3>1
  <2>2. w[Front(m)] = w[Front(m + 1)]
    BY <1>10, <2>1
  <2>3. m \in T
    <3> HIDE DEF Front
    <3> QED  BY <1>11, <2>1, <2>2
  <2> QED  BY <1>2, <1>11, <2>1, <2>3
<1> QED  BY <1>1, <1>5, <1>11, <1>12

-----------------------------------------------------------------------------
(* Lists that are linked in both directions.                               *)

LastOf(seq) == IF seq = <<>> THEN Null ELSE seq[Len(seq)]

(* seq, without repetitions, hangs off x in mem.                           *)
Chain(mem, x, seq) ==
    /\ seq \in Seq(DOMAIN mem) /\ IsInjective(seq)
    /\ x = IF seq = <<>> THEN Null ELSE seq[1]
    /\ \A i \in 1..Len(seq) :
          /\ mem[seq[i]].next = IF i = Len(seq) THEN Null ELSE seq[i + 1]
          /\ mem[seq[i]].prev = IF i = 1 THEN Null ELSE seq[i - 1]

(* Such a list is what a walk finds.                                       *)
LEMMA ChainIsWalked ==
    ASSUME NEW mem, IsFiniteSet(DOMAIN mem), Null \notin DOMAIN mem,
           NEW x, NEW seq, Chain(mem, x, seq)
    PROVE  Follow(NextOf(mem), x) = seq /\ Mirrored(mem, seq)
<1>1. PICK link : link = NextOf(mem)
  OBVIOUS
<1>2. DOMAIN link = DOMAIN mem /\ \A z \in DOMAIN mem : link[z] = mem[z].next
  BY <1>1 DEF NextOf
<1>3. DOMAIN seq = 1..Len(seq) /\ \A i \in 1..Len(seq) : seq[i] \in DOMAIN mem
  BY LenProperties, ElementOfSeq DEF Chain
<1>4. Path(link, x, seq)
  BY <1>2, <1>3 DEF Chain, Path
<1>5. Follow(link, x) = seq
  BY <1>2, <1>4, PathIsFollow
<1> QED  BY <1>1, <1>3, <1>5 DEF Chain, Mirrored

(* The neighbours of an element.                                           *)
LEMMA ChainAt ==
    ASSUME NEW mem, NEW x, NEW seq, Chain(mem, x, seq), Null \notin DOMAIN mem
    PROVE  /\ Len(seq) \in Nat /\ DOMAIN seq = 1..Len(seq)
           /\ seq = <<>> <=> Len(seq) = 0
           /\ \A i \in 1..Len(seq) : seq[i] \in DOMAIN mem /\ seq[i] \in Range(seq) /\ seq[i] # Null
           /\ \A i, j \in 1..Len(seq) : seq[i] = seq[j] => i = j
           /\ \A z \in Range(seq) : \E i \in 1..Len(seq) : z = seq[i]
           /\ Range(seq) \subseteq DOMAIN mem
<1>1. Len(seq) \in Nat /\ DOMAIN seq = 1..Len(seq) /\ (seq = <<>> <=> Len(seq) = 0)
  BY LenProperties, EmptySeq DEF Chain
<1>2. \A i \in 1..Len(seq) : seq[i] \in DOMAIN mem
  BY ElementOfSeq DEF Chain
<1>3. \A i, j \in 1..Len(seq) : seq[i] = seq[j] => i = j
  BY <1>1 DEF Chain, IsInjective
<1> QED  BY <1>1, <1>2, <1>3 DEF Range

(* A list depends on the links of its elements only.                       *)
LEMMA ChainSame ==
    ASSUME NEW mem, NEW x, NEW seq, Chain(mem, x, seq), NEW mem2,
           DOMAIN mem2 = DOMAIN mem,
           \A z \in Range(seq) : mem2[z].next = mem[z].next /\ mem2[z].prev = mem[z].prev
    PROVE  Chain(mem2, x, seq)
<1>1. \A i \in 1..Len(seq) : seq[i] \in Range(seq)
  BY LenProperties DEF Chain, Range
<1> QED  BY <1>1 DEF Chain

(* The links are those of mem, but for o, which lies between a and b.      *)
LinkedIn(mem2, mem, a, o, b) ==
    /\ DOMAIN mem2 = DOMAIN mem
    /\ \A z \in DOMAIN mem : z # o =>
          /\ mem2[z].next = IF z = a THEN o ELSE mem[z].next
          /\ mem2[z].prev = IF z = b THEN o ELSE mem[z].prev
    /\ mem2[o].next = b /\ mem2[o].prev = a

(* The links are those of mem, but for those that go past e.               *)
LinkedPast(mem2, mem, e) ==
    /\ DOMAIN mem2 = DOMAIN mem
    /\ \A z \in DOMAIN mem : z # e =>
          /\ mem2[z].next = IF z = mem[e].prev THEN mem[e].next ELSE mem[z].next
          /\ mem2[z].prev = IF z = mem[e].next THEN mem[e].prev ELSE mem[z].prev

(* One more at the end: what was last points to it, if there was one.      *)
LEMMA ChainAppend ==
    ASSUME NEW mem, NEW x, NEW seq, Chain(mem, x, seq), Null \notin DOMAIN mem,
           NEW o \in DOMAIN mem, o \notin Range(seq),
           NEW mem2, LinkedIn(mem2, mem, LastOf(seq), o, Null)
    PROVE  /\ Chain(mem2, IF LastOf(seq) = Null THEN o ELSE x, Append(seq, o))
           /\ LastOf(Append(seq, o)) = o
<1> DEFINE S == DOMAIN mem
           n == Len(seq)
<1>1. /\ n \in Nat /\ seq \in Seq(S) /\ IsInjective(seq)
      /\ \A i \in 1..n : seq[i] \in S /\ seq[i] \in Range(seq) /\ seq[i] # Null
      /\ \A i, j \in 1..n : seq[i] = seq[j] => i = j
      /\ seq = <<>> <=> n = 0
  BY ChainAt DEF Chain
<1>2. PICK r : r = Append(seq, o)
  OBVIOUS
<1>3. /\ r \in Seq(S) /\ Len(r) = n + 1 /\ r[n + 1] = o
      /\ \A i \in 1..n : r[i] = seq[i]
      /\ IsInjective(r) /\ r # <<>>
  <2>1. IsInjective(r) /\ r # <<>>
    BY <1>1, <1>2, AppendKeeps
  <2> QED  BY <1>1, <1>2, <2>1, AppendProperties
<1>4. LastOf(seq) = IF n = 0 THEN Null ELSE seq[n]
  BY <1>1 DEF LastOf
<1>5. ASSUME NEW i \in 1..(n + 1)
      PROVE  /\ mem2[r[i]].next = IF i = n + 1 THEN Null ELSE r[i + 1]
             /\ mem2[r[i]].prev = IF i = 1 THEN Null ELSE r[i - 1]
  <2>1. CASE i = n + 1
    <3>1. mem2[r[i]].next = Null /\ mem2[r[i]].prev = LastOf(seq)
      BY <1>3, <2>1 DEF LinkedIn
    <3>2. LastOf(seq) = IF i = 1 THEN Null ELSE r[i - 1]
      BY <1>1, <1>3, <1>4, <2>1
    <3> QED  BY <2>1, <3>1, <3>2
  <2>2. CASE i \in 1..n
    <3>1. r[i] = seq[i] /\ seq[i] \in S /\ seq[i] # o
      BY <1>1, <1>3, <2>2
    <3>2. /\ mem2[seq[i]].next = IF seq[i] = LastOf(seq) THEN o ELSE mem[seq[i]].next
          /\ mem2[seq[i]].prev = mem[seq[i]].prev
      BY <3>1 DEF LinkedIn
    <3>3. seq[i] = LastOf(seq) <=> i = n
      BY <1>1, <1>4, <2>2
    <3>4. /\ mem[seq[i]].next = IF i = n THEN Null ELSE seq[i + 1]
          /\ mem[seq[i]].prev = IF i = 1 THEN Null ELSE seq[i - 1]
      BY <2>2 DEF Chain
    <3>5. i # 1 => r[i - 1] = seq[i - 1]
      BY <1>1, <1>3, <2>2
    <3>6. i # n => r[i + 1] = seq[i + 1]
      BY <1>1, <1>3, <2>2
    <3>7. i # n + 1
      BY <1>1, <2>2
    <3> QED  BY <1>3, <3>1, <3>2, <3>3, <3>4, <3>5, <3>6, <3>7
  <2> QED  BY <1>1, <2>1, <2>2
<1>6. (IF LastOf(seq) = Null THEN o ELSE x) = r[1]
  <2>1. CASE n = 0
    BY <1>3, <1>4, <2>1
  <2>2. CASE n # 0
    <3>1. n \in 1..n /\ 1 \in 1..n
      BY <1>1, <2>2
    <3> QED  BY <1>1, <1>3, <1>4, <2>2, <3>1 DEF Chain
  <2> QED  BY <2>1, <2>2
<1>7. Chain(mem2, IF LastOf(seq) = Null THEN o ELSE x, r)
  BY <1>3, <1>5, <1>6 DEF Chain, LinkedIn
<1>8. LastOf(r) = o
  BY <1>3 DEF LastOf
<1> QED  BY <1>2, <1>7, <1>8

(* One less: its neighbours point to one another.                          *)
LEMMA ChainUnlink ==
    ASSUME NEW mem, NEW x, NEW seq, Chain(mem, x, seq), Null \notin DOMAIN mem,
           NEW e \in Range(seq), NEW mem2, LinkedPast(mem2, mem, e)
    PROVE  /\ Chain(mem2, IF mem[e].prev = Null THEN mem[e].next ELSE x, Unlink(seq, e))
           /\ LastOf(Unlink(seq, e)) =
                 IF mem[e].next = Null THEN mem[e].prev ELSE LastOf(seq)
<1> DEFINE S == DOMAIN mem
           n == Len(seq)
<1>1. /\ n \in Nat /\ seq \in Seq(S) /\ IsInjective(seq)
      /\ \A i \in 1..n : seq[i] \in S /\ seq[i] \in Range(seq) /\ seq[i] # Null
      /\ \A i, j \in 1..n : seq[i] = seq[j] => i = j
      /\ seq = <<>> <=> n = 0
  BY ChainAt DEF Chain
<1>2. PICK r : r = Unlink(seq, e)
  OBVIOUS
<1>3. r \in Seq(S) /\ Len(r) = n - 1 /\ IsInjective(r)
  BY <1>1, <1>2, UnlinkKeeps
<1>4. PICK k \in 1..n :
        /\ seq[k] = e
        /\ \A i \in 1..n - 1 : r[i] = IF i < k THEN seq[i] ELSE seq[i + 1]
  BY <1>1, <1>2, UnlinkIs
<1>5. PICK next : next = mem[e].next
  OBVIOUS
<1>6. PICK prev : prev = mem[e].prev
  OBVIOUS
<1>7. /\ next = IF k = n THEN Null ELSE seq[k + 1]
      /\ prev = IF k = 1 THEN Null ELSE seq[k - 1]
  BY <1>4, <1>5, <1>6 DEF Chain
<1>8. \A z \in S : z # e =>
              /\ mem2[z].next = IF z = prev THEN next ELSE mem[z].next
              /\ mem2[z].prev = IF z = next THEN prev ELSE mem[z].prev
  BY <1>5, <1>6 DEF LinkedPast
<1>9. \A i \in 1..n :
          /\ mem[seq[i]].next = IF i = n THEN Null ELSE seq[i + 1]
          /\ mem[seq[i]].prev = IF i = 1 THEN Null ELSE seq[i - 1]
  BY DEF Chain
<1>10. \A i \in 1..n : (seq[i] = prev <=> i = k - 1) /\ (seq[i] = next <=> i = k + 1)
  BY <1>1, <1>4, <1>7
<1>11. ASSUME NEW i \in 1..n, i # k
       PROVE  /\ mem2[seq[i]].next = IF i = k - 1 THEN next
                                     ELSE IF i = n THEN Null ELSE seq[i + 1]
              /\ mem2[seq[i]].prev = IF i = k + 1 THEN prev
                                     ELSE IF i = 1 THEN Null ELSE seq[i - 1]
  <2>1. seq[i] \in S /\ seq[i] # e
    BY <1>1, <1>4, <1>11
  <2> QED  BY <1>8, <1>9, <1>10, <2>1
<1>12. ASSUME NEW i \in 1..(n - 1)
       PROVE  /\ mem2[r[i]].next = IF i = n - 1 THEN Null ELSE r[i + 1]
              /\ mem2[r[i]].prev = IF i = 1 THEN Null ELSE r[i - 1]
  <2>1. CASE i < k
    <3>1. i \in 1..n /\ i # k /\ r[i] = seq[i] /\ i # k + 1
      BY <1>1, <1>4, <2>1
    <3>2. /\ mem2[seq[i]].next = IF i = k - 1 THEN next
                                 ELSE IF i = n THEN Null ELSE seq[i + 1]
          /\ mem2[seq[i]].prev = IF i = 1 THEN Null ELSE seq[i - 1]
      BY <1>11, <3>1
    <3>3. i # 1 => r[i - 1] = seq[i - 1]
      <4>1. i # 1 => i - 1 \in 1..(n - 1) /\ i - 1 < k
        BY <1>1, <1>4, <2>1
      <4> QED  BY <1>4, <4>1
    <3>4. mem2[seq[i]].next = IF i = n - 1 THEN Null ELSE r[i + 1]
      <4>1. CASE i = k - 1
        <5>1. i = n - 1 <=> k = n
          BY <1>1, <1>4, <4>1
        <5>2. i # n - 1 => r[i + 1] = seq[k + 1]
          <6>1. i # n - 1 => i + 1 \in 1..(n - 1) /\ ~(i + 1 < k) /\ (i + 1) + 1 = k + 1
            BY <1>1, <1>4, <4>1
          <6> QED  BY <1>4, <6>1
        <5> QED  BY <1>7, <3>2, <4>1, <5>1, <5>2
      <4>2. CASE i # k - 1
        <5>1. i # n - 1 /\ i # n /\ i + 1 \in 1..(n - 1) /\ i + 1 < k
          BY <1>1, <1>4, <2>1, <4>2
        <5>2. r[i + 1] = seq[i + 1]
          BY <1>4, <5>1
        <5> QED  BY <3>2, <4>2, <5>1, <5>2
      <4> QED  BY <4>1, <4>2
    <3> QED  BY <3>1, <3>2, <3>3, <3>4
  <2>2. CASE i >= k
    <3>1. i + 1 \in 1..n /\ i + 1 # k /\ r[i] = seq[i + 1] /\ i + 1 # k - 1 /\ i + 1 # 1
      BY <1>1, <1>4, <2>2
    <3>2. /\ mem2[seq[i + 1]].next = IF i + 1 = n THEN Null ELSE seq[(i + 1) + 1]
          /\ mem2[seq[i + 1]].prev = IF i + 1 = k + 1 THEN prev ELSE seq[(i + 1) - 1]
      BY <1>11, <3>1
    <3>3. mem2[seq[i + 1]].next = IF i = n - 1 THEN Null ELSE r[i + 1]
      <4>1. i + 1 = n <=> i = n - 1
        BY <1>1
      <4>2. i # n - 1 => r[i + 1] = seq[(i + 1) + 1]
        <5>1. i # n - 1 => i + 1 \in 1..(n - 1) /\ ~(i + 1 < k)
          BY <1>1, <1>4, <2>2
        <5> QED  BY <1>4, <5>1
      <4> QED  BY <3>2, <4>1, <4>2
    <3>4. mem2[seq[i + 1]].prev = IF i = 1 THEN Null ELSE r[i - 1]
      <4>1. CASE i = k
        <5>1. i + 1 = k + 1 /\ (i # 1 => i - 1 \in 1..(n - 1) /\ i - 1 < k)
          BY <1>1, <1>4, <4>1
        <5>2. i # 1 => r[i - 1] = seq[i - 1]
          BY <1>4, <5>1
        <5> QED  BY <1>7, <3>2, <4>1, <5>1, <5>2
      <4>2. CASE i # k
        <5>1. i + 1 # k + 1 /\ i # 1 /\ i - 1 \in 1..(n - 1) /\ ~(i - 1 < k)
              /\ (i - 1) + 1 = i /\ (i + 1) - 1 = i
          BY <1>1, <1>4, <2>2, <4>2
        <5>2. r[i - 1] = seq[i]
          BY <1>4, <5>1
        <5> QED  BY <3>2, <5>1, <5>2
      <4> QED  BY <4>1, <4>2
    <3> QED  BY <3>1, <3>3, <3>4
  <2> QED  BY <1>1, <1>4, <2>1, <2>2
<1>13. r = <<>> <=> n = 1
  BY <1>1, <1>3, EmptySeq
<1>14. (IF prev = Null THEN next ELSE x) = IF r = <<>> THEN Null ELSE r[1]
  <2>1. CASE k = 1
    <3>1. prev = Null
      BY <1>7, <2>1
    <3>2. n # 1 => r[1] = seq[2]
      <4>1. n # 1 => 1 \in 1..(n - 1)
        <5>1. \A m \in Nat : m # 1 /\ k \in 1..m => 1 \in 1..(m - 1)
          OBVIOUS
        <5> QED  BY <1>1, <1>4, <5>1
      <4>2. ~(1 < k) /\ 1 + 1 = 2
        BY <2>1
      <4> QED  BY <1>4, <4>1, <4>2
    <3> QED  BY <1>7, <1>13, <2>1, <3>1, <3>2
  <2>2. CASE k # 1
    <3>1. k - 1 \in 1..n /\ 1 \in 1..(n - 1) /\ 1 < k /\ n # 1 /\ n # 0
      BY <1>1, <1>4, <2>2
    <3>2. prev # Null /\ r[1] = seq[1] /\ x = seq[1]
      BY <1>1, <1>4, <1>7, <2>2, <3>1 DEF Chain
    <3> QED  BY <1>13, <3>1, <3>2
  <2> QED  BY <2>1, <2>2
<1>15. Chain(mem2, IF prev = Null THEN next ELSE x, r)
  BY <1>3, <1>12, <1>14 DEF Chain, LinkedPast
<1>16. LastOf(r) = IF next = Null THEN prev ELSE LastOf(seq)
  <2>1. LastOf(seq) = seq[n]
    BY <1>1, <1>4 DEF LastOf
  <2>2. CASE k = n
    <3>1. next = Null
      BY <1>7, <2>2
    <3>2. n # 1 => r[n - 1] = seq[n - 1]
      BY <1>1, <1>4, <2>2
    <3> QED  BY <1>3, <1>7, <1>13, <2>2, <3>1, <3>2 DEF LastOf
  <2>3. CASE k # n
    <3>1. k + 1 \in 1..n /\ n - 1 \in 1..(n - 1) /\ ~(n - 1 < k) /\ n # 1 /\ (n - 1) + 1 = n
      BY <1>1, <1>4, <2>3
    <3>2. next # Null
      BY <1>1, <1>7, <2>3, <3>1
    <3>3. r[n - 1] = seq[n]
      BY <1>4, <3>1
    <3> QED  BY <1>3, <1>13, <2>1, <3>1, <3>2, <3>3 DEF LastOf
  <2> QED  BY <2>2, <2>3
<1> QED  BY <1>2, <1>5, <1>6, <1>15, <1>16

(* a and b are the neighbours of what goes in behind n elements of seq.    *)
Between(seq, n, a, b) ==
    /\ a = IF n = 0 THEN Null ELSE seq[n]
    /\ b = IF n = Len(seq) THEN Null ELSE seq[n + 1]

(* One more behind the leading run of elements of S.                       *)
LEMMA ChainInsert ==
    ASSUME NEW mem, NEW x, NEW seq, Chain(mem, x, seq), Null \notin DOMAIN mem,
           NEW v \in DOMAIN mem, v \notin Range(seq),
           NEW S, NEW n, n = LeadingRun(seq, S),
           NEW a, NEW b, Between(seq, n, a, b),
           NEW mem2, LinkedIn(mem2, mem, a, v, b)
    PROVE  Chain(mem2, IF a = Null THEN v ELSE x, InsertAfterRun(seq, S, v))
<1> DEFINE D == DOMAIN mem
<1>0. PICK m : m = Len(seq)
  OBVIOUS
<1>1. /\ m \in Nat /\ seq \in Seq(D) /\ IsInjective(seq)
      /\ \A i \in 1..m : seq[i] \in D /\ seq[i] \in Range(seq) /\ seq[i] # Null
      /\ \A i, j \in 1..m : seq[i] = seq[j] => i = j
      /\ seq = <<>> <=> m = 0
  <2>1. seq \in Seq(D) /\ IsInjective(seq)
    BY DEF Chain
  <2> QED  BY <1>0, <2>1, ChainAt
<1>2. PICK r : r = InsertAfterRun(seq, S, v)
  OBVIOUS
<1>3. n \in 0..m
  BY <1>0, <1>1, LeadingRunType
<1>4. /\ r \in Seq(D) /\ Len(r) = m + 1
      /\ \A i \in 1..(m + 1) :
            r[i] = IF i <= n THEN seq[i] ELSE IF i = n + 1 THEN v ELSE seq[i - 1]
  BY <1>0, <1>1, <1>2, InsertIs
<1>5. IsInjective(r)
  BY <1>1, <1>2, InsertKeeps
<1>6. \A i \in 1..m :
          /\ mem[seq[i]].next = IF i = m THEN Null ELSE seq[i + 1]
          /\ mem[seq[i]].prev = IF i = 1 THEN Null ELSE seq[i - 1]
  BY <1>0 DEF Chain
<1>7. \A i \in 1..m : (seq[i] = a <=> i = n) /\ (seq[i] = b <=> i = n + 1)
  BY <1>0, <1>1, <1>3 DEF Between
<1>8. ASSUME NEW i \in 1..m
      PROVE  /\ mem2[seq[i]].next = IF i = n THEN v ELSE IF i = m THEN Null ELSE seq[i + 1]
             /\ mem2[seq[i]].prev = IF i = n + 1 THEN v ELSE IF i = 1 THEN Null ELSE seq[i - 1]
  <2>1. seq[i] \in D /\ seq[i] # v
    BY <1>1
  <2>2. /\ mem2[seq[i]].next = IF seq[i] = a THEN v ELSE mem[seq[i]].next
        /\ mem2[seq[i]].prev = IF seq[i] = b THEN v ELSE mem[seq[i]].prev
    BY <2>1 DEF LinkedIn
  <2> QED  BY <1>6, <1>7, <2>2
<1>9. mem2[v].next = b /\ mem2[v].prev = a
  BY DEF LinkedIn
<1>10. /\ \A i \in 1..n : i \in 1..m /\ r[i] = seq[i]
       /\ r[n + 1] = v
       /\ \A i \in (n + 1)..m : i \in 1..m /\ r[i + 1] = seq[i]
  <2>1. ASSUME NEW i \in 1..n PROVE i \in 1..m /\ r[i] = seq[i]
    <3>1. i \in 1..m /\ i \in 1..(m + 1) /\ i <= n
      BY <1>1, <1>3
    <3> QED  BY <1>4, <3>1
  <2>2. r[n + 1] = v
    <3>1. n + 1 \in 1..(m + 1) /\ ~(n + 1 <= n)
      BY <1>1, <1>3
    <3> QED  BY <1>4, <3>1
  <2>3. ASSUME NEW i \in (n + 1)..m PROVE i \in 1..m /\ r[i + 1] = seq[i]
    <3>1. i \in 1..m /\ i + 1 \in 1..(m + 1) /\ ~(i + 1 <= n) /\ i + 1 # n + 1 /\ (i + 1) - 1 = i
      BY <1>1, <1>3
    <3> QED  BY <1>4, <3>1
  <2> QED  BY <2>1, <2>2, <2>3
<1>11. ASSUME NEW i \in 1..(m + 1)
       PROVE  /\ mem2[r[i]].next = IF i = m + 1 THEN Null ELSE r[i + 1]
              /\ mem2[r[i]].prev = IF i = 1 THEN Null ELSE r[i - 1]
  <2>1. CASE i \in 1..n
    <3>1. i \in 1..m /\ r[i] = seq[i] /\ i # n + 1 /\ i # m + 1
      BY <1>1, <1>3, <1>10, <2>1
    <3>2. i # 1 => r[i - 1] = seq[i - 1]
      <4>1. i # 1 => i - 1 \in 1..n
        BY <1>3, <2>1
      <4> QED  BY <1>10, <4>1
    <3>3. i # n => i # m /\ r[i + 1] = seq[i + 1]
      <4>1. i # n => i # m /\ i + 1 \in 1..n
        BY <1>1, <1>3, <2>1
      <4> QED  BY <1>10, <4>1
    <3> QED  BY <1>8, <1>10, <3>1, <3>2, <3>3
  <2>2. CASE i = n + 1
    <3>1. r[i] = v
      BY <1>10, <2>2
    <3>2. n # 0 => r[n] = seq[n]
      <4>1. n # 0 => n \in 1..n
        BY <1>3
      <4> QED  BY <1>10, <4>1
    <3>3. n # m => r[(n + 1) + 1] = seq[n + 1]
      <4>1. n # m => n + 1 \in (n + 1)..m
        BY <1>1, <1>3
      <4> QED  BY <1>10, <4>1
    <3>4. i - 1 = n /\ (i = 1 <=> n = 0) /\ (i = m + 1 <=> n = m)
      BY <1>1, <1>3, <2>2
    <3> QED  BY <1>0, <1>9, <2>2, <3>1, <3>2, <3>3, <3>4 DEF Between
  <2>3. CASE i > n + 1
    <3>1. PICK j \in (n + 1)..m : i = j + 1
      <4>1. i - 1 \in (n + 1)..m /\ i = (i - 1) + 1
        BY <1>1, <1>3, <2>3
      <4> QED  BY <4>1
    <3>2. /\ j \in 1..m /\ r[i] = seq[j]
          /\ j # n /\ i # 1 /\ i - 1 = j /\ (i = m + 1 <=> j = m)
      <4>1. j \in 1..m /\ r[j + 1] = seq[j]
        BY <1>10
      <4>2. j # n /\ j + 1 # 1 /\ (j + 1) - 1 = j /\ (j + 1 = m + 1 <=> j = m)
        BY <1>1, <1>3
      <4> QED  BY <3>1, <4>1, <4>2
    <3>3. j # m => r[i + 1] = seq[j + 1]
      <4>1. j # m => j + 1 \in (n + 1)..m
        BY <1>1, <1>3, <3>1
      <4> QED  BY <1>10, <3>1, <4>1
    <3>4. j # n + 1 => j # 1 /\ r[j] = seq[j - 1]
      <4>1. j # n + 1 => j # 1 /\ j - 1 \in (n + 1)..m /\ (j - 1) + 1 = j
        BY <1>1, <1>3, <3>1
      <4> QED  BY <1>10, <4>1
    <3>5. j = n + 1 => r[j] = v
      BY <1>10
    <3> QED  BY <1>8, <3>2, <3>3, <3>4, <3>5
  <2> QED  BY <1>1, <1>3, <2>1, <2>2, <2>3
<1>12. (IF a = Null THEN v ELSE x) = IF r = <<>> THEN Null ELSE r[1]
  <2>1. r # <<>>
    BY <1>1, <1>4, EmptySeq
  <2>2. CASE n = 0
    <3>1. r[n + 1] = v /\ n + 1 = 1
      BY <1>10, <2>2
    <3> QED  BY <2>1, <2>2, <3>1 DEF Between
  <2>3. CASE n # 0
    <3>1. n \in 1..m /\ 1 \in 1..n /\ m # 0
      BY <1>1, <1>3, <2>3
    <3>2. a # Null /\ r[1] = seq[1] /\ x = seq[1]
      BY <1>1, <1>10, <2>3, <3>1 DEF Chain, Between
    <3> QED  BY <2>1, <3>2
  <2> QED  BY <2>2, <2>3
<1>13. Chain(mem2, IF a = Null THEN v ELSE x, r)
  BY <1>4, <1>5, <1>11, <1>12 DEF Chain, LinkedIn
<1> QED  BY <1>2, <1>13

-----------------------------------------------------------------------------
(***************************************************************************)
(* The invariant.  It speaks of the lists the links stand for: L of the    *)
(* levels of each side, Q of the orders of each level, and F of the levels *)
(* that are free.  A step of the book is shown to do to these lists what   *)
(* MatchingEngine takes it to do.                                          *)
(***************************************************************************)

OrderRecords ==
    [side : Sides, price : Nat, shares : Nat,
     next : OrderSlots \cup {Null}, prev : OrderSlots \cup {Null}]

LevelRecords ==
    [total : Int, head : OrderSlots \cup {Null}, tail : OrderSlots \cup {Null},
     count : Int, prev : LevelSlots \cup {Null}, next : LevelSlots \cup {Null}]

Pools == [head : LevelSlots \cup {Null}, word : [LevelSlots -> Nat \cup {Null}]]

Books ==
    [best    : [Sides -> LevelSlots \cup {Null}],
     map     : [Sides -> [Prices -> LevelSlots \cup {Null}]],
     nLevels : [Sides -> Int],
     nOrders : Int]

Heaps ==
    [orders : [OrderSlots -> OrderRecords], levels : [LevelSlots -> LevelRecords],
     pool : Pools, book : Books]

(* The lists, as walks find them.                                          *)
ListsOf(h) == [s \in Sides |-> LevelList(h, s)]
QueuesOf(h) == [v \in LevelSlots |-> Queue(h, v)]

(* The levels in the list of a side, and the orders in a queue.            *)
Listed(L) == UNION {Range(L[s]) : s \in Sides}
Queued(Q) == UNION {Range(Q[v]) : v \in LevelSlots}

(* Every level, in use or not, holds a queue, and no two share an order.   *)
QueuesIn(h, Q) ==
    /\ Q \in [LevelSlots -> Seq(OrderSlots)]
    /\ \A v \in LevelSlots :
          /\ Chain(h.orders, h.levels[v].head, Q[v])
          /\ h.levels[v].tail = LastOf(Q[v])
          /\ h.levels[v].count = Len(Q[v])
    /\ \A v, w \in LevelSlots : Range(Q[v]) \cap Range(Q[w]) # {} => v = w

TotalsIn(h, Q) == \A v \in LevelSlots : h.levels[v].total = SharesIn(h.orders, Q[v])

ListsIn(h, L) ==
    /\ L \in [Sides -> Seq(LevelSlots)]
    /\ \A s \in Sides :
          /\ Chain(h.levels, h.book.best[s], L[s])
          /\ h.book.nLevels[s] = Len(L[s])
    /\ \A s, t \in Sides : Range(L[s]) \cap Range(L[t]) # {} => s = t

(* The levels with orders, and those of E, are the ones in a list.         *)
InUse(L, Q, E) == \A v \in LevelSlots : v \in Listed(L) <=> Q[v] # <<>> \/ v \in E

FreeIn(h, L, F) ==
    /\ Path(h.pool.word, h.pool.head, F)
    /\ Range(F) = LevelSlots \ Listed(L)

(* The orders of a level belong there.                                     *)
HomesIn(h, L, Q) ==
    \A s \in Sides : \A v \in Range(L[s]) : \A o \in Range(Q[v]) :
        h.orders[o].side = s /\ h.orders[o].price = h.pool.word[v]

(* The map of a side and its list agree.                                   *)
MapsIn(h, L) ==
    \A s \in Sides :
        /\ \A v \in Range(L[s]) :
              h.pool.word[v] \in Prices /\ h.book.map[s][h.pool.word[v]] = v
        /\ \A p \in Prices : h.book.map[s][p] # Null =>
              h.book.map[s][p] \in Range(L[s]) /\ h.pool.word[h.book.map[s][p]] = p

(* Price a comes before price b on side s.                                 *)
Before(s, a, b) == IF s = "Buy" THEN a > b ELSE a < b

SortedIn(h, L) ==
    \A s \in Sides : \A i, j \in DOMAIN L[s] :
        i < j => Before(s, h.pool.word[L[s][i]], h.pool.word[L[s][j]])

(* All of it, with the orders R in the queues; but for the totals, which   *)
(* lag behind while an operation is under way.                             *)
Shaped(h, L, Q, F, E, R) ==
    /\ h \in Heaps
    /\ QueuesIn(h, Q)
    /\ ListsIn(h, L) /\ InUse(L, Q, E) /\ FreeIn(h, L, F)
    /\ HomesIn(h, L, Q) /\ MapsIn(h, L) /\ SortedIn(h, L)
    /\ R = Queued(Q)

Sound(h, L, Q, F, E, R) == Shaped(h, L, Q, F, E, R) /\ TotalsIn(h, Q)

Inv ==
    /\ Sound(Heap, ListsOf(Heap), QueuesOf(Heap), FreeList(pool), {}, resting)
    /\ book.nOrders = Cardinality(resting)

-----------------------------------------------------------------------------
(* Writes to the links, and what they leave alone.                         *)

(* What an order or a level holds besides its links.                       *)
SameOrder(a, b) == a.side = b.side /\ a.price = b.price /\ a.shares = b.shares
SameLevel(a, b) ==
    a.total = b.total /\ a.head = b.head /\ a.tail = b.tail /\ a.count = b.count

OrderMem == [OrderSlots -> OrderRecords]
LevelMem == [LevelSlots -> LevelRecords]

(* A write changes one link of one slot, if there is one to change.        *)
LEMMA SetNextOrder ==
    ASSUME NEW mem \in OrderMem, NEW x, NEW y \in OrderSlots \cup {Null},
           NEW r, r = SetNext(mem, x, y)
    PROVE  /\ r \in OrderMem
           /\ \A z \in OrderSlots :
                 /\ r[z].next = IF z = x THEN y ELSE mem[z].next
                 /\ r[z].prev = mem[z].prev
                 /\ SameOrder(r[z], mem[z])
<1>1. DOMAIN mem = OrderSlots /\ \A z \in OrderSlots : mem[z] \in OrderRecords
  BY DEF OrderMem
<1>2. r = [z \in OrderSlots |-> IF z = x THEN [mem[z] EXCEPT !.next = y] ELSE mem[z]]
  BY <1>1 DEF SetNext
<1>3. ASSUME NEW z \in OrderSlots
      PROVE  /\ r[z] \in OrderRecords
             /\ r[z].next = IF z = x THEN y ELSE mem[z].next
             /\ r[z].prev = mem[z].prev
             /\ SameOrder(r[z], mem[z])
  <2>1. PICK m \in OrderRecords : m = mem[z]
    BY <1>1
  <2>2. r[z] = IF z = x THEN [m EXCEPT !.next = y] ELSE m
    BY <1>2, <2>1
  <2> QED  BY <2>1, <2>2 DEF OrderRecords, SameOrder
<1>4. r \in OrderMem
  BY <1>2, <1>3 DEF OrderMem
<1> QED  BY <1>3, <1>4

(* ... or the link back, ...                                               *)
LEMMA SetPrevOrder ==
    ASSUME NEW mem \in OrderMem, NEW x, NEW y \in OrderSlots \cup {Null},
           NEW r, r = SetPrev(mem, x, y)
    PROVE  /\ r \in OrderMem
           /\ \A z \in OrderSlots :
                 /\ r[z].prev = IF z = x THEN y ELSE mem[z].prev
                 /\ r[z].next = mem[z].next
                 /\ SameOrder(r[z], mem[z])
<1>1. DOMAIN mem = OrderSlots /\ \A z \in OrderSlots : mem[z] \in OrderRecords
  BY DEF OrderMem
<1>2. r = [z \in OrderSlots |-> IF z = x THEN [mem[z] EXCEPT !.prev = y] ELSE mem[z]]
  BY <1>1 DEF SetPrev
<1>3. ASSUME NEW z \in OrderSlots
      PROVE  /\ r[z] \in OrderRecords
             /\ r[z].prev = IF z = x THEN y ELSE mem[z].prev
             /\ r[z].next = mem[z].next
             /\ SameOrder(r[z], mem[z])
  <2>1. PICK m \in OrderRecords : m = mem[z]
    BY <1>1
  <2>2. r[z] = IF z = x THEN [m EXCEPT !.prev = y] ELSE m
    BY <1>2, <2>1
  <2> QED  BY <2>1, <2>2 DEF OrderRecords, SameOrder
<1>4. r \in OrderMem
  BY <1>2, <1>3 DEF OrderMem
<1> QED  BY <1>3, <1>4

(* ... and the same for levels.                                            *)
LEMMA SetNextLevel ==
    ASSUME NEW mem \in LevelMem, NEW x, NEW y \in LevelSlots \cup {Null},
           NEW r, r = SetNext(mem, x, y)
    PROVE  /\ r \in LevelMem
           /\ \A z \in LevelSlots :
                 /\ r[z].next = IF z = x THEN y ELSE mem[z].next
                 /\ r[z].prev = mem[z].prev
                 /\ SameLevel(r[z], mem[z])
<1>1. DOMAIN mem = LevelSlots /\ \A z \in LevelSlots : mem[z] \in LevelRecords
  BY DEF LevelMem
<1>2. r = [z \in LevelSlots |-> IF z = x THEN [mem[z] EXCEPT !.next = y] ELSE mem[z]]
  BY <1>1 DEF SetNext
<1>3. ASSUME NEW z \in LevelSlots
      PROVE  /\ r[z] \in LevelRecords
             /\ r[z].next = IF z = x THEN y ELSE mem[z].next
             /\ r[z].prev = mem[z].prev
             /\ SameLevel(r[z], mem[z])
  <2>1. PICK m \in LevelRecords : m = mem[z]
    BY <1>1
  <2>2. r[z] = IF z = x THEN [m EXCEPT !.next = y] ELSE m
    BY <1>2, <2>1
  <2> QED  BY <2>1, <2>2 DEF LevelRecords, SameLevel
<1>4. r \in LevelMem
  BY <1>2, <1>3 DEF LevelMem
<1> QED  BY <1>3, <1>4

(* A link back of a level.                                                 *)
LEMMA SetPrevLevel ==
    ASSUME NEW mem \in LevelMem, NEW x, NEW y \in LevelSlots \cup {Null},
           NEW r, r = SetPrev(mem, x, y)
    PROVE  /\ r \in LevelMem
           /\ \A z \in LevelSlots :
                 /\ r[z].prev = IF z = x THEN y ELSE mem[z].prev
                 /\ r[z].next = mem[z].next
                 /\ SameLevel(r[z], mem[z])
<1>1. DOMAIN mem = LevelSlots /\ \A z \in LevelSlots : mem[z] \in LevelRecords
  BY DEF LevelMem
<1>2. r = [z \in LevelSlots |-> IF z = x THEN [mem[z] EXCEPT !.prev = y] ELSE mem[z]]
  BY <1>1 DEF SetPrev
<1>3. ASSUME NEW z \in LevelSlots
      PROVE  /\ r[z] \in LevelRecords
             /\ r[z].prev = IF z = x THEN y ELSE mem[z].prev
             /\ r[z].next = mem[z].next
             /\ SameLevel(r[z], mem[z])
  <2>1. PICK m \in LevelRecords : m = mem[z]
    BY <1>1
  <2>2. r[z] = IF z = x THEN [m EXCEPT !.prev = y] ELSE m
    BY <1>2, <2>1
  <2> QED  BY <2>1, <2>2 DEF LevelRecords, SameLevel
<1>4. r \in LevelMem
  BY <1>2, <1>3 DEF LevelMem
<1> QED  BY <1>3, <1>4

(* The slots of levels are finitely many numbers, and Null is no slot.     *)
LEMMA Slots ==
    /\ IsFiniteSet(LevelSlots) /\ LevelSlots \subseteq Nat
    /\ Null \notin LevelSlots /\ Null \notin OrderSlots /\ IsFiniteSet(OrderSlots)
<1>1. LevelCapacity \in Nat /\ 0 \in Int /\ LevelCapacity - 1 \in Int
  BY SizesAreNat
<1>2. IsFiniteSet(0..(LevelCapacity - 1))
  BY <1>1, FS_Interval
<1> QED  BY <1>1, <1>2, NullIsNoSlot, SlotsAreFinite DEF LevelSlots

(* The parts of a heap.                                                    *)
LEMMA HeapParts ==
    ASSUME NEW h \in Heaps
    PROVE  /\ h.orders \in OrderMem /\ DOMAIN h.orders = OrderSlots
           /\ h.levels \in LevelMem /\ DOMAIN h.levels = LevelSlots
           /\ Shares(h.orders, OrderSlots)
           /\ h.pool \in Pools /\ h.book \in Books
           /\ DOMAIN h.pool.word = LevelSlots
<1>1. h.orders \in OrderMem /\ h.levels \in LevelMem /\ h.pool \in Pools /\ h.book \in Books
  BY DEF Heaps, OrderMem, LevelMem
<1>2. \A o \in OrderSlots : h.orders[o] \in OrderRecords
  BY <1>1 DEF OrderMem
<1>3. Shares(h.orders, OrderSlots)
  BY <1>2 DEF OrderRecords, Shares
<1>4. DOMAIN h.pool.word = LevelSlots
  BY <1>1 DEF Pools
<1>5. DOMAIN h.orders = OrderSlots /\ DOMAIN h.levels = LevelSlots
  BY <1>1 DEF OrderMem, LevelMem
<1> QED  BY <1>1, <1>3, <1>4, <1>5

(* The lists of a sound heap are those that walks find.                    *)
LEMMA SoundIsWalked ==
    ASSUME NEW h, NEW L, NEW Q, NEW F, NEW E, NEW R, Sound(h, L, Q, F, E, R)
    PROVE  L = ListsOf(h) /\ Q = QueuesOf(h) /\ F = FreeList(h.pool)
<1>1. /\ h \in Heaps /\ QueuesIn(h, Q) /\ ListsIn(h, L) /\ FreeIn(h, L, F)
  BY DEF Sound, Shaped
<1>2. /\ DOMAIN h.orders = OrderSlots /\ DOMAIN h.levels = LevelSlots
      /\ DOMAIN h.pool.word = LevelSlots
  BY <1>1, HeapParts
<1>3. ASSUME NEW s \in Sides PROVE L[s] = LevelList(h, s)
  <2>1. Chain(h.levels, h.book.best[s], L[s])
    BY <1>1 DEF ListsIn
  <2>2. IsFiniteSet(DOMAIN h.levels) /\ Null \notin DOMAIN h.levels
    BY <1>2, Slots
  <2> QED  BY <2>1, <2>2, ChainIsWalked DEF LevelList
<1>4. ASSUME NEW v \in LevelSlots PROVE Q[v] = Queue(h, v)
  <2>1. Chain(h.orders, h.levels[v].head, Q[v])
    BY <1>1 DEF QueuesIn
  <2>2. IsFiniteSet(DOMAIN h.orders) /\ Null \notin DOMAIN h.orders
    BY <1>2, Slots
  <2> QED  BY <2>1, <2>2, ChainIsWalked DEF Queue
<1>5. FreeList(h.pool) = F
  <2>1. Path(h.pool.word, h.pool.head, F)
    BY <1>1 DEF FreeIn
  <2>2. IsFiniteSet(DOMAIN h.pool.word) /\ Null \notin DOMAIN h.pool.word
    BY <1>2, Slots
  <2> QED  BY <2>1, <2>2, PathIsFollow DEF FreeList
<1>6. L = [s \in Sides |-> L[s]] /\ Q = [v \in LevelSlots |-> Q[v]]
  BY <1>1 DEF ListsIn, QueuesIn
<1> QED  BY <1>3, <1>4, <1>5, <1>6 DEF ListsOf, QueuesOf

-----------------------------------------------------------------------------
(* Operations on one level: push_back, unlink.                             *)

(* Two heaps whose lists of levels are linked the same way.                *)
SameLinks(h, g) ==
    /\ g.book = h.book /\ g.pool = h.pool
    /\ \A w \in LevelSlots :
          g.levels[w].next = h.levels[w].next /\ g.levels[w].prev = h.levels[w].prev

(* push_back links an order in behind the last one of a level ...          *)
LEMMA PushIs ==
    ASSUME NEW h \in Heaps, NEW v \in LevelSlots, NEW o \in OrderSlots,
           NEW last, last = h.levels[v].tail, last # o,
           NEW g, g = PushBack(h, v, o)
    PROVE  /\ g \in Heaps /\ SameLinks(h, g)
           /\ LinkedIn(g.orders, h.orders, last, o, Null)
           /\ \A z \in OrderSlots : SameOrder(g.orders[z], h.orders[z])
           /\ \A w \in LevelSlots : w # v => g.levels[w] = h.levels[w]
           /\ g.levels[v].head = IF last = Null THEN o ELSE h.levels[v].head
           /\ g.levels[v].tail = o
           /\ g.levels[v].total = h.levels[v].total + h.orders[o].shares
           /\ g.levels[v].count = h.levels[v].count + 1
<1>1. /\ h.orders \in OrderMem /\ h.levels \in LevelMem
      /\ h.pool \in Pools /\ h.book \in Books
  BY HeapParts
<1>2. PICK mem : mem = [h.orders EXCEPT ![o].next = Null, ![o].prev = last]
  OBVIOUS
<1>3. PICK lvl \in LevelRecords : lvl = h.levels[v]
  BY <1>1 DEF LevelMem
<1>4. last \in OrderSlots \cup {Null}
  BY <1>3 DEF LevelRecords
<1>5. PICK ord \in OrderRecords : ord = h.orders[o]
  BY <1>1 DEF OrderMem
<1>6. /\ mem \in OrderMem
      /\ \A z \in OrderSlots : z # o => mem[z] = h.orders[z]
      /\ mem[o] = [ord EXCEPT !.next = Null, !.prev = last]
  <2>1. mem = [h.orders EXCEPT ![o] = [ord EXCEPT !.next = Null, !.prev = last]]
    BY <1>1, <1>2, <1>5 DEF OrderMem
  <2>2. [ord EXCEPT !.next = Null, !.prev = last] \in OrderRecords
    BY <1>4 DEF OrderRecords
  <2> QED  BY <1>1, <2>1, <2>2 DEF OrderMem
<1>7. mem[o].next = Null /\ mem[o].prev = last /\ SameOrder(mem[o], h.orders[o])
  BY <1>5, <1>6 DEF OrderRecords, SameOrder
<1>8. PICK mem2 : mem2 = SetNext(mem, last, o)
  OBVIOUS
<1>9. /\ mem2 \in OrderMem
      /\ \A z \in OrderSlots :
            /\ mem2[z].next = IF z = last THEN o ELSE mem[z].next
            /\ mem2[z].prev = mem[z].prev
            /\ SameOrder(mem2[z], mem[z])
  BY <1>6, <1>8, SetNextOrder
<1>10. PICK lvl2 : lvl2 = [lvl EXCEPT !.head = IF last = Null THEN o ELSE @,
                                      !.tail = o,
                                      !.total = @ + h.orders[o].shares,
                                      !.count = @ + 1]
  OBVIOUS
<1>11. /\ lvl2 \in LevelRecords
       /\ lvl2.head = IF last = Null THEN o ELSE lvl.head
       /\ lvl2.tail = o
       /\ lvl2.total = lvl.total + h.orders[o].shares
       /\ lvl2.count = lvl.count + 1
       /\ lvl2.next = lvl.next /\ lvl2.prev = lvl.prev
  <2>1. PICK t \in Int : t = lvl.total + h.orders[o].shares
    <3>1. lvl.total \in Int /\ h.orders[o].shares \in Int
      BY <1>5 DEF OrderRecords, LevelRecords
    <3> QED  BY <3>1
  <2>2. PICK n \in Int : n = lvl.count + 1
    <3>1. lvl.count \in Int
      BY DEF LevelRecords
    <3> QED  BY <3>1
  <2>3. PICK x \in OrderSlots \cup {Null} : x = IF last = Null THEN o ELSE lvl.head
    BY DEF LevelRecords
  <2>4. lvl2 = [lvl EXCEPT !.head = x, !.tail = o, !.total = t, !.count = n]
    BY <1>10, <2>1, <2>2, <2>3
  <2> QED  BY <2>1, <2>2, <2>3, <2>4 DEF LevelRecords
<1>12. g = [h EXCEPT !.orders = mem2, !.levels[v] = lvl2]
  BY <1>2, <1>3, <1>8, <1>10 DEF PushBack
<1>13. /\ g.orders = mem2 /\ g.levels = [h.levels EXCEPT ![v] = lvl2]
       /\ g.pool = h.pool /\ g.book = h.book
       /\ g \in [orders : OrderMem, levels : LevelMem, pool : Pools, book : Books]
  <2>1. [h.levels EXCEPT ![v] = lvl2] \in LevelMem
    BY <1>1, <1>11 DEF LevelMem
  <2> QED  BY <1>1, <1>9, <1>12, <2>1 DEF Heaps
<1>14. g \in Heaps
  BY <1>13 DEF Heaps, OrderMem, LevelMem
<1>15. /\ \A w \in LevelSlots : w # v => g.levels[w] = h.levels[w]
       /\ g.levels[v] = lvl2
  BY <1>1, <1>13 DEF LevelMem
<1>16. SameLinks(h, g)
  BY <1>3, <1>11, <1>13, <1>15 DEF SameLinks
<1>17. LinkedIn(g.orders, h.orders, last, o, Null)
  <2>1. DOMAIN mem2 = OrderSlots /\ DOMAIN h.orders = OrderSlots
    BY <1>1, <1>9 DEF OrderMem
  <2>2. Null \notin OrderSlots
    BY Slots
  <2> QED  BY <1>6, <1>7, <1>9, <1>13, <2>1, <2>2 DEF LinkedIn
<1>18. \A z \in OrderSlots : SameOrder(g.orders[z], h.orders[z])
  <2>1. ASSUME NEW z \in OrderSlots PROVE SameOrder(g.orders[z], h.orders[z])
    <3>1. SameOrder(mem2[z], mem[z]) /\ g.orders[z] = mem2[z]
      BY <1>9, <1>13
    <3>2. CASE z = o
      BY <1>7, <3>1, <3>2 DEF SameOrder
    <3>3. CASE z # o
      BY <1>6, <3>1, <3>3 DEF SameOrder
    <3> QED  BY <3>2, <3>3
  <2> QED  BY <2>1
<1> QED  BY <1>3, <1>11, <1>14, <1>15, <1>16, <1>17, <1>18

(* ... and the queue is the old one with the order at its back.            *)
LEMMA PushKeeps ==
    ASSUME NEW h, NEW L, NEW Q, NEW F, NEW E, NEW R, Sound(h, L, Q, F, E, R),
           NEW s \in Sides, NEW v \in Range(L[s]), NEW o \in OrderSlots, o \notin R,
           h.orders[o].side = s, h.orders[o].price = h.pool.word[v],
           NEW g, g = PushBack(h, v, o)
    PROVE  Sound(g, L, [Q EXCEPT ![v] = Append(@, o)], F, E \ {v}, R \cup {o})
<1>1. /\ h \in Heaps /\ QueuesIn(h, Q) /\ TotalsIn(h, Q) /\ ListsIn(h, L) /\ InUse(L, Q, E)
      /\ FreeIn(h, L, F) /\ HomesIn(h, L, Q) /\ MapsIn(h, L) /\ SortedIn(h, L) /\ R = Queued(Q)
  BY DEF Sound, Shaped
<1>2. /\ h.orders \in OrderMem /\ DOMAIN h.orders = OrderSlots
      /\ h.levels \in LevelMem /\ DOMAIN h.levels = LevelSlots
      /\ Shares(h.orders, OrderSlots)
  BY <1>1, HeapParts
<1>3. /\ Q \in [LevelSlots -> Seq(OrderSlots)]
      /\ \A w \in LevelSlots : Chain(h.orders, h.levels[w].head, Q[w])
      /\ \A w \in LevelSlots : h.levels[w].tail = LastOf(Q[w]) /\ h.levels[w].count = Len(Q[w])
      /\ \A w, u \in LevelSlots : Range(Q[w]) \cap Range(Q[u]) # {} => w = u
  BY <1>1 DEF QueuesIn
<1>4. /\ Null \notin OrderSlots /\ Null \notin LevelSlots
  BY Slots
<1>5. v \in LevelSlots /\ \A t \in Sides : Range(L[t]) \subseteq LevelSlots
  <2>1. ASSUME NEW t \in Sides PROVE Range(L[t]) \subseteq LevelSlots
    BY <1>1, <1>2, <1>4, ChainAt DEF ListsIn
  <2> QED  BY <2>1
<1>6. \A w \in LevelSlots : o \notin Range(Q[w])
  BY <1>1 DEF Queued
<1>7. \A w \in LevelSlots : Range(Q[w]) \subseteq OrderSlots
  BY <1>2, <1>3, <1>4, ChainAt
<1>8. PICK last : last = LastOf(Q[v])
  OBVIOUS
<1>9. last = Null \/ last \in Range(Q[v])
  <2>1. /\ Len(Q[v]) \in Nat /\ (Q[v] = <<>> <=> Len(Q[v]) = 0)
        /\ \A i \in 1..Len(Q[v]) : Q[v][i] \in Range(Q[v])
    BY <1>2, <1>3, <1>4, <1>5, ChainAt
  <2>2. Q[v] # <<>> => Len(Q[v]) \in 1..Len(Q[v])
    BY <2>1
  <2> QED  BY <1>8, <2>1, <2>2 DEF LastOf
<1>10. last # o /\ last = h.levels[v].tail
  BY <1>3, <1>4, <1>5, <1>6, <1>8, <1>9
<1>11. /\ g \in Heaps /\ SameLinks(h, g)
       /\ LinkedIn(g.orders, h.orders, last, o, Null)
       /\ \A z \in OrderSlots : SameOrder(g.orders[z], h.orders[z])
       /\ \A w \in LevelSlots : w # v => g.levels[w] = h.levels[w]
       /\ g.levels[v].head = IF last = Null THEN o ELSE h.levels[v].head
       /\ g.levels[v].tail = o
       /\ g.levels[v].total = h.levels[v].total + h.orders[o].shares
       /\ g.levels[v].count = h.levels[v].count + 1
  BY <1>1, <1>5, <1>10, PushIs
<1>12. PICK r : r = Append(Q[v], o)
  OBVIOUS
<1>13. PICK Q2 : Q2 = [Q EXCEPT ![v] = r]
  OBVIOUS
<1>14. /\ r \in Seq(OrderSlots) /\ Len(r) = Len(Q[v]) + 1
       /\ r # <<>> /\ Range(r) = Range(Q[v]) \cup {o}
  <2>1. Q[v] \in Seq(OrderSlots) /\ IsInjective(Q[v]) /\ o \notin Range(Q[v])
    BY <1>3, <1>5, <1>6 DEF Chain
  <2>2. r \in Seq(OrderSlots) /\ Len(r) = Len(Q[v]) + 1
    BY <1>12, <2>1, AppendProperties
  <2> QED  BY <1>12, <2>1, <2>2, AppendKeeps
<1>15. /\ Q2 \in [LevelSlots -> Seq(OrderSlots)] /\ Q2[v] = r
       /\ \A w \in LevelSlots : w # v => Q2[w] = Q[w]
  BY <1>3, <1>5, <1>13, <1>14
<1>16. QueuesIn(g, Q2)
  <2>1. Chain(g.orders, g.levels[v].head, r) /\ LastOf(r) = o
    <3>1. Chain(h.orders, h.levels[v].head, Q[v]) /\ o \notin Range(Q[v])
      BY <1>3, <1>5, <1>6
    <3>2. /\ Chain(g.orders, IF LastOf(Q[v]) = Null THEN o ELSE h.levels[v].head, r)
          /\ LastOf(r) = o
      BY <1>2, <1>4, <1>8, <1>11, <1>12, <3>1, ChainAppend
    <3> QED  BY <1>8, <1>11, <3>2
  <2>2. ASSUME NEW w \in LevelSlots, w # v PROVE Chain(g.orders, g.levels[w].head, Q[w])
    <3>1. DOMAIN g.orders = DOMAIN h.orders
      BY <1>11 DEF LinkedIn
    <3>2. ASSUME NEW z \in Range(Q[w])
          PROVE  g.orders[z].next = h.orders[z].next /\ g.orders[z].prev = h.orders[z].prev
      <4>1. z \in OrderSlots /\ z # o /\ z # last /\ z # Null
        BY <1>3, <1>4, <1>5, <1>6, <1>7, <1>9, <2>2
      <4> QED  BY <1>2, <1>11, <4>1 DEF LinkedIn
    <3>3. Chain(h.orders, h.levels[w].head, Q[w]) /\ g.levels[w].head = h.levels[w].head
      BY <1>3, <1>11, <2>2
    <3> QED  BY <3>1, <3>2, <3>3, ChainSame
  <2>3. ASSUME NEW w \in LevelSlots, NEW u \in LevelSlots, Range(Q2[w]) \cap Range(Q2[u]) # {}
        PROVE  w = u
    <3>1. PICK x : x \in Range(Q2[w]) /\ x \in Range(Q2[u])
      BY <2>3
    <3>2. /\ x \in Range(Q[w]) \/ (w = v /\ x = o)
          /\ x \in Range(Q[u]) \/ (u = v /\ x = o)
      BY <1>14, <1>15, <3>1
    <3>3. CASE x = o
      BY <1>6, <3>2, <3>3
    <3>4. CASE x # o
      <4>1. Range(Q[w]) \cap Range(Q[u]) # {}
        BY <3>2, <3>4
      <4> QED  BY <1>3, <4>1
    <3> QED  BY <3>3, <3>4
  <2>4. g.levels[v].tail = LastOf(r) /\ g.levels[v].count = Len(r)
    BY <1>3, <1>5, <1>11, <1>14, <2>1
  <2>5. \A w \in LevelSlots : w # v =>
           g.levels[w].tail = LastOf(Q[w]) /\ g.levels[w].count = Len(Q[w])
    BY <1>3, <1>11
  <2>6. \A w \in LevelSlots : Chain(g.orders, g.levels[w].head, Q2[w])
    BY <1>15, <2>1, <2>2
  <2>7. \A w \in LevelSlots : g.levels[w].tail = LastOf(Q2[w]) /\ g.levels[w].count = Len(Q2[w])
    BY <1>15, <2>4, <2>5
  <2> QED  BY <1>15, <2>3, <2>6, <2>7 DEF QueuesIn
<1>17. TotalsIn(g, Q2)
  <2>1. ASSUME NEW w \in LevelSlots PROVE SharesIn(g.orders, Q[w]) = SharesIn(h.orders, Q[w])
    <3>1. \A x \in Range(Q[w]) : g.orders[x].shares = h.orders[x].shares
      BY <1>7, <1>11 DEF SameOrder
    <3> QED  BY <3>1, SharesSame
  <2>2. SharesIn(g.orders, r) = SharesIn(g.orders, Q[v]) + g.orders[o].shares
    <3>1. Q[v] \in Seq(OrderSlots) /\ Shares(g.orders, OrderSlots)
      BY <1>3, <1>5, <1>11, HeapParts
    <3> QED  BY <1>12, <3>1, SharesAppend
  <2>3. g.orders[o].shares = h.orders[o].shares
    BY <1>11 DEF SameOrder
  <2>4. \A w \in LevelSlots : h.levels[w].total = SharesIn(h.orders, Q[w])
    BY <1>1 DEF TotalsIn
  <2>5. g.levels[v].total = SharesIn(g.orders, Q2[v])
    BY <1>5, <1>11, <1>15, <2>1, <2>2, <2>3, <2>4
  <2>6. ASSUME NEW w \in LevelSlots, w # v PROVE g.levels[w].total = SharesIn(g.orders, Q2[w])
    BY <1>11, <1>15, <2>1, <2>4, <2>6
  <2> QED  BY <2>5, <2>6 DEF TotalsIn
<1>18. ListsIn(g, L)
  <2>1. DOMAIN g.levels = DOMAIN h.levels
    BY <1>2, <1>11, HeapParts
  <2>2. ASSUME NEW t \in Sides PROVE Chain(g.levels, g.book.best[t], L[t])
    <3>1. Chain(h.levels, h.book.best[t], L[t]) /\ g.book = h.book
      BY <1>1, <1>11 DEF ListsIn, SameLinks
    <3>2. \A z \in Range(L[t]) : /\ g.levels[z].next = h.levels[z].next
                                 /\ g.levels[z].prev = h.levels[z].prev
      BY <1>5, <1>11 DEF SameLinks
    <3> QED  BY <2>1, <3>1, <3>2, ChainSame
  <2> QED  BY <1>1, <1>11, <2>2 DEF ListsIn, SameLinks
<1>19. InUse(L, Q2, E \ {v})
  <2>1. v \in Listed(L)
    BY DEF Listed
  <2> QED  BY <1>1, <1>5, <1>14, <1>15, <2>1 DEF InUse
<1>20. FreeIn(g, L, F) /\ MapsIn(g, L) /\ SortedIn(g, L)
  <2>1. g.book = h.book /\ g.pool = h.pool
    BY <1>11 DEF SameLinks
  <2>2. FreeIn(g, L, F)
    BY <1>1, <2>1 DEF FreeIn
  <2>3. MapsIn(g, L)
    BY <1>1, <2>1 DEF MapsIn
  <2>4. SortedIn(g, L)
    BY <1>1, <2>1 DEF SortedIn
  <2> QED  BY <2>2, <2>3, <2>4
<1>21. HomesIn(g, L, Q2)
  <2>1. ASSUME NEW t \in Sides, NEW w \in Range(L[t]), NEW x \in Range(Q2[w])
        PROVE  g.orders[x].side = t /\ g.orders[x].price = g.pool.word[w]
    <3>1. w \in LevelSlots /\ x \in OrderSlots /\ (x \in Range(Q[w]) \/ (w = v /\ x = o))
      BY <1>5, <1>7, <1>14, <1>15
    <3>2. h.orders[x].side = t /\ h.orders[x].price = h.pool.word[w]
      <4>1. CASE x \in Range(Q[w])
        BY <1>1, <4>1 DEF HomesIn
      <4>2. CASE w = v /\ x = o
        <5>1. v \in Range(L[s]) \cap Range(L[t])
          BY <4>2
        <5>2. s = t
          BY <1>1, <5>1 DEF ListsIn
        <5> QED  BY <4>2, <5>2
      <4> QED  BY <3>1, <4>1, <4>2
    <3> QED  BY <1>11, <3>1, <3>2 DEF SameOrder, SameLinks
  <2> QED  BY <2>1 DEF HomesIn
<1>22. R \cup {o} = Queued(Q2)
  <2>1. ASSUME NEW x PROVE x \in R \cup {o} <=> \E w \in LevelSlots : x \in Range(Q2[w])
    BY <1>1, <1>5, <1>14, <1>15 DEF Queued
  <2> QED  BY <2>1 DEF Queued
<1>23. Sound(g, L, Q2, F, E \ {v}, R \cup {o})
  BY <1>11, <1>16, <1>17, <1>18, <1>19, <1>20, <1>21, <1>22 DEF Sound, Shaped
<1> QED  BY <1>12, <1>13, <1>23

(* unlink takes an order out from between its neighbours ...               *)
LEMMA UnlinkOrderIs ==
    ASSUME NEW h \in Heaps, NEW v \in LevelSlots, NEW o \in OrderSlots,
           NEW next, next = h.orders[o].next, NEW prev, prev = h.orders[o].prev,
           NEW g, g = UnlinkOrder(h, v, o)
    PROVE  /\ g \in Heaps /\ SameLinks(h, g)
           /\ LinkedPast(g.orders, h.orders, o)
           /\ \A z \in OrderSlots : z # o => SameOrder(g.orders[z], h.orders[z])
           /\ \A w \in LevelSlots : w # v => g.levels[w] = h.levels[w]
           /\ g.levels[v].head = IF prev = Null THEN next ELSE h.levels[v].head
           /\ g.levels[v].tail = IF next = Null THEN prev ELSE h.levels[v].tail
           /\ g.levels[v].total = h.levels[v].total
           /\ g.levels[v].count = h.levels[v].count - 1
<1>1. /\ h.orders \in OrderMem /\ h.levels \in LevelMem
      /\ h.pool \in Pools /\ h.book \in Books
  BY HeapParts
<1>2. next \in OrderSlots \cup {Null} /\ prev \in OrderSlots \cup {Null}
  BY <1>1 DEF OrderMem, OrderRecords
<1>3. PICK mem : mem = SetNext(h.orders, prev, next)
  OBVIOUS
<1>4. PICK mem2 : mem2 = SetPrev(mem, next, prev)
  OBVIOUS
<1>5. /\ mem \in OrderMem
      /\ \A z \in OrderSlots :
            /\ mem[z].next = IF z = prev THEN next ELSE h.orders[z].next
            /\ mem[z].prev = h.orders[z].prev
            /\ SameOrder(mem[z], h.orders[z])
  BY <1>1, <1>2, <1>3, SetNextOrder
<1>6. /\ mem2 \in OrderMem
      /\ \A z \in OrderSlots :
            /\ mem2[z].prev = IF z = next THEN prev ELSE mem[z].prev
            /\ mem2[z].next = mem[z].next
            /\ SameOrder(mem2[z], mem[z])
  BY <1>2, <1>4, <1>5, SetPrevOrder
<1>7. PICK mem3 : mem3 = [mem2 EXCEPT ![o] = BlankOrder]
  OBVIOUS
<1>8. mem3 \in OrderMem /\ \A z \in OrderSlots : z # o => mem3[z] = mem2[z]
  <2>1. BlankOrder \in OrderRecords
    BY DEF BlankOrder, OrderRecords, Sides
  <2> QED  BY <1>6, <1>7, <2>1 DEF OrderMem
<1>9. PICK lvl \in LevelRecords : lvl = h.levels[v]
  BY <1>1 DEF LevelMem
<1>10. PICK lvl2 : lvl2 = [lvl EXCEPT !.head = IF prev = Null THEN next ELSE @,
                                      !.tail = IF next = Null THEN prev ELSE @,
                                      !.count = @ - 1]
  OBVIOUS
<1>11. /\ lvl2 \in LevelRecords
       /\ lvl2.head = IF prev = Null THEN next ELSE lvl.head
       /\ lvl2.tail = IF next = Null THEN prev ELSE lvl.tail
       /\ lvl2.total = lvl.total
       /\ lvl2.count = lvl.count - 1
       /\ lvl2.next = lvl.next /\ lvl2.prev = lvl.prev
  <2>1. PICK n \in Int : n = lvl.count - 1
    <3>1. lvl.count \in Int
      BY DEF LevelRecords
    <3> QED  BY <3>1
  <2>2. PICK x \in OrderSlots \cup {Null} : x = IF prev = Null THEN next ELSE lvl.head
    BY <1>2 DEF LevelRecords
  <2>3. PICK y \in OrderSlots \cup {Null} : y = IF next = Null THEN prev ELSE lvl.tail
    BY <1>2 DEF LevelRecords
  <2>4. lvl2 = [lvl EXCEPT !.head = x, !.tail = y, !.count = n]
    BY <1>10, <2>1, <2>2, <2>3
  <2> QED  BY <2>1, <2>2, <2>3, <2>4 DEF LevelRecords
<1>12. g.orders = mem3 /\ g.levels = [h.levels EXCEPT ![v] = lvl2]
       /\ g.pool = h.pool /\ g.book = h.book
       /\ g \in [orders : OrderMem, levels : LevelMem, pool : Pools, book : Books]
  <2>1. g = [h EXCEPT !.orders = mem3,
                      !.levels[v].head = IF prev = Null THEN next ELSE @,
                      !.levels[v].tail = IF next = Null THEN prev ELSE @,
                      !.levels[v].count = @ - 1]
    BY <1>3, <1>4, <1>7 DEF UnlinkOrder
  <2>2. g = [h EXCEPT !.orders = mem3, !.levels = [h.levels EXCEPT ![v] = lvl2]]
    <3>1. PICK x : x = IF prev = Null THEN next ELSE lvl.head
      OBVIOUS
    <3>2. PICK y : y = IF next = Null THEN prev ELSE lvl.tail
      OBVIOUS
    <3>3. PICK n : n = lvl.count - 1
      OBVIOUS
    <3>4. lvl2 = [lvl EXCEPT !.head = x, !.tail = y, !.count = n]
      BY <1>10, <3>1, <3>2, <3>3
    <3>5. g = [h EXCEPT !.orders = mem3, !.levels[v].head = x, !.levels[v].tail = y,
                        !.levels[v].count = n]
      BY <1>1, <1>9, <2>1, <3>1, <3>2, <3>3 DEF LevelMem, Heaps, LevelRecords
    <3>6. [h.levels EXCEPT ![v].head = x, ![v].tail = y, ![v].count = n]
             = [h.levels EXCEPT ![v] = [lvl EXCEPT !.head = x, !.tail = y, !.count = n]]
      BY <1>1, <1>9 DEF LevelMem
    <3>7. g = [h EXCEPT !.orders = mem3,
                  !.levels = [h.levels EXCEPT ![v].head = x, ![v].tail = y, ![v].count = n]]
      BY <3>5 DEF Heaps
    <3> QED  BY <3>4, <3>6, <3>7
  <2>3. [h.levels EXCEPT ![v] = lvl2] \in LevelMem
    BY <1>1, <1>11 DEF LevelMem
  <2> QED  BY <1>1, <1>8, <2>2, <2>3 DEF Heaps
<1>13. g \in Heaps
  BY <1>12 DEF Heaps, OrderMem, LevelMem
<1>14. /\ \A w \in LevelSlots : w # v => g.levels[w] = h.levels[w]
       /\ g.levels[v] = lvl2
  BY <1>1, <1>12 DEF LevelMem
<1>15. SameLinks(h, g)
  BY <1>9, <1>11, <1>12, <1>14 DEF SameLinks
<1>16. LinkedPast(g.orders, h.orders, o)
  <2>1. DOMAIN mem3 = OrderSlots /\ DOMAIN h.orders = OrderSlots
    BY <1>1, <1>8 DEF OrderMem
  <2> QED  BY <1>5, <1>6, <1>8, <1>12, <2>1 DEF LinkedPast
<1>17. ASSUME NEW z \in OrderSlots, z # o PROVE SameOrder(g.orders[z], h.orders[z])
  <2>1. SameOrder(mem2[z], mem[z]) /\ SameOrder(mem[z], h.orders[z]) /\ g.orders[z] = mem2[z]
    BY <1>5, <1>6, <1>8, <1>12, <1>17
  <2> QED  BY <2>1 DEF SameOrder
<1> QED  BY <1>9, <1>11, <1>13, <1>14, <1>15, <1>16, <1>17

(* The level of an order that goes, if that leaves it empty.               *)
Emptied(queue, v) == IF queue = <<>> THEN {v} ELSE {}

(* ... and the queue is the old one without it.                            *)
LEMMA UnlinkOrderKeeps ==
    ASSUME NEW h, NEW L, NEW Q, NEW F, NEW R, Shaped(h, L, Q, F, {}, R),
           NEW s \in Sides, NEW v \in Range(L[s]), NEW o \in Range(Q[v]),
           NEW r, r = Unlink(Q[v], o),
           h.levels[v].total = SharesIn(h.orders, r),
           \A w \in LevelSlots : w # v => h.levels[w].total = SharesIn(h.orders, Q[w]),
           NEW g, g = UnlinkOrder(h, v, o)
    PROVE  /\ Sound(g, L, [Q EXCEPT ![v] = r], F, Emptied(r, v), R \ {o})
           /\ g.levels[v].count = Len(r)
<1>1. /\ h \in Heaps /\ QueuesIn(h, Q) /\ ListsIn(h, L) /\ InUse(L, Q, {})
      /\ FreeIn(h, L, F) /\ HomesIn(h, L, Q) /\ MapsIn(h, L) /\ SortedIn(h, L) /\ R = Queued(Q)
  BY DEF Shaped
<1>2. /\ h.orders \in OrderMem /\ DOMAIN h.orders = OrderSlots
      /\ h.levels \in LevelMem /\ DOMAIN h.levels = LevelSlots
      /\ Shares(h.orders, OrderSlots)
  BY <1>1, HeapParts
<1>3. /\ Q \in [LevelSlots -> Seq(OrderSlots)]
      /\ \A w \in LevelSlots : Chain(h.orders, h.levels[w].head, Q[w])
      /\ \A w \in LevelSlots : h.levels[w].tail = LastOf(Q[w]) /\ h.levels[w].count = Len(Q[w])
      /\ \A w, u \in LevelSlots : Range(Q[w]) \cap Range(Q[u]) # {} => w = u
  BY <1>1 DEF QueuesIn
<1>4. /\ Null \notin OrderSlots /\ Null \notin LevelSlots
  BY Slots
<1>5. v \in LevelSlots /\ \A t \in Sides : Range(L[t]) \subseteq LevelSlots
  <2>1. ASSUME NEW t \in Sides PROVE Range(L[t]) \subseteq LevelSlots
    BY <1>1, <1>2, <1>4, ChainAt DEF ListsIn
  <2> QED  BY <2>1
<1>6. \A w \in LevelSlots : Range(Q[w]) \subseteq OrderSlots
  BY <1>2, <1>3, <1>4, ChainAt
<1>7. o \in OrderSlots /\ \A w \in LevelSlots : w # v => o \notin Range(Q[w])
  BY <1>3, <1>5, <1>6
<1>8. PICK next : next = h.orders[o].next
  OBVIOUS
<1>9. PICK prev : prev = h.orders[o].prev
  OBVIOUS
<1>10. (next = Null \/ next \in Range(Q[v])) /\ (prev = Null \/ prev \in Range(Q[v]))
  <2>1. /\ Len(Q[v]) \in Nat /\ \A i \in 1..Len(Q[v]) : Q[v][i] \in Range(Q[v])
        /\ \A z \in Range(Q[v]) : \E i \in 1..Len(Q[v]) : z = Q[v][i]
    BY <1>2, <1>3, <1>4, <1>5, ChainAt
  <2>2. PICK i \in 1..Len(Q[v]) : o = Q[v][i]
    BY <2>1
  <2>3. /\ next = IF i = Len(Q[v]) THEN Null ELSE Q[v][i + 1]
        /\ prev = IF i = 1 THEN Null ELSE Q[v][i - 1]
    BY <1>3, <1>5, <1>8, <1>9, <2>2 DEF Chain
  <2>4. (i # Len(Q[v]) => i + 1 \in 1..Len(Q[v])) /\ (i # 1 => i - 1 \in 1..Len(Q[v]))
    BY <2>1, <2>2
  <2> QED  BY <2>1, <2>3, <2>4
<1>11. /\ g \in Heaps /\ SameLinks(h, g)
       /\ LinkedPast(g.orders, h.orders, o)
       /\ \A z \in OrderSlots : z # o => SameOrder(g.orders[z], h.orders[z])
       /\ \A w \in LevelSlots : w # v => g.levels[w] = h.levels[w]
       /\ g.levels[v].head = IF prev = Null THEN next ELSE h.levels[v].head
       /\ g.levels[v].tail = IF next = Null THEN prev ELSE h.levels[v].tail
       /\ g.levels[v].total = h.levels[v].total
       /\ g.levels[v].count = h.levels[v].count - 1
  BY <1>1, <1>5, <1>7, <1>8, <1>9, UnlinkOrderIs
<1>12. PICK Q2 : Q2 = [Q EXCEPT ![v] = r]
  OBVIOUS
<1>13. r \in Seq(OrderSlots) /\ Len(r) = Len(Q[v]) - 1 /\ Range(r) = Range(Q[v]) \ {o}
  <2>1. Q[v] \in Seq(OrderSlots) /\ IsInjective(Q[v])
    BY <1>3, <1>5 DEF Chain
  <2> QED  BY <2>1, UnlinkKeeps
<1>14. /\ Q2 \in [LevelSlots -> Seq(OrderSlots)] /\ Q2[v] = r
       /\ \A w \in LevelSlots : w # v => Q2[w] = Q[w]
  BY <1>3, <1>5, <1>12, <1>13
<1>15. \A w \in LevelSlots : Range(Q2[w]) = Range(Q[w]) \ {o}
  <2>1. ASSUME NEW w \in LevelSlots, w # v PROVE Range(Q2[w]) = Range(Q[w]) \ {o}
    BY <1>7, <1>14, <2>1
  <2> QED  BY <1>13, <1>14, <2>1
<1>16. QueuesIn(g, Q2)
  <2>1. /\ Chain(g.orders, g.levels[v].head, r)
        /\ LastOf(r) = IF next = Null THEN prev ELSE LastOf(Q[v])
    <3>1. Chain(h.orders, h.levels[v].head, Q[v])
      BY <1>3, <1>5
    <3>2. /\ Chain(g.orders, IF h.orders[o].prev = Null THEN h.orders[o].next
                             ELSE h.levels[v].head, r)
          /\ LastOf(r) = IF h.orders[o].next = Null THEN h.orders[o].prev ELSE LastOf(Q[v])
      BY <1>2, <1>4, <1>11, <3>1, ChainUnlink
    <3> QED  BY <1>8, <1>9, <1>11, <3>2
  <2>2. ASSUME NEW w \in LevelSlots, w # v PROVE Chain(g.orders, g.levels[w].head, Q[w])
    <3>1. DOMAIN g.orders = DOMAIN h.orders
      BY <1>11 DEF LinkedPast
    <3>2. ASSUME NEW z \in Range(Q[w])
          PROVE  g.orders[z].next = h.orders[z].next /\ g.orders[z].prev = h.orders[z].prev
      <4>1. z \in OrderSlots /\ z # o /\ z # next /\ z # prev
        BY <1>3, <1>4, <1>5, <1>6, <1>7, <1>10, <2>2
      <4> QED  BY <1>2, <1>8, <1>9, <1>11, <4>1 DEF LinkedPast
    <3>3. Chain(h.orders, h.levels[w].head, Q[w]) /\ g.levels[w].head = h.levels[w].head
      BY <1>3, <1>11, <2>2
    <3> QED  BY <3>1, <3>2, <3>3, ChainSame
  <2>3. \A w, u \in LevelSlots : Range(Q2[w]) \cap Range(Q2[u]) # {} => w = u
    <3>1. \A w, u \in LevelSlots :
             Range(Q2[w]) \cap Range(Q2[u]) # {} => Range(Q[w]) \cap Range(Q[u]) # {}
      BY <1>15
    <3> QED  BY <1>3, <3>1
  <2>4. g.levels[v].tail = LastOf(r) /\ g.levels[v].count = Len(r)
    BY <1>3, <1>5, <1>11, <1>13, <2>1
  <2>5. \A w \in LevelSlots : w # v =>
           g.levels[w].tail = LastOf(Q[w]) /\ g.levels[w].count = Len(Q[w])
    BY <1>3, <1>11
  <2>6. \A w \in LevelSlots : Chain(g.orders, g.levels[w].head, Q2[w])
    BY <1>14, <2>1, <2>2
  <2>7. \A w \in LevelSlots : g.levels[w].tail = LastOf(Q2[w]) /\ g.levels[w].count = Len(Q2[w])
    BY <1>14, <2>4, <2>5
  <2> QED  BY <1>14, <2>3, <2>6, <2>7 DEF QueuesIn
<1>17. TotalsIn(g, Q2)
  <2>1. ASSUME NEW w \in LevelSlots PROVE SharesIn(g.orders, Q2[w]) = SharesIn(h.orders, Q2[w])
    <3>1. \A x \in Range(Q2[w]) : g.orders[x].shares = h.orders[x].shares
      <4>1. \A x \in Range(Q2[w]) : x \in OrderSlots /\ x # o
        BY <1>6, <1>15
      <4> QED  BY <1>11, <4>1 DEF SameOrder
    <3> QED  BY <3>1, SharesSame
  <2>2. g.levels[v].total = SharesIn(g.orders, Q2[v])
    BY <1>5, <1>11, <1>14, <2>1
  <2>3. ASSUME NEW w \in LevelSlots, w # v PROVE g.levels[w].total = SharesIn(g.orders, Q2[w])
    BY <1>11, <1>14, <2>1, <2>3
  <2> QED  BY <2>2, <2>3 DEF TotalsIn
<1>18. ListsIn(g, L)
  <2>1. DOMAIN g.levels = DOMAIN h.levels
    BY <1>2, <1>11, HeapParts
  <2>2. ASSUME NEW t \in Sides PROVE Chain(g.levels, g.book.best[t], L[t])
    <3>1. Chain(h.levels, h.book.best[t], L[t]) /\ g.book = h.book
      BY <1>1, <1>11 DEF ListsIn, SameLinks
    <3>2. \A z \in Range(L[t]) : /\ g.levels[z].next = h.levels[z].next
                                 /\ g.levels[z].prev = h.levels[z].prev
      BY <1>5, <1>11 DEF SameLinks
    <3> QED  BY <2>1, <3>1, <3>2, ChainSame
  <2> QED  BY <1>1, <1>11, <2>2 DEF ListsIn, SameLinks
<1>19. InUse(L, Q2, Emptied(r, v))
  <2>1. v \in Listed(L)
    BY DEF Listed
  <2>2. \A w \in LevelSlots : w \in Listed(L) <=> Q[w] # <<>>
    BY <1>1 DEF InUse
  <2> QED  BY <1>14, <2>1, <2>2 DEF InUse, Emptied
<1>20. FreeIn(g, L, F) /\ MapsIn(g, L) /\ SortedIn(g, L)
  <2>1. g.book = h.book /\ g.pool = h.pool
    BY <1>11 DEF SameLinks
  <2>2. FreeIn(g, L, F)
    BY <1>1, <2>1 DEF FreeIn
  <2>3. MapsIn(g, L)
    BY <1>1, <2>1 DEF MapsIn
  <2>4. SortedIn(g, L)
    BY <1>1, <2>1 DEF SortedIn
  <2> QED  BY <2>2, <2>3, <2>4
<1>21. HomesIn(g, L, Q2)
  <2>1. ASSUME NEW t \in Sides, NEW w \in Range(L[t]), NEW x \in Range(Q2[w])
        PROVE  g.orders[x].side = t /\ g.orders[x].price = g.pool.word[w]
    <3>1. w \in LevelSlots /\ x \in OrderSlots /\ x \in Range(Q[w]) /\ x # o
      BY <1>5, <1>6, <1>15
    <3>2. h.orders[x].side = t /\ h.orders[x].price = h.pool.word[w]
      BY <1>1, <3>1 DEF HomesIn
    <3> QED  BY <1>11, <3>1, <3>2 DEF SameOrder, SameLinks
  <2> QED  BY <2>1 DEF HomesIn
<1>22. R \ {o} = Queued(Q2)
  BY <1>1, <1>15 DEF Queued
<1>23. Sound(g, L, Q2, F, Emptied(r, v), R \ {o})
  BY <1>11, <1>16, <1>17, <1>18, <1>19, <1>20, <1>21, <1>22 DEF Sound, Shaped
<1>24. g.levels[v].count = Len(r)
  BY <1>3, <1>5, <1>11, <1>13
<1> QED  BY <1>12, <1>23, <1>24

-----------------------------------------------------------------------------
(* Opening a level, write by write.                                        *)

(* acquire and reset: level v, for price p, that is in no list yet.        *)
Fresh(h, v, p) ==
    [h EXCEPT !.pool = Construct(Acquire(@), v, p), !.levels[v] = BlankLevel]

FreshIn(h, g, v, p) ==
    /\ g \in Heaps /\ g.orders = h.orders /\ g.book = h.book
    /\ g.levels[v] = BlankLevel
    /\ \A w \in LevelSlots : w # v => g.levels[w] = h.levels[w]
    /\ g.pool.head = h.pool.word[v]
    /\ g.pool.word[v] = p
    /\ \A w \in LevelSlots : w # v => g.pool.word[w] = h.pool.word[w]

(* acquire takes the head of the free list, and reset blanks what it was.  *)
LEMMA FreshIs ==
    ASSUME NEW h \in Heaps, NEW v \in LevelSlots, v = h.pool.head, NEW p \in Prices,
           h.pool.word[v] \in LevelSlots \cup {Null},
           NEW g, g = Fresh(h, v, p)
    PROVE  FreshIn(h, g, v, p)
<1>1. /\ h.orders \in OrderMem /\ h.levels \in LevelMem
      /\ h.pool \in Pools /\ h.book \in Books
  BY HeapParts
<1>2. p \in Nat
  BY ValuesAreNat
<1>3. BlankLevel \in LevelRecords
  BY DEF BlankLevel, LevelRecords
<1>4. PICK q : q = Construct(Acquire(h.pool), v, p)
  OBVIOUS
<1>5. /\ q.head = h.pool.word[v] /\ q.word = [h.pool.word EXCEPT ![v] = p]
      /\ q \in Pools
  <2>1. PICK w : w = h.pool.word
    OBVIOUS
  <2>2. w \in [LevelSlots -> Nat \cup {Null}] /\ h.pool = [head |-> v, word |-> w]
    BY <1>1, <2>1 DEF Pools
  <2>3. Acquire(h.pool) = [head |-> w[v], word |-> w]
    BY <2>1, <2>2 DEF Acquire
  <2>4. q = [head |-> w[v], word |-> [w EXCEPT ![v] = p]]
    BY <1>4, <2>3 DEF Construct
  <2>5. [w EXCEPT ![v] = p] \in [LevelSlots -> Nat \cup {Null}]
    BY <1>2, <2>2
  <2> QED  BY <2>1, <2>4, <2>5 DEF Pools
<1>6. PICK lv : lv = [h.levels EXCEPT ![v] = BlankLevel]
  OBVIOUS
<1>7. /\ lv \in LevelMem /\ lv[v] = BlankLevel
      /\ \A w \in LevelSlots : w # v => lv[w] = h.levels[w]
  BY <1>1, <1>3, <1>6 DEF LevelMem
<1>8. g = [h EXCEPT !.pool = q, !.levels = lv]
  BY <1>4, <1>6 DEF Fresh
<1>9. /\ g.orders = h.orders /\ g.levels = lv /\ g.pool = q /\ g.book = h.book
      /\ g \in [orders : OrderMem, levels : LevelMem, pool : Pools, book : Books]
  BY <1>1, <1>5, <1>7, <1>8 DEF Heaps
<1>10. g \in Heaps
  BY <1>9 DEF Heaps, OrderMem, LevelMem
<1>11. g.pool.word[v] = p /\ \A w \in LevelSlots : w # v => g.pool.word[w] = h.pool.word[w]
  BY <1>1, <1>5, <1>9 DEF Pools
<1>12. g.pool.head = h.pool.word[v]
  BY <1>5, <1>9
<1> QED  BY <1>7, <1>9, <1>10, <1>11, <1>12 DEF FreshIn

(* insert_level_sorted writes it in between a and b.                       *)
InsertedIn(h, g, s, a, v, b) ==
    /\ g \in Heaps /\ g.orders = h.orders /\ g.pool = h.pool
    /\ LinkedIn(g.levels, h.levels, a, v, b)
    /\ \A w \in LevelSlots : SameLevel(g.levels[w], h.levels[w])
    /\ g.book.best = [h.book.best EXCEPT ![s] = IF a = Null THEN v ELSE @]
    /\ g.book.map = h.book.map
    /\ g.book.nLevels = h.book.nLevels /\ g.book.nOrders = h.book.nOrders

(* insert_level_sorted links it in behind the levels that come before it.  *)
LEMMA LevelInserted ==
    ASSUME NEW h \in Heaps, NEW s \in Sides, NEW v \in LevelSlots,
           NEW list, list = LevelList(h, s),
           NEW n, n = LeadingRun(list, Better(h, s, h.pool.word[v])),
           NEW a, NEW b, Between(list, n, a, b), a # v, b # v,
           a \in LevelSlots \cup {Null}, b \in LevelSlots \cup {Null},
           NEW g, g = InsertLevelSorted(h, s, v)
    PROVE  InsertedIn(h, g, s, a, v, b)
<1>1. /\ h.orders \in OrderMem /\ h.levels \in LevelMem
      /\ h.pool \in Pools /\ h.book \in Books
  BY HeapParts
<1>2. PICK lvl \in LevelRecords : lvl = h.levels[v]
  BY <1>1 DEF LevelMem
<1>3. PICK mem : mem = [h.levels EXCEPT ![v].prev = a, ![v].next = b]
  OBVIOUS
<1>4. /\ mem \in LevelMem
      /\ \A z \in LevelSlots : z # v => mem[z] = h.levels[z]
      /\ mem[v] = [lvl EXCEPT !.prev = a, !.next = b]
  <2>1. mem = [h.levels EXCEPT ![v] = [lvl EXCEPT !.prev = a, !.next = b]]
    BY <1>1, <1>2, <1>3 DEF LevelMem
  <2>2. [lvl EXCEPT !.prev = a, !.next = b] \in LevelRecords
    BY DEF LevelRecords
  <2> QED  BY <1>1, <2>1, <2>2 DEF LevelMem
<1>5. mem[v].next = b /\ mem[v].prev = a /\ SameLevel(mem[v], h.levels[v])
  BY <1>2, <1>4 DEF LevelRecords, SameLevel
<1>6. PICK mem2 : mem2 = SetNext(mem, a, v)
  OBVIOUS
<1>7. /\ mem2 \in LevelMem
      /\ \A z \in LevelSlots :
            /\ mem2[z].next = IF z = a THEN v ELSE mem[z].next
            /\ mem2[z].prev = mem[z].prev
            /\ SameLevel(mem2[z], mem[z])
  BY <1>4, <1>6, SetNextLevel
<1>8. PICK mem3 : mem3 = SetPrev(mem2, b, v)
  OBVIOUS
<1>9. /\ mem3 \in LevelMem
      /\ \A z \in LevelSlots :
            /\ mem3[z].prev = IF z = b THEN v ELSE mem2[z].prev
            /\ mem3[z].next = mem2[z].next
            /\ SameLevel(mem3[z], mem2[z])
  BY <1>7, <1>8, SetPrevLevel
<1>10. PICK best : best = [h.book.best EXCEPT ![s] = IF a = Null THEN v ELSE @]
  OBVIOUS
<1>11. best \in [Sides -> LevelSlots \cup {Null}]
  BY <1>1, <1>10 DEF Books
<1>12. PICK bk : bk = [h.book EXCEPT !.best = best]
  OBVIOUS
<1>13. /\ bk \in Books /\ bk.best = best
       /\ bk.map = h.book.map /\ bk.nLevels = h.book.nLevels /\ bk.nOrders = h.book.nOrders
  BY <1>1, <1>11, <1>12 DEF Books
<1>14. g = [h EXCEPT !.levels = mem3, !.book = bk]
  <2>1. a = (IF n = 0 THEN Null ELSE list[n]) /\ b = (IF n = Len(list) THEN Null ELSE list[n + 1])
    BY DEF Between
  <2>2. g = [h EXCEPT !.levels = SetPrev(SetNext([@ EXCEPT ![v].prev = a, ![v].next = b],
                                                 a, v), b, v),
                      !.book.best[s] = IF a = Null THEN v ELSE @]
    BY <2>1 DEF InsertLevelSorted
  <2>3. g = [h EXCEPT !.levels = mem3, !.book.best[s] = IF a = Null THEN v ELSE @]
    BY <1>3, <1>6, <1>8, <2>2
  <2>4. g = [h EXCEPT !.levels = mem3, !.book.best = best]
    BY <1>10, <2>3
  <2> QED  BY <1>12, <2>4
<1>15. /\ g.orders = h.orders /\ g.levels = mem3 /\ g.pool = h.pool /\ g.book = bk
       /\ g \in [orders : OrderMem, levels : LevelMem, pool : Pools, book : Books]
  BY <1>1, <1>9, <1>13, <1>14 DEF Heaps
<1>16. g \in Heaps
  BY <1>15 DEF Heaps, OrderMem, LevelMem
<1>17. LinkedIn(g.levels, h.levels, a, v, b)
  <2>1. DOMAIN mem3 = LevelSlots /\ DOMAIN h.levels = LevelSlots
    BY <1>1, <1>9 DEF LevelMem
  <2>2. \A z \in LevelSlots : /\ mem3[z].next = IF z = a THEN v ELSE mem[z].next
                              /\ mem3[z].prev = IF z = b THEN v ELSE mem[z].prev
    BY <1>7, <1>9
  <2> QED  BY <1>4, <1>5, <1>15, <2>1, <2>2 DEF LinkedIn
<1>18. ASSUME NEW w \in LevelSlots PROVE SameLevel(g.levels[w], h.levels[w])
  <2>1. SameLevel(mem3[w], mem2[w]) /\ SameLevel(mem2[w], mem[w]) /\ g.levels[w] = mem3[w]
    BY <1>7, <1>9, <1>15
  <2>2. SameLevel(mem[w], h.levels[w])
    <3>1. CASE w = v
      BY <1>5, <3>1
    <3>2. CASE w # v
      BY <1>4, <3>2 DEF SameLevel
    <3> QED  BY <3>1, <3>2
  <2> QED  BY <2>1, <2>2 DEF SameLevel
<1> QED  BY <1>10, <1>13, <1>15, <1>16, <1>17, <1>18 DEF InsertedIn

(* The map of a side has room for another price.                           *)
RoomIn(map) == Cardinality({k \in Prices : map[k] # Null}) < MapCapacity

(* The map learns of the level at its price.                               *)
MappedIn(h, g, s, p, v) ==
    /\ g \in Heaps
    /\ g.orders = h.orders /\ g.levels = h.levels /\ g.pool = h.pool
    /\ g.book.best = h.book.best /\ g.book.nOrders = h.book.nOrders
    /\ g.book.map[s][p] = v
    /\ \A t \in Sides, k \in Prices : t # s \/ k # p =>
          g.book.map[t][k] = h.book.map[t][k]
    /\ g.book.nLevels[s] = h.book.nLevels[s] + 1
    /\ \A t \in Sides : t # s => g.book.nLevels[t] = h.book.nLevels[t]

(* insert_level_into_map finds room for it.                                *)
LEMMA LevelMapped ==
    ASSUME NEW h \in Heaps, NEW s \in Sides, NEW v \in LevelSlots,
           NEW p \in Prices, p = h.pool.word[v], RoomIn(h.book.map[s]),
           NEW g, g = InsertLevelIntoMap(h, s, v)
    PROVE  MappedIn(h, g, s, p, v)
<1>1. /\ h.orders \in OrderMem /\ h.levels \in LevelMem
      /\ h.pool \in Pools /\ h.book \in Books
  BY HeapParts
<1>2. PICK map \in [Prices -> LevelSlots \cup {Null}] : map = h.book.map[s]
  BY <1>1 DEF Books
<1>3. MapInsert(map, p, v) = [map EXCEPT ![p] = v]
  BY <1>2 DEF MapInsert, RoomIn
<1>4. PICK m2 : m2 = [map EXCEPT ![p] = v]
  OBVIOUS
<1>5. m2 \in [Prices -> LevelSlots \cup {Null}] /\ m2[p] = v /\ \A k \in Prices : k # p => m2[k] = map[k]
  BY <1>4
<1>6. PICK k2 : k2 = h.book.nLevels[s] + 1
  OBVIOUS
<1>7. k2 \in Int
  BY <1>1, <1>6 DEF Books
<1>8. PICK maps : maps = [h.book.map EXCEPT ![s] = m2]
  OBVIOUS
<1>9. PICK counts : counts = [h.book.nLevels EXCEPT ![s] = k2]
  OBVIOUS
<1>10. /\ maps \in [Sides -> [Prices -> LevelSlots \cup {Null}]] /\ maps[s] = m2
       /\ \A t \in Sides : t # s => maps[t] = h.book.map[t]
       /\ counts \in [Sides -> Int] /\ counts[s] = k2
       /\ \A t \in Sides : t # s => counts[t] = h.book.nLevels[t]
  BY <1>1, <1>5, <1>7, <1>8, <1>9 DEF Books
<1>11. PICK bk : bk = [h.book EXCEPT !.map = maps, !.nLevels = counts]
  OBVIOUS
<1>12. /\ bk \in Books /\ bk.best = h.book.best /\ bk.nOrders = h.book.nOrders
       /\ bk.map = maps /\ bk.nLevels = counts
  BY <1>1, <1>10, <1>11 DEF Books
<1>13. g = [h EXCEPT !.book = bk]
  <2>1. g = [h EXCEPT !.book.map[s] = MapInsert(map, p, v), !.book.nLevels[s] = k2]
    BY <1>1, <1>2, <1>6 DEF InsertLevelIntoMap, Heaps, Books
  <2>2. g = [h EXCEPT !.book.map[s] = m2, !.book.nLevels[s] = k2]
    BY <1>3, <1>4, <2>1
  <2>3. g = [h EXCEPT !.book.map = maps, !.book.nLevels = counts]
    BY <1>1, <1>8, <1>9, <2>2 DEF Heaps, Books
  <2> QED  BY <1>1, <1>11, <2>3 DEF Heaps, Books
<1>14. /\ g.orders = h.orders /\ g.levels = h.levels /\ g.pool = h.pool /\ g.book = bk
       /\ g \in Heaps
  BY <1>12, <1>13 DEF Heaps
<1> QED  BY <1>2, <1>5, <1>6, <1>10, <1>12, <1>14 DEF MappedIn

-----------------------------------------------------------------------------
(* Opening a level, list by list.                                          *)

(* What a path is made of.                                                 *)
LEMMA PathAt ==
    ASSUME NEW link, NEW x, NEW seq, Path(link, x, seq)
    PROVE  /\ Len(seq) \in Nat /\ DOMAIN seq = 1..Len(seq)
           /\ \A i \in 1..Len(seq) : seq[i] \in DOMAIN link /\ seq[i] \in Range(seq)
           /\ \A i, j \in 1..Len(seq) : seq[i] = seq[j] => i = j
<1>1. Len(seq) \in Nat /\ DOMAIN seq = 1..Len(seq)
  BY LenProperties DEF Path
<1>2. \A i \in 1..Len(seq) : seq[i] \in DOMAIN link
  BY ElementOfSeq DEF Path
<1>3. \A i, j \in 1..Len(seq) : seq[i] = seq[j] => i = j
  BY <1>1 DEF Path, IsInjective
<1> QED  BY <1>1, <1>2, <1>3 DEF Range

(* The free list gives its first slot ...                                  *)
LEMMA PathTail ==
    ASSUME NEW link, Null \notin DOMAIN link, NEW x, NEW seq, Path(link, x, seq), x # Null,
           NEW link2, DOMAIN link2 = DOMAIN link,
           \A z \in DOMAIN link : z # x => link2[z] = link[z]
    PROVE  /\ x \in Range(seq) /\ x \in DOMAIN link
           /\ link[x] \in DOMAIN link \cup {Null}
           /\ \E rest : Path(link2, link[x], rest) /\ Range(rest) = Range(seq) \ {x}
<1> DEFINE D == DOMAIN link
<1>1. PICK n : n = Len(seq)
  OBVIOUS
<1>2. /\ seq \in Seq(D) /\ n \in Nat /\ DOMAIN seq = 1..n
      /\ \A i \in 1..n : seq[i] \in D
      /\ \A i, j \in 1..n : seq[i] = seq[j] => i = j
      /\ \A i \in 1..n : link[seq[i]] = IF i = n THEN Null ELSE seq[i + 1]
  BY <1>1, PathAt DEF Path
<1>3. seq # <<>> /\ x = seq[1]
  BY DEF Path
<1>4. 1 \in 1..n /\ n - 1 \in Nat
  <2>1. n # 0
    BY <1>1, <1>2, <1>3, EmptySeq
  <2> QED  BY <1>2, <2>1
<1>5. PICK r : r = [i \in 1..(n - 1) |-> seq[i + 1]]
  OBVIOUS
<1>6. \A i \in 1..(n - 1) : i + 1 \in 1..n /\ i + 1 # 1 /\ r[i] = seq[i + 1]
  BY <1>2, <1>4, <1>5
<1>7. r \in Seq(D) /\ Len(r) = n - 1 /\ DOMAIN r = 1..(n - 1)
  <2>1. r \in [1..(n - 1) -> D]
    BY <1>2, <1>5, <1>6
  <2> QED  BY <1>4, <1>5, <2>1, SeqOfLen
<1>8. r = <<>> <=> n = 1
  BY <1>2, <1>4, <1>7, EmptySeq
<1>9. link[x] = IF r = <<>> THEN Null ELSE r[1]
  <2>1. n # 1 => 1 \in 1..(n - 1) /\ 1 + 1 = 2
    BY <1>2, <1>4
  <2>2. link[x] = IF 1 = n THEN Null ELSE seq[1 + 1]
    BY <1>2, <1>3, <1>4
  <2>3. n # 1 => r[1] = seq[1 + 1]
    BY <1>6, <2>1
  <2> QED  BY <1>8, <2>2, <2>3
<1>10. IsInjective(r)
  <2>1. ASSUME NEW i \in 1..(n - 1), NEW j \in 1..(n - 1), r[i] = r[j] PROVE i = j
    <3>1. i + 1 = j + 1
      BY <1>2, <1>6, <2>1
    <3> QED  BY <1>4, <3>1
  <2> QED  BY <1>7, <2>1 DEF IsInjective
<1>11. ASSUME NEW i \in 1..(n - 1) PROVE link2[r[i]] = IF i = n - 1 THEN Null ELSE r[i + 1]
  <2>1. link2[r[i]] = link[seq[i + 1]]
    BY <1>2, <1>3, <1>4, <1>6
  <2>2. link[seq[i + 1]] = IF i + 1 = n THEN Null ELSE seq[(i + 1) + 1]
    BY <1>2, <1>6
  <2>3. (i + 1 = n <=> i = n - 1) /\ (i # n - 1 => i + 1 \in 1..(n - 1))
    BY <1>2, <1>4
  <2>4. i # n - 1 => r[i + 1] = seq[(i + 1) + 1]
    BY <1>6, <2>3
  <2> QED  BY <2>1, <2>2, <2>3, <2>4
<1>12. Path(link2, link[x], r)
  BY <1>7, <1>9, <1>10, <1>11 DEF Path
<1>13. Range(r) = Range(seq) \ {x}
  <2>1. ASSUME NEW z \in Range(r) PROVE z \in Range(seq) \ {x}
    <3>1. PICK i \in 1..(n - 1) : z = r[i]
      BY <1>7 DEF Range
    <3>2. z = seq[i + 1] /\ i + 1 \in 1..n /\ i + 1 # 1
      BY <1>6, <3>1
    <3> QED  BY <1>2, <1>3, <1>4, <3>2 DEF Range
  <2>2. ASSUME NEW z \in Range(seq), z # x PROVE z \in Range(r)
    <3>1. PICK k \in 1..n : z = seq[k]
      BY <1>2 DEF Range
    <3>2. PICK i \in 1..(n - 1) : k = i + 1
      <4>1. k # 1
        BY <1>3, <2>2, <3>1
      <4>2. k - 1 \in 1..(n - 1) /\ k = (k - 1) + 1
        BY <1>2, <4>1
      <4> QED  BY <4>2
    <3>3. z = r[i]
      BY <1>6, <3>1, <3>2
    <3> QED  BY <1>7, <3>3 DEF Range
  <2> QED  BY <2>1, <2>2
<1>14. x \in Range(seq) /\ x \in D
  BY <1>2, <1>3, <1>4 DEF Range
<1>15. link[x] \in D \cup {Null}
  <2>1. r # <<>> => 1 \in 1..(n - 1) /\ r[1] \in D
    <3>1. r # <<>> => 1 \in 1..(n - 1)
      BY <1>2, <1>4, <1>8
    <3> QED  BY <1>2, <1>6, <3>1
  <2> QED  BY <1>9, <2>1
<1> QED  BY <1>12, <1>13, <1>14, <1>15

(* ... and takes one back in front.                                        *)
LEMMA PathCons ==
    ASSUME NEW link, Null \notin DOMAIN link, NEW x, NEW seq, Path(link, x, seq),
           NEW v \in DOMAIN link, v \notin Range(seq),
           NEW link2, DOMAIN link2 = DOMAIN link, link2[v] = x,
           \A z \in DOMAIN link : z # v => link2[z] = link[z]
    PROVE  \E more : Path(link2, v, more) /\ Range(more) = Range(seq) \cup {v}
<1> DEFINE D == DOMAIN link
<1>1. PICK n : n = Len(seq)
  OBVIOUS
<1>2. /\ seq \in Seq(D) /\ n \in Nat /\ DOMAIN seq = 1..n
      /\ \A i \in 1..n : seq[i] \in D /\ seq[i] \in Range(seq)
      /\ \A i, j \in 1..n : seq[i] = seq[j] => i = j
      /\ \A i \in 1..n : link[seq[i]] = IF i = n THEN Null ELSE seq[i + 1]
  BY <1>1, PathAt DEF Path
<1>3. PICK r : r = [i \in 1..(n + 1) |-> IF i = 1 THEN v ELSE seq[i - 1]]
  OBVIOUS
<1>4. 1 \in 1..(n + 1) /\ r[1] = v /\ n + 1 \in Nat
  <2>1. 1 \in 1..(n + 1) /\ n + 1 \in Nat
    BY <1>2
  <2> QED  BY <1>3, <2>1
<1>5. \A i \in 1..n : i + 1 \in 1..(n + 1) /\ i + 1 # 1 /\ r[i + 1] = seq[i]
  <2>1. ASSUME NEW i \in 1..n PROVE i + 1 \in 1..(n + 1) /\ i + 1 # 1 /\ r[i + 1] = seq[i]
    <3>1. i + 1 \in 1..(n + 1) /\ i + 1 # 1 /\ (i + 1) - 1 = i
      BY <1>2
    <3> QED  BY <1>3, <3>1
  <2> QED  BY <2>1
<1>6. \A k \in 1..(n + 1) : k = 1 \/ \E i \in 1..n : k = i + 1
  <2>1. ASSUME NEW k \in 1..(n + 1), k # 1 PROVE \E i \in 1..n : k = i + 1
    <3>1. k - 1 \in 1..n /\ k = (k - 1) + 1
      BY <1>2, <2>1
    <3> QED  BY <3>1
  <2> QED  BY <2>1
<1>7. r \in Seq(D) /\ Len(r) = n + 1 /\ DOMAIN r = 1..(n + 1)
  <2>1. ASSUME NEW k \in 1..(n + 1) PROVE r[k] \in D
    <3>1. CASE k = 1
      BY <1>4, <3>1
    <3>2. CASE k # 1
      <4>1. PICK i \in 1..n : k = i + 1
        BY <1>6, <3>2
      <4> QED  BY <1>2, <1>5, <4>1
    <3> QED  BY <3>1, <3>2
  <2>2. r \in [1..(n + 1) -> D]
    BY <1>3, <2>1
  <2> QED  BY <1>3, <1>4, <2>2, SeqOfLen
<1>8. r # <<>>
  BY <1>4, <1>7
<1>9. IsInjective(r)
  <2>1. ASSUME NEW k \in 1..(n + 1), NEW m \in 1..(n + 1), r[k] = r[m] PROVE k = m
    <3>1. \A i \in 1..n : r[i + 1] # r[1]
      <4>1. \A i \in 1..n : seq[i] # v
        BY <1>2
      <4> QED  BY <1>4, <1>5, <4>1
    <3>2. CASE k = 1
      BY <1>6, <2>1, <3>1, <3>2
    <3>3. CASE m = 1
      BY <1>6, <2>1, <3>1, <3>3
    <3>4. CASE k # 1 /\ m # 1
      <4>1. PICK i \in 1..n : k = i + 1
        BY <1>6, <3>4
      <4>2. PICK j \in 1..n : m = j + 1
        BY <1>6, <3>4
      <4>3. seq[i] = seq[j]
        BY <1>5, <2>1, <4>1, <4>2
      <4> QED  BY <1>2, <4>1, <4>2, <4>3
    <3> QED  BY <3>2, <3>3, <3>4
  <2> QED  BY <1>7, <2>1 DEF IsInjective
<1>10. ASSUME NEW k \in 1..(n + 1) PROVE link2[r[k]] = IF k = n + 1 THEN Null ELSE r[k + 1]
  <2>1. CASE k = 1
    <3>1. link2[r[k]] = IF seq = <<>> THEN Null ELSE seq[1]
      BY <1>4, <2>1 DEF Path
    <3>2. (seq = <<>> <=> n = 0) /\ (k = n + 1 <=> n = 0)
      BY <1>1, <1>2, <2>1, EmptySeq
    <3>3. n # 0 => 1 \in 1..n
      BY <1>2
    <3>4. n # 0 => r[k + 1] = seq[1]
      BY <1>5, <2>1, <3>3
    <3> QED  BY <3>1, <3>2, <3>4
  <2>2. CASE k # 1
    <3>1. PICK i \in 1..n : k = i + 1
      BY <1>6, <2>2
    <3>2. r[k] = seq[i] /\ seq[i] # v /\ seq[i] \in D
      BY <1>2, <1>5, <3>1
    <3>3. link2[r[k]] = IF i = n THEN Null ELSE seq[i + 1]
      BY <1>2, <3>2
    <3>4. (k = n + 1 <=> i = n) /\ (i # n => i + 1 \in 1..n)
      BY <1>2, <3>1
    <3>5. i # n => r[k + 1] = seq[i + 1]
      BY <1>5, <3>1, <3>4
    <3> QED  BY <3>3, <3>4, <3>5
  <2> QED  BY <2>1, <2>2
<1>11. Path(link2, v, r)
  BY <1>4, <1>7, <1>8, <1>9, <1>10 DEF Path
<1>12. Range(r) = Range(seq) \cup {v}
  <2>1. ASSUME NEW z \in Range(r) PROVE z \in Range(seq) \cup {v}
    <3>1. PICK k \in 1..(n + 1) : z = r[k]
      BY <1>7 DEF Range
    <3>2. CASE k = 1
      BY <1>4, <3>1, <3>2
    <3>3. CASE k # 1
      <4>1. PICK i \in 1..n : k = i + 1
        BY <1>6, <3>3
      <4> QED  BY <1>2, <1>5, <3>1, <4>1
    <3> QED  BY <3>2, <3>3
  <2>2. ASSUME NEW z \in Range(seq) PROVE z \in Range(r)
    <3>1. PICK i \in 1..n : z = seq[i]
      BY <1>2 DEF Range
    <3>2. z = r[i + 1] /\ i + 1 \in DOMAIN r
      BY <1>5, <1>7, <3>1
    <3> QED  BY <3>2 DEF Range
  <2>3. v \in Range(r)
    BY <1>4, <1>7 DEF Range
  <2> QED  BY <2>1, <2>2, <2>3
<1> QED  BY <1>11, <1>12

(* The elements of seq come in the order of their prices px on side s.     *)
SortedBy(seq, px, s) == \A i, j \in DOMAIN seq : i < j => Before(s, px[seq[i]], px[seq[j]])

(* S holds what comes before price p, and nothing has that price itself.   *)
Splits(S, seq, px, s, p) ==
    \A w \in Range(seq) : (w \in S <=> Before(s, px[w], p)) /\ px[w] # p

(* The walk of insert_level_sorted stops where the new level belongs.      *)
LEMMA InsertSorted ==
    ASSUME NEW T, NEW seq \in Seq(T), NEW px \in [T -> Nat], NEW s \in Sides, NEW e \in T,
           NEW S, Splits(S, seq, px, s, px[e]), SortedBy(seq, px, s),
           NEW r, r = InsertAfterRun(seq, S, e)
    PROVE  SortedBy(r, px, s)
<1>1. PICK n : n = LeadingRun(seq, S)
  OBVIOUS
<1>2. PICK m : m = Len(seq)
  OBVIOUS
<1>3. /\ r \in Seq(T) /\ Len(r) = m + 1
      /\ \A i \in 1..(m + 1) :
            r[i] = IF i <= n THEN seq[i] ELSE IF i = n + 1 THEN e ELSE seq[i - 1]
  BY <1>1, <1>2, InsertIs
<1>4. /\ n \in 0..m
      /\ \A i \in 1..n : seq[i] \in S
      /\ n < m => seq[n + 1] \notin S
  BY <1>1, <1>2, LeadingRunIs
<1>5. m \in Nat /\ DOMAIN seq = 1..m /\ DOMAIN r = 1..(m + 1)
  BY <1>2, <1>3, LenProperties
<1>6. \A i \in 1..m : seq[i] \in Range(seq) /\ seq[i] \in T /\ px[seq[i]] \in Nat
  BY <1>2, <1>5, ElementOfSeq DEF Range
<1>7. PICK p \in Nat : p = px[e]
  OBVIOUS
<1>8. ASSUME NEW i \in 1..n PROVE i \in 1..m /\ Before(s, px[seq[i]], p)
  <2>1. i \in 1..m /\ seq[i] \in S
    BY <1>4, <1>5
  <2> QED  BY <1>6, <1>7, <2>1 DEF Splits
<1>9. ASSUME NEW i \in 1..m, i > n PROVE Before(s, p, px[seq[i]])
  <2>1. n + 1 \in 1..m /\ seq[n + 1] \notin S
    <3>1. n < m /\ n + 1 \in 1..m
      BY <1>4, <1>5, <1>9
    <3> QED  BY <1>4, <3>1
  <2>2. Before(s, p, px[seq[n + 1]])
    <3>1. ~Before(s, px[seq[n + 1]], p) /\ px[seq[n + 1]] # p /\ px[seq[n + 1]] \in Nat
      BY <1>6, <1>7, <2>1 DEF Splits
    <3> QED  BY <3>1 DEF Before
  <2>3. CASE i = n + 1
    BY <2>2, <2>3
  <2>4. CASE i # n + 1
    <3>1. n + 1 < i
      BY <1>4, <1>5, <1>9, <2>4
    <3>2. Before(s, px[seq[n + 1]], px[seq[i]])
      BY <1>5, <2>1, <3>1 DEF SortedBy
    <3>3. px[seq[n + 1]] \in Nat /\ px[seq[i]] \in Nat
      BY <1>6, <2>1
    <3> QED  BY <2>2, <3>2, <3>3 DEF Before
  <2> QED  BY <2>3, <2>4
<1>10. r[n + 1] = e
  <2>1. n + 1 \in 1..(m + 1) /\ ~(n + 1 <= n)
    BY <1>4, <1>5
  <2> QED  BY <1>3, <2>1
<1>11. ASSUME NEW k \in 1..(m + 1), k <= n PROVE k \in 1..n /\ k \in 1..m /\ r[k] = seq[k]
  <2>1. k \in 1..n /\ k \in 1..m
    BY <1>4, <1>5, <1>11
  <2>2. r[k] = IF k <= n THEN seq[k] ELSE IF k = n + 1 THEN e ELSE seq[k - 1]
    BY <1>3
  <2> QED  BY <1>11, <2>1, <2>2
<1>12. ASSUME NEW k \in 1..(m + 1), k > n + 1
       PROVE  k - 1 \in 1..m /\ k - 1 > n /\ r[k] = seq[k - 1]
  <2>1. k - 1 \in 1..m /\ k - 1 > n /\ ~(k <= n) /\ k # n + 1
    BY <1>4, <1>5, <1>12
  <2> QED  BY <1>3, <2>1
<1>13. ASSUME NEW i \in 1..(m + 1), NEW j \in 1..(m + 1), i < j
       PROVE  Before(s, px[r[i]], px[r[j]])
  <2>1. CASE j <= n
    <3>1. i <= n
      BY <1>4, <1>5, <1>13, <2>1
    <3> QED  BY <1>5, <1>11, <1>13, <2>1, <3>1 DEF SortedBy
  <2>2. CASE i <= n /\ j = n + 1
    BY <1>7, <1>8, <1>10, <1>11, <2>2
  <2>3. CASE i <= n /\ j > n + 1
    <3>1. i < j - 1
      BY <1>4, <1>5, <2>3
    <3> QED  BY <1>5, <1>11, <1>12, <2>3, <3>1 DEF SortedBy
  <2>4. CASE i = n + 1
    <3>1. j > n + 1
      BY <1>13, <2>4
    <3> QED  BY <1>7, <1>9, <1>10, <1>12, <2>4, <3>1
  <2>5. CASE i > n + 1
    <3>1. j > n + 1 /\ i - 1 < j - 1
      BY <1>4, <1>5, <1>13, <2>5
    <3> QED  BY <1>5, <1>12, <2>5, <3>1, SMTT(60) DEF SortedBy
  <2> QED  BY <1>4, <1>5, <1>13, <2>1, <2>2, <2>3, <2>4, <2>5
<1> QED  BY <1>5, <1>13 DEF SortedBy

(* The lists and the free levels of a sound heap.                          *)
LEMMA ListParts ==
    ASSUME NEW h, NEW L, NEW Q, NEW F, NEW E, NEW R, Shaped(h, L, Q, F, E, R)
    PROVE  /\ L \in [Sides -> Seq(LevelSlots)]
           /\ \A s \in Sides :
                 /\ Chain(h.levels, h.book.best[s], L[s])
                 /\ LevelList(h, s) = L[s]
                 /\ Range(L[s]) \subseteq LevelSlots
           /\ \A s, t \in Sides : Range(L[s]) \cap Range(L[t]) # {} => s = t
           /\ \A v \in LevelSlots : Chain(h.orders, h.levels[v].head, Q[v])
           /\ \A v \in LevelSlots : Range(Q[v]) \subseteq OrderSlots
<1>1. h \in Heaps /\ ListsIn(h, L) /\ QueuesIn(h, Q)
  BY DEF Shaped
<1>2. DOMAIN h.levels = LevelSlots /\ DOMAIN h.orders = OrderSlots
  BY <1>1, HeapParts
<1>3. IsFiniteSet(LevelSlots) /\ Null \notin LevelSlots /\ Null \notin OrderSlots
  BY Slots
<1>4. \A s \in Sides : Chain(h.levels, h.book.best[s], L[s])
  BY <1>1 DEF ListsIn
<1>5. \A s \in Sides : LevelList(h, s) = L[s] /\ Range(L[s]) \subseteq LevelSlots
  BY <1>2, <1>3, <1>4, ChainIsWalked, ChainAt DEF LevelList
<1>6. \A v \in LevelSlots : Chain(h.orders, h.levels[v].head, Q[v])
  BY <1>1 DEF QueuesIn
<1>7. \A v \in LevelSlots : Range(Q[v]) \subseteq OrderSlots
  BY <1>2, <1>3, <1>6, ChainAt
<1> QED  BY <1>1, <1>4, <1>5, <1>6, <1>7 DEF ListsIn

(* What becomes of a heap when a level is opened for price p.              *)
Opened(h, g, L, L2, s, p, v) ==
    /\ g.orders = h.orders /\ g.book.nOrders = h.book.nOrders
    /\ v \in Range(L2[s]) /\ v \notin Listed(L)
    /\ g.pool.word[v] = p /\ g.book.map[s][p] = v
    /\ \A t \in Sides, k \in Prices : t # s \/ k # p =>
          g.book.map[t][k] = h.book.map[t][k]

(* Level v goes in between a and b, behind those that come before p.       *)
Placed(h, g, seq, s, p, v, S, a, b) ==
    /\ \A w \in Range(seq) : w \in S <=> Before(s, h.pool.word[w], p)
    /\ Between(seq, LeadingRun(seq, S), a, b)
    /\ a = Null \/ a \in Range(seq)
    /\ b = Null \/ b \in Range(seq)
    /\ LinkedIn(g.levels, h.levels, a, v, b)
    /\ g.book.best = [h.book.best EXCEPT ![s] = IF a = Null THEN v ELSE @]

OpenedIn(h, g, s, p, v) ==
    /\ g \in Heaps /\ g.orders = h.orders /\ g.book.nOrders = h.book.nOrders
    /\ g.pool.head = h.pool.word[v]
    /\ g.pool.word[v] = p
    /\ \A w \in LevelSlots : w # v => g.pool.word[w] = h.pool.word[w]
    /\ SameLevel(g.levels[v], BlankLevel)
    /\ \A w \in LevelSlots : w # v => SameLevel(g.levels[w], h.levels[w])
    /\ g.book.map[s][p] = v
    /\ \A t \in Sides, k \in Prices : t # s \/ k # p =>
          g.book.map[t][k] = h.book.map[t][k]
    /\ g.book.nLevels[s] = h.book.nLevels[s] + 1
    /\ \A t \in Sides : t # s => g.book.nLevels[t] = h.book.nLevels[t]

(* OpenLevel takes a free level and puts it where it belongs, if the map   *)
(* has room for it.                                                        *)
LEMMA OpenIs ==
    ASSUME NEW h, NEW L, NEW Q, NEW F, NEW R, Sound(h, L, Q, F, {}, R),
           NEW s \in Sides, NEW p \in Prices, NEW v, v = h.pool.head, v # Null,
           RoomIn(h.book.map[s]), NEW g, g = OpenLevel(h, s, p)
    PROVE  /\ v \in LevelSlots /\ v \notin Listed(L) /\ Q[v] = <<>>
           /\ OpenedIn(h, g, s, p, v)
           /\ \E S, a, b : Placed(h, g, L[s], s, p, v, S, a, b)
<1>1. Shaped(h, L, Q, F, {}, R) /\ h \in Heaps /\ FreeIn(h, L, F) /\ InUse(L, Q, {})
  BY DEF Sound, Shaped
<1>2. /\ L \in [Sides -> Seq(LevelSlots)]
      /\ \A t \in Sides :
            /\ Chain(h.levels, h.book.best[t], L[t])
            /\ LevelList(h, t) = L[t]
            /\ Range(L[t]) \subseteq LevelSlots
  BY <1>1, ListParts
<1>3. /\ DOMAIN h.levels = LevelSlots /\ DOMAIN h.pool.word = LevelSlots
      /\ h.pool \in Pools /\ h.book \in Books
  BY <1>1, HeapParts
<1>4. Null \notin LevelSlots /\ IsFiniteSet(LevelSlots)
  BY Slots
<1>5. v \in Range(F) /\ v \in LevelSlots /\ h.pool.word[v] \in LevelSlots \cup {Null}
  <2>1. Path(h.pool.word, v, F)
    BY <1>1 DEF FreeIn
  <2> QED  BY <1>3, <1>4, <2>1, PathTail
<1>6. v \notin Listed(L)
  BY <1>1, <1>5 DEF FreeIn
<1>7. Q[v] = <<>>
  BY <1>1, <1>5, <1>6 DEF InUse
<1>8. PICK f : f = Fresh(h, v, p)
  OBVIOUS
<1>9. /\ f \in Heaps /\ f.orders = h.orders /\ f.book = h.book
      /\ f.levels[v] = BlankLevel
      /\ \A w \in LevelSlots : w # v => f.levels[w] = h.levels[w]
      /\ f.pool.head = h.pool.word[v]
      /\ f.pool.word[v] = p
      /\ \A w \in LevelSlots : w # v => f.pool.word[w] = h.pool.word[w]
  <2>1. FreshIn(h, f, v, p)
    BY <1>1, <1>5, <1>8, FreshIs
  <2> QED  BY <2>1 DEF FreshIn
<1>10. LevelList(f, s) = L[s]
  <2>1. DOMAIN f.levels = LevelSlots
    BY <1>9, HeapParts
  <2>2. ASSUME NEW z \in Range(L[s])
        PROVE  f.levels[z].next = h.levels[z].next /\ f.levels[z].prev = h.levels[z].prev
    <3>1. z \in LevelSlots /\ z # v
      BY <1>2, <1>6 DEF Listed
    <3> QED  BY <1>9, <3>1
  <2>3. Chain(f.levels, h.book.best[s], L[s])
    BY <1>2, <1>3, <2>1, <2>2, ChainSame
  <2>4. Chain(f.levels, f.book.best[s], L[s])
    BY <1>9, <2>3
  <2> QED  BY <1>4, <2>1, <2>4, ChainIsWalked DEF LevelList
<1>11. PICK S : S = Better(f, s, f.pool.word[v])
  OBVIOUS
<1>12. \A w \in Range(L[s]) : w \in S <=> Before(s, h.pool.word[w], p)
  <2>1. ASSUME NEW w \in Range(L[s]) PROVE w \in S <=> Before(s, h.pool.word[w], p)
    <3>1. f.pool.word[w] = h.pool.word[w]
      BY <1>2, <1>6, <1>9 DEF Listed
    <3>2. w \in S <=> IF s = "Buy" THEN f.pool.word[w] > p ELSE f.pool.word[w] < p
      BY <1>9, <1>10, <1>11 DEF Better
    <3> QED  BY <3>1, <3>2 DEF Before
  <2> QED  BY <2>1
<1>13. PICK n : n = LeadingRun(L[s], S)
  OBVIOUS
<1>14. PICK a : a = IF n = 0 THEN Null ELSE L[s][n]
  OBVIOUS
<1>15. PICK b : b = IF n = Len(L[s]) THEN Null ELSE L[s][n + 1]
  OBVIOUS
<1>16. Between(L[s], n, a, b)
  BY <1>14, <1>15 DEF Between
<1>17. (a = Null \/ a \in Range(L[s])) /\ (b = Null \/ b \in Range(L[s]))
  <2>1. n \in 0..Len(L[s])
    BY <1>2, <1>13, LeadingRunType
  <2>2. Len(L[s]) \in Nat /\ \A i \in 1..Len(L[s]) : L[s][i] \in Range(L[s])
    BY <1>2, <1>3, <1>4, ChainAt
  <2>3. (n # 0 => n \in 1..Len(L[s])) /\ (n # Len(L[s]) => n + 1 \in 1..Len(L[s]))
    BY <2>1, <2>2
  <2> QED  BY <1>14, <1>15, <2>2, <2>3
<1>18. /\ a # v /\ b # v
       /\ a \in LevelSlots \cup {Null} /\ b \in LevelSlots \cup {Null}
  <2>1. Range(L[s]) \subseteq LevelSlots /\ v \notin Range(L[s])
    BY <1>2, <1>6 DEF Listed
  <2> QED  BY <1>4, <1>5, <1>17, <2>1
<1>19. PICK i : i = InsertLevelSorted(f, s, v)
  OBVIOUS
<1>20. /\ i \in Heaps /\ i.orders = f.orders /\ i.pool = f.pool
       /\ LinkedIn(i.levels, f.levels, a, v, b)
       /\ \A w \in LevelSlots : SameLevel(i.levels[w], f.levels[w])
       /\ i.book.best = [f.book.best EXCEPT ![s] = IF a = Null THEN v ELSE @]
       /\ i.book.map = f.book.map
       /\ i.book.nLevels = f.book.nLevels /\ i.book.nOrders = f.book.nOrders
  <2>1. n = LeadingRun(L[s], Better(f, s, f.pool.word[v]))
    BY <1>11, <1>13
  <2>2. PICK list : list = L[s] /\ list = LevelList(f, s)
    BY <1>10
  <2>3. n = LeadingRun(list, Better(f, s, f.pool.word[v])) /\ Between(list, n, a, b)
    BY <1>16, <2>1, <2>2
  <2>4. InsertedIn(f, i, s, a, v, b)
    BY <1>5, <1>9, <1>18, <1>19, <2>2, <2>3, LevelInserted
  <2> QED  BY <2>4 DEF InsertedIn
<1>21. LinkedIn(i.levels, h.levels, a, v, b)
  <2>1. DOMAIN f.levels = LevelSlots
    BY <1>9, HeapParts
  <2> QED  BY <1>3, <1>9, <1>20, <2>1 DEF LinkedIn
<1>22. /\ g \in Heaps
       /\ g.orders = i.orders /\ g.levels = i.levels /\ g.pool = i.pool
       /\ g.book.best = i.book.best /\ g.book.nOrders = i.book.nOrders
       /\ g.book.map[s][p] = v
       /\ \A t \in Sides, k \in Prices : t # s \/ k # p =>
             g.book.map[t][k] = i.book.map[t][k]
       /\ g.book.nLevels[s] = i.book.nLevels[s] + 1
       /\ \A t \in Sides : t # s => g.book.nLevels[t] = i.book.nLevels[t]
  <2>1. p = i.pool.word[v] /\ RoomIn(i.book.map[s])
    BY <1>9, <1>20
  <2>2. g = InsertLevelIntoMap(i, s, v)
    BY <1>8, <1>19 DEF OpenLevel, Fresh
  <2>3. MappedIn(i, g, s, p, v)
    BY <1>5, <1>20, <2>1, <2>2, LevelMapped
  <2> QED  BY <2>3 DEF MappedIn
<1>23. SameLevel(g.levels[v], BlankLevel)
  BY <1>5, <1>9, <1>20, <1>22
<1>24. \A w \in LevelSlots : w # v => SameLevel(g.levels[w], h.levels[w])
  BY <1>9, <1>20, <1>22
<1>25. OpenedIn(h, g, s, p, v)
  BY <1>9, <1>20, <1>22, <1>23, <1>24 DEF OpenedIn
<1>26. Placed(h, g, L[s], s, p, v, S, a, b)
  <2>1. g.book.best = [h.book.best EXCEPT ![s] = IF a = Null THEN v ELSE @]
    BY <1>9, <1>20, <1>22
  <2>2. LinkedIn(g.levels, h.levels, a, v, b)
    BY <1>21, <1>22
  <2> QED  BY <1>12, <1>13, <1>16, <1>17, <2>1, <2>2 DEF Placed
<1> QED  BY <1>5, <1>6, <1>7, <1>25, <1>26

(* A new level is empty, and in use already.                               *)
LEMMA OpenKeeps ==
    ASSUME NEW h, NEW L, NEW Q, NEW F, NEW R, Sound(h, L, Q, F, {}, R),
           NEW s \in Sides, NEW p \in Prices, h.book.map[s][p] = Null,
           NEW v, v = h.pool.head, v # Null,
           RoomIn(h.book.map[s]), NEW g, g = OpenLevel(h, s, p)
    PROVE  \E L2, F2 : Sound(g, L2, Q, F2, {v}, R) /\ Opened(h, g, L, L2, s, p, v)
<1>1. /\ h \in Heaps /\ QueuesIn(h, Q) /\ TotalsIn(h, Q) /\ ListsIn(h, L) /\ InUse(L, Q, {})
      /\ FreeIn(h, L, F) /\ HomesIn(h, L, Q) /\ MapsIn(h, L) /\ SortedIn(h, L) /\ R = Queued(Q)
      /\ Shaped(h, L, Q, F, {}, R)
  BY DEF Sound, Shaped
<1>2. /\ L \in [Sides -> Seq(LevelSlots)]
      /\ \A t \in Sides :
            /\ Chain(h.levels, h.book.best[t], L[t])
            /\ Range(L[t]) \subseteq LevelSlots
      /\ \A t, u \in Sides : Range(L[t]) \cap Range(L[u]) # {} => t = u
      /\ \A w \in LevelSlots : Range(Q[w]) \subseteq OrderSlots
  BY <1>1, ListParts
<1>3. /\ DOMAIN h.levels = LevelSlots /\ DOMAIN h.pool.word = LevelSlots
      /\ h.pool \in Pools /\ h.book \in Books
  BY <1>1, HeapParts
<1>4. Null \notin LevelSlots /\ Null \notin OrderSlots /\ p \in Nat /\ Prices \subseteq Nat
  BY Slots, ValuesAreNat
<1>5. /\ v \in LevelSlots /\ v \notin Listed(L) /\ Q[v] = <<>>
      /\ g \in Heaps /\ g.orders = h.orders /\ g.book.nOrders = h.book.nOrders
      /\ g.pool.head = h.pool.word[v]
      /\ g.pool.word[v] = p
      /\ \A w \in LevelSlots : w # v => g.pool.word[w] = h.pool.word[w]
      /\ SameLevel(g.levels[v], BlankLevel)
      /\ \A w \in LevelSlots : w # v => SameLevel(g.levels[w], h.levels[w])
      /\ g.book.map[s][p] = v
      /\ \A t \in Sides, k \in Prices : t # s \/ k # p =>
            g.book.map[t][k] = h.book.map[t][k]
      /\ g.book.nLevels[s] = h.book.nLevels[s] + 1
      /\ \A t \in Sides : t # s => g.book.nLevels[t] = h.book.nLevels[t]
  <2>1. v \in LevelSlots /\ v \notin Listed(L) /\ Q[v] = <<>> /\ OpenedIn(h, g, s, p, v)
    BY OpenIs
  <2> QED  BY <2>1 DEF OpenedIn
<1>6. PICK S, a, b :
         /\ \A w \in Range(L[s]) : w \in S <=> Before(s, h.pool.word[w], p)
         /\ Between(L[s], LeadingRun(L[s], S), a, b)
         /\ a = Null \/ a \in Range(L[s])
         /\ b = Null \/ b \in Range(L[s])
         /\ LinkedIn(g.levels, h.levels, a, v, b)
         /\ g.book.best = [h.book.best EXCEPT ![s] = IF a = Null THEN v ELSE @]
  <2>1. PICK S, a, b : Placed(h, g, L[s], s, p, v, S, a, b)
    BY OpenIs
  <2> QED  BY <2>1 DEF Placed
<1>7. v \notin Range(L[s]) /\ \A t \in Sides : v \notin Range(L[t])
  BY <1>5 DEF Listed
<1>8. PICK r : r = InsertAfterRun(L[s], S, v)
  OBVIOUS
<1>9. /\ r \in Seq(LevelSlots) /\ Range(r) = Range(L[s]) \cup {v} /\ Len(r) = Len(L[s]) + 1
  <2>1. L[s] \in Seq(LevelSlots) /\ IsInjective(L[s])
    BY <1>2 DEF Chain
  <2>2. Range(r) = Range(L[s]) \cup {v}
    BY <1>5, <1>7, <1>8, <2>1, InsertKeeps
  <2>3. Len(r) = Len(L[s]) + 1
    BY <1>5, <1>8, <2>1, InsertIs
  <2>4. r \in Seq(LevelSlots)
    BY <1>5, <1>8, <2>1, InsertType
  <2> QED  BY <2>2, <2>3, <2>4
<1>10. PICK L2 : L2 = [L EXCEPT ![s] = r]
  OBVIOUS
<1>11. /\ L2 \in [Sides -> Seq(LevelSlots)] /\ L2[s] = r
       /\ \A t \in Sides : t # s => L2[t] = L[t]
  BY <1>2, <1>9, <1>10
<1>12. /\ Listed(L2) = Listed(L) \cup {v}
       /\ \A t \in Sides : Range(L2[t]) \subseteq LevelSlots
       /\ \A t \in Sides : \A w \in Range(L2[t]) : w # v => w \in Range(L[t])
       /\ \A t \in Sides : v \in Range(L2[t]) => t = s
  <2>1. \A t \in Sides : Range(L2[t]) = IF t = s THEN Range(L[t]) \cup {v} ELSE Range(L[t])
    BY <1>9, <1>11
  <2>2. Listed(L2) = Listed(L) \cup {v}
    BY <2>1 DEF Listed
  <2>3. \A t \in Sides : Range(L2[t]) \subseteq LevelSlots
    <3>1. ASSUME NEW t \in Sides PROVE Range(L2[t]) \subseteq LevelSlots
      <4>1. Range(L[t]) \subseteq LevelSlots /\ Range(L2[t]) \subseteq Range(L[t]) \cup {v}
        BY <1>2, <2>1
      <4> QED  BY <1>5, <4>1
    <3> QED  BY <3>1
  <2>4. \A t \in Sides : \A w \in Range(L2[t]) : w # v => w \in Range(L[t])
    BY <2>1
  <2>5. \A t \in Sides : v \in Range(L2[t]) => t = s
    BY <1>7, <2>1
  <2> QED  BY <2>2, <2>3, <2>4, <2>5
<1>13. PICK F2 : Path(g.pool.word, g.pool.head, F2) /\ Range(F2) = Range(F) \ {v}
  <2>1. Path(h.pool.word, v, F)
    BY <1>1 DEF FreeIn
  <2>2. DOMAIN g.pool.word = LevelSlots
    BY <1>5, HeapParts
  <2>3. \E rest : Path(g.pool.word, h.pool.word[v], rest) /\ Range(rest) = Range(F) \ {v}
    BY <1>3, <1>4, <1>5, <2>1, <2>2, PathTail
  <2> QED  BY <1>5, <2>3
<1>14. QueuesIn(g, Q)
  <2>1. Q \in [LevelSlots -> Seq(OrderSlots)]
    BY <1>1 DEF QueuesIn
  <2>2. ASSUME NEW w \in LevelSlots, w # v
        PROVE  /\ Chain(g.orders, g.levels[w].head, Q[w])
               /\ g.levels[w].tail = LastOf(Q[w]) /\ g.levels[w].count = Len(Q[w])
    BY <1>1, <1>5, <2>2 DEF QueuesIn, SameLevel
  <2>3. /\ Chain(g.orders, g.levels[v].head, Q[v])
        /\ g.levels[v].tail = LastOf(Q[v]) /\ g.levels[v].count = Len(Q[v])
    <3>1. Q[v] \in Seq(DOMAIN h.orders) /\ IsInjective(Q[v])
      BY <1>1, <1>5 DEF QueuesIn, Chain
    <3>2. Len(<<>>) = 0 /\ Q[v] = <<>>
      BY <1>5
    <3>3. Chain(g.orders, Null, Q[v])
      BY <1>5, <3>1, <3>2 DEF Chain
    <3>4. LastOf(Q[v]) = Null
      BY <1>5 DEF LastOf
    <3>5. g.levels[v].head = Null /\ g.levels[v].tail = Null /\ g.levels[v].count = 0
      BY <1>5 DEF SameLevel, BlankLevel
    <3> QED  BY <3>2, <3>3, <3>4, <3>5
  <2>4. \A w, u \in LevelSlots : Range(Q[w]) \cap Range(Q[u]) # {} => w = u
    BY <1>1 DEF QueuesIn
  <2> QED  BY <2>1, <2>2, <2>3, <2>4 DEF QueuesIn
<1>15. TotalsIn(g, Q)
  <2>1. ASSUME NEW w \in LevelSlots, w # v PROVE g.levels[w].total = SharesIn(g.orders, Q[w])
    BY <1>1, <1>5, <2>1 DEF TotalsIn, SameLevel
  <2>2. g.levels[v].total = SharesIn(g.orders, Q[v])
    BY <1>5, SharesOfNone DEF SameLevel, BlankLevel
  <2> QED  BY <2>1, <2>2 DEF TotalsIn
<1>16. ListsIn(g, L2)
  <2>0. DOMAIN g.levels = LevelSlots
    BY <1>5, HeapParts
  <2>1. Chain(g.levels, g.book.best[s], L2[s])
    <3>1. Chain(g.levels, IF a = Null THEN v ELSE h.book.best[s], r)
      <4>1. Chain(h.levels, h.book.best[s], L[s]) /\ v \in DOMAIN h.levels
            /\ Null \notin DOMAIN h.levels
        BY <1>2, <1>3, <1>4, <1>5
      <4>2. PICK n : n = LeadingRun(L[s], S) /\ Between(L[s], n, a, b)
        BY <1>6
      <4> QED  BY <1>6, <1>7, <1>8, <4>1, <4>2, ChainInsert
    <3>2. g.book.best[s] = IF a = Null THEN v ELSE h.book.best[s]
      BY <1>3, <1>6 DEF Books
    <3> QED  BY <1>11, <3>1, <3>2
  <2>2. ASSUME NEW t \in Sides, t # s PROVE Chain(g.levels, g.book.best[t], L2[t])
    <3>1. g.book.best[t] = h.book.best[t]
      BY <1>3, <1>6, <2>2 DEF Books
    <3>2. ASSUME NEW z \in Range(L[t])
          PROVE  g.levels[z].next = h.levels[z].next /\ g.levels[z].prev = h.levels[z].prev
      <4>1. z \in LevelSlots /\ z # v /\ z # a /\ z # b
        BY <1>2, <1>4, <1>6, <1>7, <2>2
      <4> QED  BY <1>3, <1>6, <4>1 DEF LinkedIn
    <3>3. Chain(g.levels, h.book.best[t], L[t])
      BY <1>2, <1>3, <2>0, <3>2, ChainSame
    <3> QED  BY <1>11, <2>2, <3>1, <3>3
  <2>3. \A t \in Sides : g.book.nLevels[t] = Len(L2[t])
    <3>1. \A t \in Sides : h.book.nLevels[t] = Len(L[t])
      BY <1>1 DEF ListsIn
    <3> QED  BY <1>5, <1>9, <1>11, <3>1
  <2>4. ASSUME NEW t \in Sides, NEW u \in Sides, Range(L2[t]) \cap Range(L2[u]) # {}
        PROVE  t = u
    <3>1. PICK w : w \in Range(L2[t]) /\ w \in Range(L2[u])
      BY <2>4
    <3>2. CASE w = v
      BY <1>12, <3>1, <3>2
    <3>3. CASE w # v
      <4>1. Range(L[t]) \cap Range(L[u]) # {}
        BY <1>12, <3>1, <3>3
      <4> QED  BY <1>2, <4>1
    <3> QED  BY <3>2, <3>3
  <2> QED  BY <1>11, <2>1, <2>2, <2>3, <2>4 DEF ListsIn
<1>17. InUse(L2, Q, {v})
  BY <1>1, <1>12 DEF InUse
<1>18. FreeIn(g, L2, F2)
  BY <1>1, <1>12, <1>13 DEF FreeIn
<1>19. HomesIn(g, L2, Q)
  <2>1. ASSUME NEW t \in Sides, NEW w \in Range(L2[t]), NEW x \in Range(Q[w])
        PROVE  g.orders[x].side = t /\ g.orders[x].price = g.pool.word[w]
    <3>1. w # v
      <4>1. Range(Q[v]) = {}
        BY <1>5 DEF Range
      <4> QED  BY <4>1
    <3>2. w \in LevelSlots /\ w \in Range(L[t])
      BY <1>12, <3>1
    <3> QED  BY <1>1, <1>5, <3>1, <3>2 DEF HomesIn
  <2> QED  BY <2>1 DEF HomesIn
<1>20. MapsIn(g, L2)
  <2>1. ASSUME NEW t \in Sides, NEW w \in Range(L2[t])
        PROVE  g.pool.word[w] \in Prices /\ g.book.map[t][g.pool.word[w]] = w
    <3>1. CASE w = v
      BY <1>5, <1>12, <3>1
    <3>2. CASE w # v
      <4>1. w \in Range(L[t]) /\ w \in LevelSlots
        BY <1>12, <3>2
      <4>2. h.pool.word[w] \in Prices /\ h.book.map[t][h.pool.word[w]] = w
        BY <1>1, <4>1 DEF MapsIn
      <4>3. t # s \/ h.pool.word[w] # p
        BY <1>4, <4>1, <4>2
      <4> QED  BY <1>5, <3>2, <4>1, <4>2, <4>3, SMTT(60)
    <3> QED  BY <3>1, <3>2
  <2>2. ASSUME NEW t \in Sides, NEW k \in Prices, g.book.map[t][k] # Null
        PROVE  g.book.map[t][k] \in Range(L2[t]) /\ g.pool.word[g.book.map[t][k]] = k
    <3>1. CASE t = s /\ k = p
      BY <1>5, <1>9, <1>11, <3>1
    <3>2. CASE t # s \/ k # p
      <4>1. PICK w : w = h.book.map[t][k]
        OBVIOUS
      <4>2. g.book.map[t][k] = w
        BY <1>5, <3>2, <4>1
      <4>3. w \in Range(L[t]) /\ h.pool.word[w] = k
        BY <1>1, <2>2, <4>1, <4>2 DEF MapsIn
      <4>4. w \in LevelSlots /\ w # v /\ w \in Range(L2[t])
        BY <1>2, <1>7, <1>9, <1>11, <4>3
      <4> QED  BY <1>5, <4>2, <4>3, <4>4
    <3> QED  BY <3>1, <3>2
  <2> QED  BY <2>1, <2>2 DEF MapsIn
<1>21. SortedIn(g, L2)
  <2>1. PICK px : px = [w \in LevelSlots |-> IF w = v THEN p
                            ELSE IF h.pool.word[w] \in Nat THEN h.pool.word[w] ELSE 0]
    OBVIOUS
  <2>2. px \in [LevelSlots -> Nat] /\ px[v] = p
    BY <1>4, <1>5, <2>1
  <2>3. \A t \in Sides : \A w \in Range(L[t]) :
           w # v /\ w \in LevelSlots /\ px[w] = h.pool.word[w] /\ px[w] = g.pool.word[w]
    <3>1. ASSUME NEW t \in Sides, NEW w \in Range(L[t])
          PROVE w # v /\ w \in LevelSlots /\ px[w] = h.pool.word[w] /\ px[w] = g.pool.word[w]
      <4>1. w # v /\ w \in LevelSlots
        BY <1>2, <1>7
      <4>2. h.pool.word[w] \in Nat
        BY <1>1, <1>4 DEF MapsIn
      <4> QED  BY <1>5, <2>1, <4>1, <4>2
    <3> QED  BY <3>1
  <2>4. ASSUME NEW t \in Sides PROVE SortedBy(L[t], px, t)
    <3>1. \A i \in DOMAIN L[t] : L[t][i] \in Range(L[t])
      BY DEF Range
    <3>2. \A i \in DOMAIN L[t] : px[L[t][i]] = h.pool.word[L[t][i]]
      BY <2>3, <3>1
    <3> QED  BY <1>1, <3>2 DEF SortedIn, SortedBy
  <2>5. Splits(S, L[s], px, s, p)
    <3>1. ASSUME NEW w \in Range(L[s]) PROVE px[w] # p
      <4>1. h.book.map[s][h.pool.word[w]] = w /\ w # Null
        BY <1>1, <1>2, <1>4 DEF MapsIn
      <4> QED  BY <2>3, <4>1
    <3> QED  BY <1>6, <2>3, <3>1 DEF Splits
  <2>6. SortedBy(r, px, s)
    <3>1. L[s] \in Seq(LevelSlots) /\ Splits(S, L[s], px, s, px[v]) /\ SortedBy(L[s], px, s)
      BY <1>2, <2>2, <2>4, <2>5
    <3> QED  BY <1>5, <1>8, <2>2, <3>1, InsertSorted
  <2>7. ASSUME NEW t \in Sides PROVE SortedBy(L2[t], px, t)
    BY <1>11, <2>4, <2>6
  <2>8. ASSUME NEW t \in Sides, NEW i \in DOMAIN L2[t] PROVE px[L2[t][i]] = g.pool.word[L2[t][i]]
    <3>1. L2[t][i] \in Range(L2[t])
      BY DEF Range
    <3>2. L2[t][i] = v \/ L2[t][i] \in Range(L[t])
      BY <1>12, <3>1
    <3> QED  BY <1>5, <2>2, <2>3, <3>2
  <2> QED  BY <2>7, <2>8 DEF SortedIn, SortedBy
<1>22. Sound(g, L2, Q, F2, {v}, R)
  BY <1>1, <1>5, <1>14, <1>15, <1>16, <1>17, <1>18, <1>19, <1>20, <1>21 DEF Sound, Shaped
<1>23. Opened(h, g, L, L2, s, p, v)
  BY <1>5, <1>9, <1>11 DEF Opened
<1> QED  BY <1>22, <1>23

-----------------------------------------------------------------------------
(* Closing a level.                                                        *)

(* remove_level_from_list takes a level out from between its neighbours.   *)
RemovedIn(h, g, s, v) ==
    /\ g \in Heaps /\ g.orders = h.orders /\ g.pool = h.pool
    /\ LinkedPast(g.levels, h.levels, v)
    /\ \A w \in LevelSlots : SameLevel(g.levels[w], h.levels[w])
    /\ g.book.best =
          [h.book.best EXCEPT ![s] = IF h.levels[v].prev = Null THEN h.levels[v].next ELSE @]
    /\ g.book.map = h.book.map
    /\ g.book.nLevels = h.book.nLevels /\ g.book.nOrders = h.book.nOrders

(* remove_level_from_list, write by write.                                 *)
LEMMA LevelRemoved ==
    ASSUME NEW h \in Heaps, NEW s \in Sides, NEW v \in LevelSlots,
           NEW g, g = RemoveLevelFromList(h, s, v)
    PROVE  RemovedIn(h, g, s, v)
<1>1. /\ h.orders \in OrderMem /\ h.levels \in LevelMem
      /\ h.pool \in Pools /\ h.book \in Books
  BY HeapParts
<1>2. PICK next : next = h.levels[v].next
  OBVIOUS
<1>3. PICK prev : prev = h.levels[v].prev
  OBVIOUS
<1>4. next \in LevelSlots \cup {Null} /\ prev \in LevelSlots \cup {Null}
  BY <1>1, <1>2, <1>3 DEF LevelMem, LevelRecords
<1>5. PICK mem : mem = SetNext(h.levels, prev, next)
  OBVIOUS
<1>6. /\ mem \in LevelMem
      /\ \A z \in LevelSlots :
            /\ mem[z].next = IF z = prev THEN next ELSE h.levels[z].next
            /\ mem[z].prev = h.levels[z].prev
            /\ SameLevel(mem[z], h.levels[z])
  BY <1>1, <1>4, <1>5, SetNextLevel
<1>7. PICK mem2 : mem2 = SetPrev(mem, next, prev)
  OBVIOUS
<1>8. /\ mem2 \in LevelMem
      /\ \A z \in LevelSlots :
            /\ mem2[z].prev = IF z = next THEN prev ELSE mem[z].prev
            /\ mem2[z].next = mem[z].next
            /\ SameLevel(mem2[z], mem[z])
  BY <1>4, <1>6, <1>7, SetPrevLevel
<1>9. PICK lvl \in LevelRecords : lvl = mem2[v]
  BY <1>8 DEF LevelMem
<1>10. PICK mem3 : mem3 = [mem2 EXCEPT ![v].prev = Null, ![v].next = Null]
  OBVIOUS
<1>11. /\ mem3 \in LevelMem
       /\ \A z \in LevelSlots : z # v => mem3[z] = mem2[z]
       /\ mem3[v] = [lvl EXCEPT !.prev = Null, !.next = Null]
  <2>1. mem3 = [mem2 EXCEPT ![v] = [lvl EXCEPT !.prev = Null, !.next = Null]]
    BY <1>8, <1>9, <1>10 DEF LevelMem
  <2>2. [lvl EXCEPT !.prev = Null, !.next = Null] \in LevelRecords
    BY DEF LevelRecords
  <2> QED  BY <1>8, <2>1, <2>2 DEF LevelMem
<1>12. SameLevel(mem3[v], mem2[v])
  BY <1>9, <1>11 DEF LevelRecords, SameLevel
<1>13. PICK best : best = [h.book.best EXCEPT ![s] = IF prev = Null THEN next ELSE @]
  OBVIOUS
<1>14. best \in [Sides -> LevelSlots \cup {Null}]
  BY <1>1, <1>4, <1>13 DEF Books
<1>15. PICK bk : bk = [h.book EXCEPT !.best = best]
  OBVIOUS
<1>16. /\ bk \in Books /\ bk.best = best
       /\ bk.map = h.book.map /\ bk.nLevels = h.book.nLevels /\ bk.nOrders = h.book.nOrders
  BY <1>1, <1>14, <1>15 DEF Books
<1>17. g = [h EXCEPT !.levels = mem3, !.book = bk]
  <2>1. g = [h EXCEPT !.levels = [SetPrev(SetNext(@, prev, next), next, prev)
                                    EXCEPT ![v].prev = Null, ![v].next = Null],
                      !.book.best[s] = IF prev = Null THEN next ELSE @]
    BY <1>2, <1>3 DEF RemoveLevelFromList
  <2>2. g = [h EXCEPT !.levels = mem3, !.book.best[s] = IF prev = Null THEN next ELSE @]
    BY <1>5, <1>7, <1>10, <2>1
  <2>3. g = [h EXCEPT !.levels = mem3, !.book.best = best]
    BY <1>13, <2>2
  <2> QED  BY <1>15, <2>3
<1>18. /\ g.orders = h.orders /\ g.levels = mem3 /\ g.pool = h.pool /\ g.book = bk
       /\ g \in [orders : OrderMem, levels : LevelMem, pool : Pools, book : Books]
  BY <1>1, <1>11, <1>16, <1>17 DEF Heaps
<1>19. g \in Heaps
  BY <1>18 DEF Heaps, OrderMem, LevelMem
<1>20. LinkedPast(g.levels, h.levels, v)
  <2>1. DOMAIN mem3 = LevelSlots /\ DOMAIN h.levels = LevelSlots
    BY <1>1, <1>11 DEF LevelMem
  <2> QED  BY <1>2, <1>3, <1>6, <1>8, <1>11, <1>18, <2>1 DEF LinkedPast
<1>21. ASSUME NEW w \in LevelSlots PROVE SameLevel(g.levels[w], h.levels[w])
  <2>1. SameLevel(mem2[w], mem[w]) /\ SameLevel(mem[w], h.levels[w]) /\ g.levels[w] = mem3[w]
    BY <1>6, <1>8, <1>18
  <2>2. SameLevel(mem3[w], mem2[w])
    <3>1. CASE w = v
      BY <1>12, <3>1
    <3>2. CASE w # v
      BY <1>11, <3>2 DEF SameLevel
    <3> QED  BY <3>1, <3>2
  <2> QED  BY <2>1, <2>2 DEF SameLevel
<1>22. g.book.best =
          [h.book.best EXCEPT ![s] = IF h.levels[v].prev = Null THEN h.levels[v].next ELSE @]
  BY <1>2, <1>3, <1>13, <1>16, <1>18
<1> QED  BY <1>16, <1>18, <1>19, <1>20, <1>21, <1>22 DEF RemovedIn

(* The map of the side forgets the level.                                  *)
ErasedIn(h, g, s, p) ==
    /\ g \in Heaps
    /\ g.orders = h.orders /\ g.levels = h.levels /\ g.pool = h.pool
    /\ g.book.best = h.book.best /\ g.book.nOrders = h.book.nOrders
    /\ p \in Prices => g.book.map[s][p] = Null
    /\ \A t \in Sides, k \in Prices : t # s \/ k # p =>
          g.book.map[t][k] = h.book.map[t][k]
    /\ g.book.nLevels[s] = h.book.nLevels[s] - 1
    /\ \A t \in Sides : t # s => g.book.nLevels[t] = h.book.nLevels[t]

(* erase_level_from_map, write by write.                                   *)
LEMMA LevelErased ==
    ASSUME NEW h \in Heaps, NEW s \in Sides, NEW v \in LevelSlots,
           NEW p, p = h.pool.word[v], NEW g, g = EraseLevelFromMap(h, s, v)
    PROVE  ErasedIn(h, g, s, p)
<1>1. /\ h.orders \in OrderMem /\ h.levels \in LevelMem
      /\ h.pool \in Pools /\ h.book \in Books
  BY HeapParts
<1>2. PICK map \in [Prices -> LevelSlots \cup {Null}] : map = h.book.map[s]
  BY <1>1 DEF Books
<1>3. PICK m2 : m2 = [k \in Prices |-> IF k = p THEN Null ELSE map[k]]
  OBVIOUS
<1>4. /\ m2 \in [Prices -> LevelSlots \cup {Null}] /\ (p \in Prices => m2[p] = Null)
      /\ \A k \in Prices : k # p => m2[k] = map[k]
  BY <1>3
<1>5. PICK k2 : k2 = h.book.nLevels[s] - 1
  OBVIOUS
<1>6. k2 \in Int
  BY <1>1, <1>5 DEF Books
<1>7. PICK maps : maps = [h.book.map EXCEPT ![s] = m2]
  OBVIOUS
<1>8. PICK counts : counts = [h.book.nLevels EXCEPT ![s] = k2]
  OBVIOUS
<1>9. /\ maps \in [Sides -> [Prices -> LevelSlots \cup {Null}]] /\ maps[s] = m2
      /\ \A t \in Sides : t # s => maps[t] = h.book.map[t]
      /\ counts \in [Sides -> Int] /\ counts[s] = k2
      /\ \A t \in Sides : t # s => counts[t] = h.book.nLevels[t]
  BY <1>1, <1>4, <1>6, <1>7, <1>8 DEF Books
<1>10. PICK bk : bk = [h.book EXCEPT !.map = maps, !.nLevels = counts]
  OBVIOUS
<1>11. /\ bk \in Books /\ bk.best = h.book.best /\ bk.nOrders = h.book.nOrders
       /\ bk.map = maps /\ bk.nLevels = counts
  BY <1>1, <1>9, <1>10 DEF Books
<1>12. g = [h EXCEPT !.book = bk]
  <2>1. g = [h EXCEPT !.book.map[s] = [k \in Prices |-> IF k = p THEN Null ELSE map[k]],
                      !.book.nLevels[s] = k2]
    BY <1>1, <1>2, <1>5 DEF EraseLevelFromMap, Heaps, Books
  <2>2. g = [h EXCEPT !.book.map[s] = m2, !.book.nLevels[s] = k2]
    BY <1>3, <2>1
  <2>3. g = [h EXCEPT !.book.map = maps, !.book.nLevels = counts]
    BY <1>1, <1>7, <1>8, <2>2 DEF Heaps, Books
  <2> QED  BY <1>1, <1>10, <2>3 DEF Heaps, Books
<1>13. /\ g.orders = h.orders /\ g.levels = h.levels /\ g.pool = h.pool /\ g.book = bk
       /\ g \in Heaps
  BY <1>11, <1>12 DEF Heaps
<1> QED  BY <1>2, <1>4, <1>5, <1>9, <1>11, <1>13 DEF ErasedIn

(* The pool takes the level back.                                          *)
ReleasedIn(h, g, v) ==
    /\ g \in Heaps /\ g.orders = h.orders /\ g.book = h.book
    /\ g.levels[v] = BlankLevel
    /\ \A w \in LevelSlots : w # v => g.levels[w] = h.levels[w]
    /\ g.pool.head = v /\ g.pool.word[v] = h.pool.head
    /\ \A w \in LevelSlots : w # v => g.pool.word[w] = h.pool.word[w]

(* The level pool takes the level back; its price becomes a link.          *)
LEMMA LevelReleased ==
    ASSUME NEW h \in Heaps, NEW v \in LevelSlots, NEW g, g = ReleaseLevel(h, v)
    PROVE  ReleasedIn(h, g, v)
<1>1. /\ h.orders \in OrderMem /\ h.levels \in LevelMem
      /\ h.pool \in Pools /\ h.book \in Books
  BY HeapParts
<1>2. LevelSlots \subseteq Nat
  BY Slots
<1>3. BlankLevel \in LevelRecords
  BY DEF BlankLevel, LevelRecords
<1>4. PICK q : q = Release(h.pool, v)
  OBVIOUS
<1>5. /\ q \in Pools /\ q.head = v /\ q.word[v] = h.pool.head
      /\ \A w \in LevelSlots : w # v => q.word[w] = h.pool.word[w]
  <2>1. PICK word : word = [h.pool.word EXCEPT ![v] = h.pool.head]
    OBVIOUS
  <2>2. /\ word \in [LevelSlots -> Nat \cup {Null}] /\ word[v] = h.pool.head
        /\ \A w \in LevelSlots : w # v => word[w] = h.pool.word[w]
    BY <1>1, <1>2, <2>1 DEF Pools
  <2>3. q = [head |-> v, word |-> word]
    BY <1>4, <2>1 DEF Release
  <2> QED  BY <2>2, <2>3 DEF Pools
<1>6. PICK lv : lv = [h.levels EXCEPT ![v] = BlankLevel]
  OBVIOUS
<1>7. /\ lv \in LevelMem /\ lv[v] = BlankLevel
      /\ \A w \in LevelSlots : w # v => lv[w] = h.levels[w]
  BY <1>1, <1>3, <1>6 DEF LevelMem
<1>8. g = [h EXCEPT !.pool = q, !.levels = lv]
  BY <1>4, <1>6 DEF ReleaseLevel
<1>9. /\ g.orders = h.orders /\ g.levels = lv /\ g.pool = q /\ g.book = h.book
      /\ g \in [orders : OrderMem, levels : LevelMem, pool : Pools, book : Books]
  BY <1>1, <1>5, <1>7, <1>8 DEF Heaps
<1>10. g \in Heaps
  BY <1>9 DEF Heaps, OrderMem, LevelMem
<1> QED  BY <1>5, <1>7, <1>9, <1>10 DEF ReleasedIn

(* All three.                                                              *)
ClosedIn(h, g, s, p, v) ==
    /\ g \in Heaps /\ g.orders = h.orders /\ g.book.nOrders = h.book.nOrders
    /\ LinkedPast(g.levels, h.levels, v)
    /\ SameLevel(g.levels[v], BlankLevel)
    /\ \A w \in LevelSlots : w # v => SameLevel(g.levels[w], h.levels[w])
    /\ g.book.best =
          [h.book.best EXCEPT ![s] = IF h.levels[v].prev = Null THEN h.levels[v].next ELSE @]
    /\ p \in Prices => g.book.map[s][p] = Null
    /\ \A t \in Sides, k \in Prices : t # s \/ k # p =>
          g.book.map[t][k] = h.book.map[t][k]
    /\ g.book.nLevels[s] = h.book.nLevels[s] - 1
    /\ \A t \in Sides : t # s => g.book.nLevels[t] = h.book.nLevels[t]
    /\ g.pool.head = v /\ g.pool.word[v] = h.pool.head
    /\ \A w \in LevelSlots : w # v => g.pool.word[w] = h.pool.word[w]

(* What closing a level writes: the price is read before the release.      *)
LEMMA CloseIs ==
    ASSUME NEW h \in Heaps, NEW s \in Sides, NEW v \in LevelSlots,
           NEW p, p = h.pool.word[v], NEW g, g = CloseLevel(h, s, v)
    PROVE  ClosedIn(h, g, s, p, v)
<1>1. PICK i : i = RemoveLevelFromList(h, s, v)
  OBVIOUS
<1>2. RemovedIn(h, i, s, v)
  BY <1>1, LevelRemoved
<1>3. i \in Heaps /\ i.pool = h.pool
  BY <1>2 DEF RemovedIn
<1>4. PICK j : j = EraseLevelFromMap(i, s, v)
  OBVIOUS
<1>5. ErasedIn(i, j, s, p)
  BY <1>3, <1>4, LevelErased
<1>6. j \in Heaps
  BY <1>5 DEF ErasedIn
<1>7. g = ReleaseLevel(j, v)
  BY <1>1, <1>4 DEF CloseLevel
<1>8. ReleasedIn(j, g, v)
  BY <1>6, <1>7, LevelReleased
<1>9. /\ g \in Heaps /\ g.orders = h.orders /\ g.book.nOrders = h.book.nOrders
      /\ SameLevel(g.levels[v], BlankLevel)
      /\ \A w \in LevelSlots : w # v => SameLevel(g.levels[w], h.levels[w])
  BY <1>2, <1>5, <1>8 DEF RemovedIn, ErasedIn, ReleasedIn, SameLevel
<1>10. /\ g.book.best = i.book.best /\ i.book.map = h.book.map /\ i.book.nLevels = h.book.nLevels
  BY <1>2, <1>5, <1>8 DEF RemovedIn, ErasedIn, ReleasedIn
<1>11. g.book.best =
          [h.book.best EXCEPT ![s] = IF h.levels[v].prev = Null THEN h.levels[v].next ELSE @]
  BY <1>2, <1>10 DEF RemovedIn
<1>12. /\ p \in Prices => g.book.map[s][p] = Null
       /\ \A t \in Sides, k \in Prices : t # s \/ k # p =>
             g.book.map[t][k] = h.book.map[t][k]
       /\ g.book.nLevels[s] = h.book.nLevels[s] - 1
       /\ \A t \in Sides : t # s => g.book.nLevels[t] = h.book.nLevels[t]
  BY <1>5, <1>8, <1>10 DEF ErasedIn, ReleasedIn
<1>13. /\ g.pool.head = v /\ g.pool.word[v] = h.pool.head
       /\ \A w \in LevelSlots : w # v => g.pool.word[w] = h.pool.word[w]
  BY <1>2, <1>5, <1>8 DEF RemovedIn, ErasedIn, ReleasedIn
<1>14. LinkedPast(g.levels, h.levels, v)
  <2>1. DOMAIN g.levels = LevelSlots /\ DOMAIN h.levels = LevelSlots
    BY <1>9, HeapParts
  <2>2. LinkedPast(j.levels, h.levels, v)
    BY <1>2, <1>5 DEF RemovedIn, ErasedIn
  <2>3. \A w \in LevelSlots : w # v => g.levels[w] = j.levels[w]
    BY <1>8 DEF ReleasedIn
  <2> QED  BY <2>1, <2>2, <2>3 DEF LinkedPast
<1> QED  BY <1>9, <1>11, <1>12, <1>13, <1>14 DEF ClosedIn

(* CloseLevel gives an empty level back.                                   *)
LEMMA CloseKeeps ==
    ASSUME NEW h, NEW L, NEW Q, NEW F, NEW R, NEW v, Sound(h, L, Q, F, {v}, R),
           NEW s \in Sides, v \in Range(L[s]), Q[v] = <<>>,
           NEW p, p = h.pool.word[v], NEW g, g = CloseLevel(h, s, v)
    PROVE  (\E L2, F2 : Sound(g, L2, Q, F2, {}, R)) /\ ClosedIn(h, g, s, p, v)
<1>1. /\ h \in Heaps /\ QueuesIn(h, Q) /\ TotalsIn(h, Q) /\ ListsIn(h, L) /\ InUse(L, Q, {v})
      /\ FreeIn(h, L, F) /\ HomesIn(h, L, Q) /\ MapsIn(h, L) /\ SortedIn(h, L) /\ R = Queued(Q)
      /\ Shaped(h, L, Q, F, {v}, R)
  BY DEF Sound, Shaped
<1>2. /\ L \in [Sides -> Seq(LevelSlots)]
      /\ \A t \in Sides :
            /\ Chain(h.levels, h.book.best[t], L[t])
            /\ Range(L[t]) \subseteq LevelSlots
      /\ \A t, u \in Sides : Range(L[t]) \cap Range(L[u]) # {} => t = u
  BY <1>1, ListParts
<1>3. /\ DOMAIN h.levels = LevelSlots /\ DOMAIN h.pool.word = LevelSlots
      /\ h.pool \in Pools /\ h.book \in Books
  BY <1>1, HeapParts
<1>4. Null \notin LevelSlots
  BY Slots
<1>5. v \in LevelSlots
  BY <1>2
<1>6. /\ ClosedIn(h, g, s, p, v)
      /\ g \in Heaps /\ g.orders = h.orders
      /\ LinkedPast(g.levels, h.levels, v)
      /\ SameLevel(g.levels[v], BlankLevel)
      /\ \A w \in LevelSlots : w # v => SameLevel(g.levels[w], h.levels[w])
      /\ g.book.best =
            [h.book.best EXCEPT ![s] = IF h.levels[v].prev = Null THEN h.levels[v].next ELSE @]
      /\ p \in Prices => g.book.map[s][p] = Null
      /\ \A t \in Sides, k \in Prices : t # s \/ k # p =>
            g.book.map[t][k] = h.book.map[t][k]
      /\ g.book.nLevels[s] = h.book.nLevels[s] - 1
      /\ \A t \in Sides : t # s => g.book.nLevels[t] = h.book.nLevels[t]
      /\ g.pool.head = v /\ g.pool.word[v] = h.pool.head
      /\ \A w \in LevelSlots : w # v => g.pool.word[w] = h.pool.word[w]
  <2>1. ClosedIn(h, g, s, p, v)
    BY <1>1, <1>5, CloseIs
  <2> QED  BY <2>1 DEF ClosedIn
<1>7. PICK r : r = Unlink(L[s], v)
  OBVIOUS
<1>8. /\ r \in Seq(LevelSlots) /\ Range(r) = Range(L[s]) \ {v} /\ Len(r) = Len(L[s]) - 1
      /\ \A i, j \in DOMAIN r : i < j =>
            \E a, b \in DOMAIN L[s] : a < b /\ r[i] = L[s][a] /\ r[j] = L[s][b]
  <2>1. L[s] \in Seq(LevelSlots) /\ IsInjective(L[s])
    BY <1>2 DEF Chain
  <2> QED  BY <1>7, <2>1, UnlinkKeeps
<1>9. PICK L2 : L2 = [L EXCEPT ![s] = r]
  OBVIOUS
<1>10. /\ L2 \in [Sides -> Seq(LevelSlots)] /\ L2[s] = r
       /\ \A t \in Sides : t # s => L2[t] = L[t]
  BY <1>2, <1>8, <1>9
<1>11. \A t \in Sides : Range(L2[t]) = Range(L[t]) \ {v}
  <2>1. ASSUME NEW t \in Sides, t # s PROVE Range(L2[t]) = Range(L[t]) \ {v}
    <3>1. v \notin Range(L[t])
      BY <1>2, <2>1
    <3> QED  BY <1>10, <2>1, <3>1
  <2> QED  BY <1>8, <1>10, <2>1
<1>12. Listed(L2) = Listed(L) \ {v}
  <2>1. ASSUME NEW x PROVE x \in Listed(L2) <=> x \in Listed(L) /\ x # v
    <3>1. (\E t \in Sides : x \in Range(L2[t])) <=> (\E t \in Sides : x \in Range(L[t])) /\ x # v
      BY <1>11
    <3> QED  BY <3>1 DEF Listed
  <2> QED  BY <2>1
<1>13. v \in Listed(L)
  BY DEF Listed
<1>14. PICK F2 : Path(g.pool.word, v, F2) /\ Range(F2) = Range(F) \cup {v}
  <2>1. Path(h.pool.word, h.pool.head, F) /\ v \notin Range(F)
    BY <1>1, <1>13 DEF FreeIn
  <2>2. DOMAIN g.pool.word = LevelSlots
    BY <1>6, HeapParts
  <2> QED  BY <1>3, <1>4, <1>5, <1>6, <2>1, <2>2, PathCons
<1>15. QueuesIn(g, Q)
  <2>1. Q \in [LevelSlots -> Seq(OrderSlots)]
    BY <1>1 DEF QueuesIn
  <2>2. ASSUME NEW w \in LevelSlots, w # v
        PROVE  /\ Chain(g.orders, g.levels[w].head, Q[w])
               /\ g.levels[w].tail = LastOf(Q[w]) /\ g.levels[w].count = Len(Q[w])
    BY <1>1, <1>6, <2>2 DEF QueuesIn, SameLevel
  <2>3. /\ Chain(g.orders, g.levels[v].head, Q[v])
        /\ g.levels[v].tail = LastOf(Q[v]) /\ g.levels[v].count = Len(Q[v])
    <3>1. Chain(h.orders, h.levels[v].head, Q[v])
      BY <1>1, <1>5 DEF QueuesIn
    <3>2. Len(<<>>) = 0
      OBVIOUS
    <3>3. Chain(g.orders, Null, Q[v])
      BY <1>6, <3>1, <3>2 DEF Chain
    <3>4. LastOf(Q[v]) = Null
      BY DEF LastOf
    <3>5. g.levels[v].head = Null /\ g.levels[v].tail = Null /\ g.levels[v].count = 0
      BY <1>6 DEF SameLevel, BlankLevel
    <3> QED  BY <3>2, <3>3, <3>4, <3>5
  <2>4. \A w, u \in LevelSlots : Range(Q[w]) \cap Range(Q[u]) # {} => w = u
    BY <1>1 DEF QueuesIn
  <2> QED  BY <2>1, <2>2, <2>3, <2>4 DEF QueuesIn
<1>16. TotalsIn(g, Q)
  <2>1. ASSUME NEW w \in LevelSlots, w # v PROVE g.levels[w].total = SharesIn(g.orders, Q[w])
    BY <1>1, <1>6, <2>1 DEF TotalsIn, SameLevel
  <2>2. g.levels[v].total = SharesIn(g.orders, Q[v])
    BY <1>6, SharesOfNone DEF SameLevel, BlankLevel
  <2> QED  BY <2>1, <2>2 DEF TotalsIn
<1>17. ListsIn(g, L2)
  <2>0. DOMAIN g.levels = LevelSlots
    BY <1>6, HeapParts
  <2>1. Chain(g.levels, g.book.best[s], L2[s])
    <3>1. Chain(h.levels, h.book.best[s], L[s]) /\ Null \notin DOMAIN h.levels
      BY <1>2, <1>3, <1>4
    <3>2. Chain(g.levels, IF h.levels[v].prev = Null THEN h.levels[v].next
                          ELSE h.book.best[s], r)
      BY <1>6, <1>7, <3>1, ChainUnlink
    <3>3. g.book.best[s] = IF h.levels[v].prev = Null THEN h.levels[v].next
                           ELSE h.book.best[s]
      BY <1>3, <1>6 DEF Books
    <3> QED  BY <1>10, <3>2, <3>3
  <2>2. ASSUME NEW t \in Sides, t # s PROVE Chain(g.levels, g.book.best[t], L2[t])
    <3>1. g.book.best[t] = h.book.best[t]
      BY <1>3, <1>6, <2>2 DEF Books
    <3>2. /\ h.levels[v].next = Null \/ h.levels[v].next \in Range(L[s])
          /\ h.levels[v].prev = Null \/ h.levels[v].prev \in Range(L[s])
      <4>1. /\ Len(L[s]) \in Nat /\ \A i \in 1..Len(L[s]) : L[s][i] \in Range(L[s])
            /\ \A z \in Range(L[s]) : \E i \in 1..Len(L[s]) : z = L[s][i]
        BY <1>2, <1>3, <1>4, ChainAt
      <4>2. PICK i \in 1..Len(L[s]) : v = L[s][i]
        BY <4>1
      <4>3. /\ h.levels[v].next = IF i = Len(L[s]) THEN Null ELSE L[s][i + 1]
            /\ h.levels[v].prev = IF i = 1 THEN Null ELSE L[s][i - 1]
        <5>1. Chain(h.levels, h.book.best[s], L[s])
          BY <1>2
        <5> QED  BY <4>2, <5>1 DEF Chain
      <4>4. (i # Len(L[s]) => i + 1 \in 1..Len(L[s])) /\ (i # 1 => i - 1 \in 1..Len(L[s]))
        BY <4>1, <4>2
      <4> QED  BY <4>1, <4>3, <4>4
    <3>3. ASSUME NEW z \in Range(L[t])
          PROVE  g.levels[z].next = h.levels[z].next /\ g.levels[z].prev = h.levels[z].prev
      <4>1. z \in LevelSlots /\ z # v /\ z # h.levels[v].next /\ z # h.levels[v].prev
        BY <1>2, <1>4, <2>2, <3>2
      <4> QED  BY <1>3, <1>6, <4>1 DEF LinkedPast
    <3>4. Chain(g.levels, h.book.best[t], L[t])
      BY <1>2, <1>3, <2>0, <3>3, ChainSame
    <3> QED  BY <1>10, <2>2, <3>1, <3>4
  <2>3. \A t \in Sides : g.book.nLevels[t] = Len(L2[t])
    <3>1. \A t \in Sides : h.book.nLevels[t] = Len(L[t])
      BY <1>1 DEF ListsIn
    <3> QED  BY <1>6, <1>8, <1>10, <3>1
  <2>4. \A t, u \in Sides : Range(L2[t]) \cap Range(L2[u]) # {} => t = u
    <3>1. \A t, u \in Sides :
             Range(L2[t]) \cap Range(L2[u]) # {} => Range(L[t]) \cap Range(L[u]) # {}
      BY <1>11
    <3> QED  BY <1>2, <3>1
  <2> QED  BY <1>10, <2>1, <2>2, <2>3, <2>4 DEF ListsIn
<1>18. InUse(L2, Q, {})
  BY <1>1, <1>12 DEF InUse
<1>19. FreeIn(g, L2, F2)
  BY <1>1, <1>5, <1>6, <1>12, <1>14 DEF FreeIn
<1>20. HomesIn(g, L2, Q)
  <2>1. ASSUME NEW t \in Sides, NEW w \in Range(L2[t]), NEW x \in Range(Q[w])
        PROVE  g.orders[x].side = t /\ g.orders[x].price = g.pool.word[w]
    <3>1. w # v /\ w \in LevelSlots /\ w \in Range(L[t])
      BY <1>2, <1>11
    <3> QED  BY <1>1, <1>6, <3>1 DEF HomesIn
  <2> QED  BY <2>1 DEF HomesIn
<1>21. MapsIn(g, L2)
  <2>1. ASSUME NEW t \in Sides, NEW w \in Range(L2[t])
        PROVE  g.pool.word[w] \in Prices /\ g.book.map[t][g.pool.word[w]] = w
    <3>1. w \in Range(L[t]) /\ w # v /\ w \in LevelSlots
      BY <1>2, <1>11
    <3>2. h.pool.word[w] \in Prices /\ h.book.map[t][h.pool.word[w]] = w
      BY <1>1, <3>1 DEF MapsIn
    <3>3. t # s \/ h.pool.word[w] # p
      <4>1. h.book.map[s][p] = v
        BY <1>1 DEF MapsIn
      <4> QED  BY <3>1, <3>2, <4>1
    <3> QED  BY <1>6, <3>1, <3>2, <3>3, SMTT(60)
  <2>2. ASSUME NEW t \in Sides, NEW k \in Prices, g.book.map[t][k] # Null
        PROVE  g.book.map[t][k] \in Range(L2[t]) /\ g.pool.word[g.book.map[t][k]] = k
    <3>1. t # s \/ k # p
      BY <1>6, <2>2
    <3>2. PICK w : w = h.book.map[t][k]
      OBVIOUS
    <3>3. g.book.map[t][k] = w
      BY <1>6, <3>1, <3>2
    <3>4. w \in Range(L[t]) /\ h.pool.word[w] = k
      BY <1>1, <2>2, <3>2, <3>3 DEF MapsIn
    <3>5. w # v
      BY <1>2, <3>1, <3>4
    <3>6. w \in LevelSlots /\ w \in Range(L2[t])
      BY <1>2, <1>11, <3>4, <3>5
    <3> QED  BY <1>6, <3>3, <3>4, <3>5, <3>6
  <2> QED  BY <2>1, <2>2 DEF MapsIn
<1>22. SortedIn(g, L2)
  <2>1. ASSUME NEW t \in Sides, NEW i \in DOMAIN L2[t], NEW j \in DOMAIN L2[t], i < j
        PROVE  Before(t, h.pool.word[L2[t][i]], h.pool.word[L2[t][j]])
    <3>1. CASE t = s
      <4>1. i \in DOMAIN r /\ j \in DOMAIN r
        BY <1>10, <3>1
      <4>2. PICK a \in DOMAIN L[s] : \E b \in DOMAIN L[s] :
                a < b /\ r[i] = L[s][a] /\ r[j] = L[s][b]
        BY <1>8, <2>1, <4>1
      <4>3. PICK b \in DOMAIN L[s] : a < b /\ r[i] = L[s][a] /\ r[j] = L[s][b]
        BY <4>2
      <4>4. Before(s, h.pool.word[L[s][a]], h.pool.word[L[s][b]])
        BY <1>1, <4>3 DEF SortedIn
      <4> QED  BY <1>10, <3>1, <4>3, <4>4
    <3>2. CASE t # s
      BY <1>1, <1>10, <2>1, <3>2 DEF SortedIn
    <3> QED  BY <3>1, <3>2
  <2>2. ASSUME NEW t \in Sides, NEW i \in DOMAIN L2[t]
        PROVE  g.pool.word[L2[t][i]] = h.pool.word[L2[t][i]]
    <3>1. L2[t][i] \in Range(L2[t])
      BY DEF Range
    <3>2. L2[t][i] # v /\ L2[t][i] \in LevelSlots
      BY <1>2, <1>11, <3>1
    <3> QED  BY <1>6, <3>2
  <2> QED  BY <2>1, <2>2 DEF SortedIn
<1>23. Sound(g, L2, Q, F2, {}, R)
  BY <1>1, <1>6, <1>15, <1>16, <1>17, <1>18, <1>19, <1>20, <1>21, <1>22 DEF Sound, Shaped
<1> QED  BY <1>6, <1>23

(* The count of the book's orders is nobody else's business.               *)
Counting(h, n) == [h EXCEPT !.book.nOrders = n]

(* order_count_ may change on its own.                                     *)
LEMMA CountKeeps ==
    ASSUME NEW h, NEW L, NEW Q, NEW F, NEW E, NEW R, Sound(h, L, Q, F, E, R),
           NEW n \in Int, NEW g, g = Counting(h, n)
    PROVE  /\ Sound(g, L, Q, F, E, R)
           /\ g.orders = h.orders /\ g.levels = h.levels /\ g.pool = h.pool
           /\ g.book.map = h.book.map /\ g.book.nOrders = n
<1>1. /\ h \in Heaps /\ QueuesIn(h, Q) /\ TotalsIn(h, Q) /\ ListsIn(h, L) /\ InUse(L, Q, E)
      /\ FreeIn(h, L, F) /\ HomesIn(h, L, Q) /\ MapsIn(h, L) /\ SortedIn(h, L) /\ R = Queued(Q)
  BY DEF Sound, Shaped
<1>2. h.book \in Books
  BY <1>1, HeapParts
<1>3. PICK bk : bk = [h.book EXCEPT !.nOrders = n]
  OBVIOUS
<1>4. /\ bk \in Books /\ bk.nOrders = n
      /\ bk.best = h.book.best /\ bk.map = h.book.map /\ bk.nLevels = h.book.nLevels
  BY <1>2, <1>3 DEF Books
<1>5. g = [h EXCEPT !.book = bk]
  BY <1>3 DEF Counting
<1>6. /\ g \in Heaps /\ g.book = bk
      /\ g.orders = h.orders /\ g.levels = h.levels /\ g.pool = h.pool
  BY <1>1, <1>4, <1>5 DEF Heaps
<1>7. /\ QueuesIn(g, Q) /\ TotalsIn(g, Q) /\ ListsIn(g, L)
  BY <1>1, <1>4, <1>6 DEF QueuesIn, TotalsIn, ListsIn
<1>8. /\ FreeIn(g, L, F) /\ HomesIn(g, L, Q) /\ MapsIn(g, L) /\ SortedIn(g, L)
  BY <1>1, <1>4, <1>6 DEF FreeIn, HomesIn, MapsIn, SortedIn
<1> QED  BY <1>1, <1>4, <1>6, <1>7, <1>8 DEF Sound, Shaped

-----------------------------------------------------------------------------
(* Detaching an order.                                                     *)

(* What is left when an order of level v, at price p of side s, is gone.   *)
LeftBy(h, g, s, p, v, r, o) ==
    /\ g.book.nOrders = h.book.nOrders - 1
    /\ \A z \in OrderSlots : z # o => SameOrder(g.orders[z], h.orders[z])
    /\ g.book.map[s][p] = IF r = <<>> THEN Null ELSE v
    /\ \A t \in Sides, k \in Prices : t # s \/ k # p =>
          g.book.map[t][k] = h.book.map[t][k]

(* What execute_order and remove_order share: the order goes, and its      *)
(* level with it if there is no other.                                     *)
LEMMA DetachKeeps ==
    ASSUME NEW h, NEW L, NEW Q, NEW F, NEW R, Shaped(h, L, Q, F, {}, R),
           NEW s \in Sides, NEW v \in Range(L[s]), NEW o \in Range(Q[v]),
           NEW r, r = Unlink(Q[v], o),
           h.levels[v].total = SharesIn(h.orders, r),
           \A w \in LevelSlots : w # v => h.levels[w].total = SharesIn(h.orders, Q[w]),
           NEW p, p = h.pool.word[v], NEW g, g = Detach(h, v, o)
    PROVE  /\ \E L2, F2 : Sound(g, L2, [Q EXCEPT ![v] = r], F2, {}, R \ {o})
           /\ LeftBy(h, g, s, p, v, r, o)
<1>1. /\ h \in Heaps /\ QueuesIn(h, Q) /\ HomesIn(h, L, Q) /\ MapsIn(h, L)
  BY DEF Shaped
<1>2. v \in LevelSlots /\ o \in OrderSlots /\ Q \in [LevelSlots -> Seq(OrderSlots)]
  BY <1>1, ListParts DEF QueuesIn
<1>3. h.book \in Books /\ h.book.nOrders \in Int
  BY <1>1, HeapParts DEF Books
<1>4. h.orders[o].side = s
  BY <1>1 DEF HomesIn
<1>5. p \in Prices /\ h.book.map[s][p] = v
  BY <1>1 DEF MapsIn
<1>6. PICK Q2 : Q2 = [Q EXCEPT ![v] = r]
  OBVIOUS
<1>7. PICK i : i = UnlinkOrder(h, v, o)
  OBVIOUS
<1>8. Sound(i, L, Q2, F, Emptied(r, v), R \ {o}) /\ i.levels[v].count = Len(r)
  <2>1. /\ Sound(i, L, [Q EXCEPT ![v] = r], F, Emptied(r, v), R \ {o})
        /\ i.levels[v].count = Len(r)
    BY <1>7, UnlinkOrderKeeps
  <2> QED  BY <1>6, <2>1
<1>9. /\ i.book = h.book /\ i.pool = h.pool
      /\ \A z \in OrderSlots : z # o => SameOrder(i.orders[z], h.orders[z])
  <2>1. /\ SameLinks(h, i)
        /\ \A z \in OrderSlots : z # o => SameOrder(i.orders[z], h.orders[z])
    BY <1>1, <1>2, <1>7, UnlinkOrderIs
  <2> QED  BY <2>1 DEF SameLinks
<1>10. PICK n \in Int : n = h.book.nOrders - 1
  BY <1>3
<1>11. PICK j : j = Counting(i, n)
  OBVIOUS
<1>12. /\ Sound(j, L, Q2, F, Emptied(r, v), R \ {o})
       /\ j.orders = i.orders /\ j.levels = i.levels /\ j.pool = i.pool
       /\ j.book.map = i.book.map /\ j.book.nOrders = n
  <2>1. PICK E2, R2 : E2 = Emptied(r, v) /\ R2 = R \ {o}
    OBVIOUS
  <2>2. Sound(i, L, Q2, F, E2, R2)
    BY <1>8, <2>1
  <2>3. /\ Sound(j, L, Q2, F, E2, R2)
        /\ j.orders = i.orders /\ j.levels = i.levels /\ j.pool = i.pool
        /\ j.book.map = i.book.map /\ j.book.nOrders = n
    BY <1>11, <2>2, CountKeeps
  <2> QED  BY <2>1, <2>3
<1>13. g = IF j.levels[v].count = 0 THEN CloseLevel(j, s, v) ELSE j
  <2>1. j = [UnlinkOrder(h, v, o) EXCEPT !.book.nOrders = @ - 1]
    <3>1. i \in Heaps
      BY <1>8 DEF Sound, Shaped
    <3>2. j = [i EXCEPT !.book.nOrders = i.book.nOrders - 1]
      BY <1>9, <1>10, <1>11 DEF Counting
    <3> QED  BY <1>7, <3>1, <3>2 DEF Heaps, Books
  <2> QED  BY <1>4, <2>1 DEF Detach
<1>14. Q2[v] = r /\ r \in Seq(OrderSlots)
  <2>1. r \in Seq(OrderSlots)
    BY <1>2, UnlinkType
  <2> QED  BY <1>2, <1>6, <2>1
<1>15. j.levels[v].count = 0 <=> r = <<>>
  BY <1>8, <1>12, <1>14, EmptySeq
<1>16. CASE r = <<>>
  <2>1. Sound(j, L, Q2, F, {v}, R \ {o}) /\ g = CloseLevel(j, s, v) /\ Q2[v] = <<>>
    BY <1>12, <1>13, <1>14, <1>15, <1>16 DEF Emptied
  <2>2. p = j.pool.word[v]
    BY <1>9, <1>12
  <2>3. (\E L2, F2 : Sound(g, L2, Q2, F2, {}, R \ {o})) /\ ClosedIn(j, g, s, p, v)
    BY <2>1, <2>2, CloseKeeps
  <2>4. LeftBy(h, g, s, p, v, r, o)
    BY <1>5, <1>9, <1>10, <1>12, <1>16, <2>3 DEF ClosedIn, LeftBy
  <2> QED  BY <1>6, <2>3, <2>4
<1>17. CASE r # <<>>
  <2>1. Sound(j, L, Q2, F, {}, R \ {o}) /\ g = j
    BY <1>12, <1>13, <1>15, <1>17 DEF Emptied
  <2>2. LeftBy(h, g, s, p, v, r, o)
    BY <1>5, <1>9, <1>10, <1>12, <1>17, <2>1 DEF LeftBy
  <2> QED  BY <1>6, <2>1, <2>2
<1> QED  BY <1>16, <1>17

(* The heap with other amounts: the total of level v and the shares of o.  *)
Amounts(h, v, o, t, q) == [h EXCEPT !.levels[v].total = t, !.orders[o].shares = q]

(* What such a write changes.                                              *)
LEMMA AmountsIs ==
    ASSUME NEW h \in Heaps, NEW v \in LevelSlots, NEW o \in OrderSlots,
           NEW t \in Int, NEW q \in Nat, NEW g, g = Amounts(h, v, o, t, q)
    PROVE  /\ g \in Heaps /\ g.pool = h.pool /\ g.book = h.book
           /\ \A z \in OrderSlots : z # o => g.orders[z] = h.orders[z]
           /\ g.orders[o].shares = q
           /\ g.orders[o].side = h.orders[o].side /\ g.orders[o].price = h.orders[o].price
           /\ g.orders[o].next = h.orders[o].next /\ g.orders[o].prev = h.orders[o].prev
           /\ \A w \in LevelSlots : w # v => g.levels[w] = h.levels[w]
           /\ g.levels[v].total = t
           /\ g.levels[v].head = h.levels[v].head /\ g.levels[v].tail = h.levels[v].tail
           /\ g.levels[v].count = h.levels[v].count
           /\ g.levels[v].next = h.levels[v].next /\ g.levels[v].prev = h.levels[v].prev
<1>1. /\ h.orders \in OrderMem /\ h.levels \in LevelMem
      /\ h.pool \in Pools /\ h.book \in Books
  BY HeapParts
<1>2. PICK lvl \in LevelRecords : lvl = h.levels[v]
  BY <1>1 DEF LevelMem
<1>3. PICK ord \in OrderRecords : ord = h.orders[o]
  BY <1>1 DEF OrderMem
<1>4. PICK lvl2 : lvl2 = [lvl EXCEPT !.total = t]
  OBVIOUS
<1>5. PICK ord2 : ord2 = [ord EXCEPT !.shares = q]
  OBVIOUS
<1>6. /\ lvl2 \in LevelRecords /\ lvl2.total = t
      /\ lvl2.head = lvl.head /\ lvl2.tail = lvl.tail /\ lvl2.count = lvl.count
      /\ lvl2.next = lvl.next /\ lvl2.prev = lvl.prev
  BY <1>4 DEF LevelRecords
<1>7. /\ ord2 \in OrderRecords /\ ord2.shares = q
      /\ ord2.side = ord.side /\ ord2.price = ord.price
      /\ ord2.next = ord.next /\ ord2.prev = ord.prev
  BY <1>5 DEF OrderRecords
<1>8. PICK lv : lv = [h.levels EXCEPT ![v] = lvl2]
  OBVIOUS
<1>9. PICK os : os = [h.orders EXCEPT ![o] = ord2]
  OBVIOUS
<1>10. /\ lv \in LevelMem /\ lv[v] = lvl2 /\ \A w \in LevelSlots : w # v => lv[w] = h.levels[w]
       /\ os \in OrderMem /\ os[o] = ord2 /\ \A z \in OrderSlots : z # o => os[z] = h.orders[z]
  BY <1>1, <1>6, <1>7, <1>8, <1>9 DEF LevelMem, OrderMem
<1>11. g = [h EXCEPT !.levels = lv, !.orders = os]
  <2>1. g = [h EXCEPT !.levels[v].total = t, !.orders[o].shares = q]
    BY DEF Amounts
  <2>2. [h.levels EXCEPT ![v].total = t] = lv
    BY <1>1, <1>2, <1>4, <1>8 DEF LevelMem
  <2>3. [h.orders EXCEPT ![o].shares = q] = os
    BY <1>1, <1>3, <1>5, <1>9 DEF OrderMem
  <2>4. g = [h EXCEPT !.levels = [h.levels EXCEPT ![v].total = t],
                      !.orders = [h.orders EXCEPT ![o].shares = q]]
    BY <2>1 DEF Heaps
  <2> QED  BY <2>2, <2>3, <2>4
<1>12. /\ g.orders = os /\ g.levels = lv /\ g.pool = h.pool /\ g.book = h.book
       /\ g \in [orders : OrderMem, levels : LevelMem, pool : Pools, book : Books]
  BY <1>1, <1>10, <1>11 DEF Heaps
<1>13. g \in Heaps
  BY <1>12 DEF Heaps, OrderMem, LevelMem
<1> QED  BY <1>2, <1>3, <1>6, <1>7, <1>10, <1>12, <1>13

(* Amounts do not change where anything is.                                *)
LEMMA AmountsKeep ==
    ASSUME NEW h, NEW L, NEW Q, NEW F, NEW R, Shaped(h, L, Q, F, {}, R),
           NEW v \in LevelSlots, NEW o \in OrderSlots,
           NEW t \in Int, NEW q \in Nat, NEW g, g = Amounts(h, v, o, t, q)
    PROVE  Shaped(g, L, Q, F, {}, R)
<1>1. /\ h \in Heaps /\ QueuesIn(h, Q) /\ ListsIn(h, L) /\ InUse(L, Q, {})
      /\ FreeIn(h, L, F) /\ HomesIn(h, L, Q) /\ MapsIn(h, L) /\ SortedIn(h, L) /\ R = Queued(Q)
  BY DEF Shaped
<1>2. /\ \A s \in Sides :
            /\ Chain(h.levels, h.book.best[s], L[s])
            /\ Range(L[s]) \subseteq LevelSlots
      /\ \A w \in LevelSlots : Chain(h.orders, h.levels[w].head, Q[w])
      /\ \A w \in LevelSlots : Range(Q[w]) \subseteq OrderSlots
  BY ListParts
<1>3. /\ g \in Heaps /\ g.pool = h.pool /\ g.book = h.book
      /\ \A z \in OrderSlots :
            /\ g.orders[z].side = h.orders[z].side /\ g.orders[z].price = h.orders[z].price
            /\ g.orders[z].next = h.orders[z].next /\ g.orders[z].prev = h.orders[z].prev
      /\ \A w \in LevelSlots :
            /\ g.levels[w].head = h.levels[w].head /\ g.levels[w].tail = h.levels[w].tail
            /\ g.levels[w].count = h.levels[w].count
            /\ g.levels[w].next = h.levels[w].next /\ g.levels[w].prev = h.levels[w].prev
  BY <1>1, AmountsIs
<1>4. /\ DOMAIN g.orders = DOMAIN h.orders /\ DOMAIN g.levels = DOMAIN h.levels
  BY <1>1, <1>3, HeapParts
<1>5. QueuesIn(g, Q)
  <2>1. ASSUME NEW w \in LevelSlots PROVE Chain(g.orders, g.levels[w].head, Q[w])
    <3>1. Chain(h.orders, h.levels[w].head, Q[w]) /\ Range(Q[w]) \subseteq OrderSlots
      BY <1>2
    <3>2. \A z \in Range(Q[w]) : /\ g.orders[z].next = h.orders[z].next
                                 /\ g.orders[z].prev = h.orders[z].prev
      BY <1>3, <3>1
    <3> QED  BY <1>3, <1>4, <3>1, <3>2, ChainSame
  <2> QED  BY <1>1, <1>3, <2>1 DEF QueuesIn
<1>6. ListsIn(g, L)
  <2>1. ASSUME NEW s \in Sides PROVE Chain(g.levels, g.book.best[s], L[s])
    <3>1. Chain(h.levels, h.book.best[s], L[s]) /\ Range(L[s]) \subseteq LevelSlots
      BY <1>2
    <3>2. \A z \in Range(L[s]) : /\ g.levels[z].next = h.levels[z].next
                                 /\ g.levels[z].prev = h.levels[z].prev
      BY <1>3, <3>1
    <3> QED  BY <1>3, <1>4, <3>1, <3>2, ChainSame
  <2> QED  BY <1>1, <1>3, <2>1 DEF ListsIn
<1>7. FreeIn(g, L, F) /\ MapsIn(g, L) /\ SortedIn(g, L)
  BY <1>1, <1>3 DEF FreeIn, MapsIn, SortedIn
<1>8. HomesIn(g, L, Q)
  <2>1. ASSUME NEW s \in Sides, NEW w \in Range(L[s]), NEW x \in Range(Q[w])
        PROVE  g.orders[x].side = s /\ g.orders[x].price = g.pool.word[w]
    <3>1. x \in OrderSlots
      BY <1>2
    <3> QED  BY <1>1, <1>3, <3>1 DEF HomesIn
  <2> QED  BY <2>1 DEF HomesIn
<1> QED  BY <1>1, <1>3, <1>5, <1>6, <1>7, <1>8 DEF Shaped

-----------------------------------------------------------------------------
(* Adding an order.                                                        *)

(* A slot that holds no resting order may be written over.                 *)
Written(h, o, rec) == [h EXCEPT !.orders[o] = rec]

(* add_order gives such a slot its side, price and shares.                 *)
LEMMA WrittenKeeps ==
    ASSUME NEW h, NEW L, NEW Q, NEW F, NEW E, NEW R, Sound(h, L, Q, F, E, R),
           NEW o \in OrderSlots, o \notin R, NEW rec \in OrderRecords,
           NEW g, g = Written(h, o, rec)
    PROVE  /\ Sound(g, L, Q, F, E, R)
           /\ g.levels = h.levels /\ g.pool = h.pool /\ g.book = h.book
           /\ g.orders[o] = rec
           /\ \A z \in OrderSlots : z # o => g.orders[z] = h.orders[z]
<1>1. /\ h \in Heaps /\ QueuesIn(h, Q) /\ TotalsIn(h, Q) /\ ListsIn(h, L) /\ InUse(L, Q, E)
      /\ FreeIn(h, L, F) /\ HomesIn(h, L, Q) /\ MapsIn(h, L) /\ SortedIn(h, L) /\ R = Queued(Q)
      /\ Shaped(h, L, Q, F, E, R)
  BY DEF Sound, Shaped
<1>2. /\ \A s \in Sides : Range(L[s]) \subseteq LevelSlots
      /\ \A w \in LevelSlots : Chain(h.orders, h.levels[w].head, Q[w])
      /\ \A w \in LevelSlots : Range(Q[w]) \subseteq OrderSlots
  BY <1>1, ListParts
<1>3. \A w \in LevelSlots : o \notin Range(Q[w])
  BY <1>1 DEF Queued
<1>4. PICK os : os = [h.orders EXCEPT ![o] = rec]
  OBVIOUS
<1>5. h.orders \in OrderMem
  BY <1>1, HeapParts
<1>6. os \in OrderMem /\ os[o] = rec /\ \A z \in OrderSlots : z # o => os[z] = h.orders[z]
  BY <1>4, <1>5 DEF OrderMem
<1>7. g = [h EXCEPT !.orders = os]
  BY <1>4 DEF Written
<1>8. /\ g \in Heaps /\ g.orders = os
      /\ g.levels = h.levels /\ g.pool = h.pool /\ g.book = h.book
  BY <1>1, <1>6, <1>7 DEF Heaps, OrderMem
<1>9. ASSUME NEW w \in LevelSlots, NEW z \in Range(Q[w]) PROVE g.orders[z] = h.orders[z]
  BY <1>2, <1>3, <1>6, <1>8
<1>10. QueuesIn(g, Q)
  <2>1. ASSUME NEW w \in LevelSlots PROVE Chain(g.orders, g.levels[w].head, Q[w])
    <3>1. DOMAIN g.orders = DOMAIN h.orders
      BY <1>1, <1>8, HeapParts
    <3>2. \A z \in Range(Q[w]) : /\ g.orders[z].next = h.orders[z].next
                                 /\ g.orders[z].prev = h.orders[z].prev
      BY <1>9
    <3> QED  BY <1>2, <1>8, <3>1, <3>2, ChainSame
  <2> QED  BY <1>1, <1>8, <2>1 DEF QueuesIn
<1>11. TotalsIn(g, Q)
  <2>1. ASSUME NEW w \in LevelSlots PROVE SharesIn(g.orders, Q[w]) = SharesIn(h.orders, Q[w])
    <3>1. \A x \in Range(Q[w]) : g.orders[x].shares = h.orders[x].shares
      BY <1>9
    <3> QED  BY <3>1, SharesSame
  <2> QED  BY <1>1, <1>8, <2>1 DEF TotalsIn
<1>12. ListsIn(g, L) /\ FreeIn(g, L, F) /\ MapsIn(g, L) /\ SortedIn(g, L)
  BY <1>1, <1>8 DEF ListsIn, FreeIn, MapsIn, SortedIn
<1>13. HomesIn(g, L, Q)
  <2>1. ASSUME NEW s \in Sides, NEW w \in Range(L[s]), NEW x \in Range(Q[w])
        PROVE  g.orders[x].side = s /\ g.orders[x].price = g.pool.word[w]
    <3>1. w \in LevelSlots
      BY <1>2
    <3> QED  BY <1>1, <1>8, <1>9, <3>1 DEF HomesIn
  <2> QED  BY <2>1 DEF HomesIn
<1> QED  BY <1>1, <1>6, <1>8, <1>10, <1>11, <1>12, <1>13 DEF Sound, Shaped

(* What the map of a side finds at a price is a level of that side.        *)
LEMMA FoundLevel ==
    ASSUME NEW h, NEW L, NEW Q, NEW F, NEW E, NEW R, Sound(h, L, Q, F, E, R),
           NEW s \in Sides, NEW p \in Prices, NEW v, v = FindLevel(h, s, p), v # Null
    PROVE  v \in Range(L[s]) /\ v \in LevelSlots /\ h.pool.word[v] = p
<1>1. Shaped(h, L, Q, F, E, R) /\ MapsIn(h, L)
  BY DEF Sound, Shaped
<1>2. Range(L[s]) \subseteq LevelSlots
  BY <1>1, ListParts
<1>3. v \in Range(L[s]) /\ h.pool.word[v] = p
  BY <1>1 DEF MapsIn, FindLevel
<1> QED  BY <1>2, <1>3

(* A resting order is found in the queue of the level of its price.        *)
LEMMA FoundOrder ==
    ASSUME NEW h, NEW L, NEW Q, NEW F, NEW R, Sound(h, L, Q, F, {}, R),
           NEW o \in R, NEW s, s = h.orders[o].side, NEW p, p = h.orders[o].price
    PROVE  /\ s \in Sides /\ p \in Prices /\ o \in OrderSlots
           /\ \E v \in LevelSlots :
                 /\ v = FindLevel(h, s, p) /\ v # Null /\ v \in Range(L[s])
                 /\ o \in Range(Q[v]) /\ h.pool.word[v] = p
<1>1. /\ Shaped(h, L, Q, F, {}, R) /\ InUse(L, Q, {}) /\ HomesIn(h, L, Q) /\ MapsIn(h, L)
      /\ R = Queued(Q) /\ QueuesIn(h, Q)
  BY DEF Sound, Shaped
<1>2. PICK v \in LevelSlots : o \in Range(Q[v])
  BY <1>1 DEF Queued
<1>3. Q[v] # <<>>
  <2>1. SUFFICES ASSUME Q[v] = <<>> PROVE FALSE
    OBVIOUS
  <2> QED  BY <1>2, <2>1 DEF Range
<1>4. PICK t \in Sides : v \in Range(L[t])
  BY <1>1, <1>3 DEF InUse, Listed
<1>5. s = t /\ p = h.pool.word[v]
  BY <1>1, <1>2, <1>4 DEF HomesIn
<1>6. p \in Prices /\ h.book.map[s][p] = v
  BY <1>1, <1>4, <1>5 DEF MapsIn
<1>7. v # Null
  BY Slots
<1>8. o \in OrderSlots
  BY <1>1, <1>2, ListParts
<1> QED  BY <1>2, <1>4, <1>5, <1>6, <1>7, <1>8 DEF FindLevel

(* add_order, as a function of the heap.                                   *)
Added(h, o, s, p, q) ==
    LET new == Written(h, o, [side |-> s, price |-> p, shares |-> q,
                              next |-> Null, prev |-> Null])
        found == FindLevel(new, s, p)
        opened == IF found = Null THEN OpenLevel(new, s, p) ELSE new
        v == IF found = Null THEN h.pool.head ELSE found
    IN  [PushBack(opened, v, o) EXCEPT !.book.nOrders = @ + 1]

(* The order stands at the back of the queue of its price.                 *)
AddedIn(h, g, Q, o, s, p, q, v) ==
    /\ v \in LevelSlots
    /\ h.book.map[s][p] = Null => Q[v] = <<>>
    /\ h.book.map[s][p] # Null => v = h.book.map[s][p]
    /\ g.book.map[s][p] = v
    /\ \A t \in Sides, k \in Prices : t # s \/ k # p =>
          g.book.map[t][k] = h.book.map[t][k]
    /\ g.book.nOrders = h.book.nOrders + 1
    /\ g.orders[o].shares = q
    /\ \A z \in OrderSlots : z # o => SameOrder(g.orders[z], h.orders[z])

(* An order joins the last place of its price, of a new level if there is  *)
(* none.                                                                   *)
LEMMA AddKeeps ==
    ASSUME NEW h, NEW L, NEW Q, NEW F, NEW R, Sound(h, L, Q, F, {}, R),
           NEW o \in OrderSlots, o \notin R,
           NEW s \in Sides, NEW p \in Prices, NEW q \in Nat,
           FindLevel(h, s, p) # Null \/ (h.pool.head # Null /\ RoomIn(h.book.map[s])),
           NEW g, g = Added(h, o, s, p, q)
    PROVE  \E L2, F2, v : /\ Sound(g, L2, [Q EXCEPT ![v] = Append(@, o)], F2, {}, R \cup {o})
                          /\ AddedIn(h, g, Q, o, s, p, q, v)
<1>1. PICK rec : rec = [side |-> s, price |-> p, shares |-> q, next |-> Null, prev |-> Null]
  OBVIOUS
<1>2. rec \in OrderRecords /\ rec.side = s /\ rec.price = p /\ rec.shares = q
  BY <1>1, ValuesAreNat DEF OrderRecords
<1>3. PICK new : new = Written(h, o, rec)
  OBVIOUS
<1>4. /\ Sound(new, L, Q, F, {}, R)
      /\ new.levels = h.levels /\ new.pool = h.pool /\ new.book = h.book
      /\ new.orders[o] = rec
      /\ \A z \in OrderSlots : z # o => new.orders[z] = h.orders[z]
  BY <1>2, <1>3, WrittenKeeps
<1>5. PICK found : found = FindLevel(new, s, p)
  OBVIOUS
<1>6. found = h.book.map[s][p] /\ found = FindLevel(h, s, p)
  BY <1>4, <1>5 DEF FindLevel
<1>7. PICK opened : opened = IF found = Null THEN OpenLevel(new, s, p) ELSE new
  OBVIOUS
<1>8. PICK v : v = IF found = Null THEN h.pool.head ELSE found
  OBVIOUS
<1>9. PICK pushed : pushed = PushBack(opened, v, o)
  OBVIOUS
<1>10. g = [pushed EXCEPT !.book.nOrders = @ + 1]
  BY <1>1, <1>3, <1>5, <1>7, <1>8, <1>9 DEF Added
<1>11. \E L2, F2, E2 :
          /\ Sound(opened, L2, Q, F2, E2, R) /\ E2 \subseteq {v} /\ v \in Range(L2[s])
          /\ opened.orders = new.orders /\ opened.book.nOrders = h.book.nOrders
          /\ opened.pool.word[v] = p /\ opened.book.map[s][p] = v
          /\ \A t \in Sides, k \in Prices : t # s \/ k # p =>
                opened.book.map[t][k] = h.book.map[t][k]
          /\ (found = Null => Q[v] = <<>>)
  <2>1. CASE found = Null
    <3>1. /\ new.book.map[s][p] = Null /\ v = new.pool.head /\ v # Null
          /\ RoomIn(new.book.map[s]) /\ opened = OpenLevel(new, s, p)
      BY <1>4, <1>6, <1>7, <1>8, <2>1
    <3>2. PICK L2, F2 : Sound(opened, L2, Q, F2, {v}, R) /\ Opened(new, opened, L, L2, s, p, v)
      BY <1>4, <3>1, OpenKeeps
    <3>3. Q[v] = <<>>
      BY <1>4, <3>1, OpenIs
    <3> QED  BY <1>4, <3>2, <3>3 DEF Opened
  <2>2. CASE found # Null
    <3>1. opened = new /\ v = found
      BY <1>7, <1>8, <2>2
    <3>2. v \in Range(L[s]) /\ v \in LevelSlots /\ new.pool.word[v] = p
      BY <1>4, <1>5, <2>2, <3>1, FoundLevel
    <3>3. Sound(opened, L, Q, F, {}, R) /\ {} \subseteq {v} /\ v \in Range(L[s])
      BY <1>4, <3>1, <3>2
    <3>4. opened.orders = new.orders /\ opened.book = h.book /\ opened.pool.word[v] = p
      BY <1>4, <3>1, <3>2
    <3>5. h.book.map[s][p] = v
      BY <1>6, <3>1
    <3> QED  BY <2>2, <3>3, <3>4, <3>5
  <2> QED  BY <2>1, <2>2
<1>12. PICK L2, F2, E2 :
          /\ Sound(opened, L2, Q, F2, E2, R) /\ E2 \subseteq {v} /\ v \in Range(L2[s])
          /\ opened.orders = new.orders /\ opened.book.nOrders = h.book.nOrders
          /\ opened.pool.word[v] = p /\ opened.book.map[s][p] = v
          /\ \A t \in Sides, k \in Prices : t # s \/ k # p =>
                opened.book.map[t][k] = h.book.map[t][k]
          /\ (found = Null => Q[v] = <<>>)
  BY <1>11
<1>13. opened \in Heaps /\ v \in LevelSlots
  <2>1. Shaped(opened, L2, Q, F2, E2, R)
    BY <1>12 DEF Sound
  <2> QED  BY <1>12, <2>1, ListParts DEF Shaped
<1>14. PICK Q2 : Q2 = [Q EXCEPT ![v] = Append(@, o)]
  OBVIOUS
<1>15. Sound(pushed, L2, Q2, F2, {}, R \cup {o})
  <2>1. opened.orders[o].side = s /\ opened.orders[o].price = opened.pool.word[v]
    BY <1>2, <1>4, <1>12
  <2>2. Sound(pushed, L2, [Q EXCEPT ![v] = Append(@, o)], F2, E2 \ {v}, R \cup {o})
    BY <1>9, <1>12, <2>1, PushKeeps
  <2>3. E2 \ {v} = {}
    BY <1>12
  <2> QED  BY <1>14, <2>2, <2>3
<1>16. /\ pushed.book = opened.book
       /\ \A z \in OrderSlots : SameOrder(pushed.orders[z], opened.orders[z])
  <2>1. PICK last : last = opened.levels[v].tail
    OBVIOUS
  <2>2. last # o
    <3>1. QueuesIn(opened, Q) /\ R = Queued(Q) /\ Shaped(opened, L2, Q, F2, E2, R)
      BY <1>12 DEF Sound, Shaped
    <3>2. last = LastOf(Q[v]) /\ o \notin Range(Q[v]) /\ Q[v] \in Seq(OrderSlots)
      BY <1>13, <2>1, <3>1 DEF QueuesIn, Queued
    <3>3. Q[v] # <<>> => Q[v][Len(Q[v])] \in Range(Q[v])
      <4>1. Len(Q[v]) \in Nat /\ DOMAIN Q[v] = 1..Len(Q[v]) /\ (Q[v] # <<>> => Len(Q[v]) # 0)
        BY <3>2, LenProperties, EmptySeq
      <4>2. Q[v] # <<>> => Len(Q[v]) \in DOMAIN Q[v]
        BY <4>1
      <4> QED  BY <4>2 DEF Range
    <3> QED  BY <3>2, <3>3, Slots DEF LastOf
  <2>3. SameLinks(opened, pushed) /\ \A z \in OrderSlots : SameOrder(pushed.orders[z], opened.orders[z])
    BY <1>9, <1>13, <2>1, <2>2, PushIs
  <2> QED  BY <2>3 DEF SameLinks
<1>17. pushed \in Heaps /\ pushed.book.nOrders \in Int
  <2>1. pushed \in Heaps
    BY <1>15 DEF Sound, Shaped
  <2> QED  BY <2>1, HeapParts DEF Books
<1>18. PICK n \in Int : n = pushed.book.nOrders + 1
  BY <1>17
<1>19. g = Counting(pushed, n)
  BY <1>10, <1>17, <1>18 DEF Counting, Heaps, Books
<1>20. /\ Sound(g, L2, Q2, F2, {}, R \cup {o})
       /\ g.orders = pushed.orders /\ g.book.map = pushed.book.map /\ g.book.nOrders = n
  <2>1. PICK R2 : R2 = R \cup {o}
    OBVIOUS
  <2>2. Sound(pushed, L2, Q2, F2, {}, R2)
    BY <1>15, <2>1
  <2>3. /\ Sound(g, L2, Q2, F2, {}, R2)
        /\ g.orders = pushed.orders /\ g.book.map = pushed.book.map /\ g.book.nOrders = n
    BY <1>19, <2>2, CountKeeps
  <2> QED  BY <2>1, <2>3
<1>21. \A z \in OrderSlots : z # o => SameOrder(g.orders[z], h.orders[z])
  BY <1>4, <1>12, <1>16, <1>20
<1>22. g.orders[o].shares = q
  BY <1>2, <1>4, <1>12, <1>16, <1>20 DEF SameOrder
<1>23. AddedIn(h, g, Q, o, s, p, q, v)
  BY <1>6, <1>8, <1>12, <1>13, <1>16, <1>18, <1>20, <1>21, <1>22 DEF AddedIn
<1> QED  BY <1>14, <1>20, <1>23

-----------------------------------------------------------------------------
(* Taking shares from an order.                                            *)

(* The orders of other levels are other orders.                            *)
LEMMA QueueParts ==
    ASSUME NEW h, NEW L, NEW Q, NEW F, NEW E, NEW R, Shaped(h, L, Q, F, E, R),
           NEW v \in LevelSlots, NEW o \in Range(Q[v])
    PROVE  /\ h \in Heaps /\ o \in OrderSlots /\ Q[v] \in Seq(OrderSlots) /\ IsInjective(Q[v])
           /\ Shares(h.orders, OrderSlots) /\ h.orders[o].shares \in Nat
           /\ h.levels[v].total \in Int
           /\ \A w \in LevelSlots : w # v => o \notin Range(Q[w])
<1>1. h \in Heaps /\ QueuesIn(h, Q)
  BY DEF Shaped
<1>2. Q[v] \in Seq(OrderSlots) /\ IsInjective(Q[v])
  BY <1>1 DEF QueuesIn, Chain
<1>3. o \in OrderSlots
  BY ListParts
<1>4. Shares(h.orders, OrderSlots) /\ h.levels \in LevelMem
  BY <1>1, HeapParts
<1>5. h.orders[o].shares \in Nat /\ h.levels[v].total \in Int
  BY <1>3, <1>4 DEF Shares, LevelMem, LevelRecords
<1>6. \A w \in LevelSlots : w # v => o \notin Range(Q[w])
  BY <1>1 DEF QueuesIn
<1> QED  BY <1>1, <1>2, <1>3, <1>4, <1>5, <1>6

(* What other orders have does not change with the amounts.                *)
LEMMA AmountsElsewhere ==
    ASSUME NEW h, NEW L, NEW Q, NEW F, NEW R, Sound(h, L, Q, F, {}, R),
           NEW v \in LevelSlots, NEW o \in Range(Q[v]),
           NEW t \in Int, NEW q \in Nat, NEW g, g = Amounts(h, v, o, t, q)
    PROVE  \A w \in LevelSlots : w # v => g.levels[w].total = SharesIn(g.orders, Q[w])
<1>1. Shaped(h, L, Q, F, {}, R) /\ TotalsIn(h, Q)
  BY DEF Sound
<1>2. h \in Heaps /\ o \in OrderSlots /\ \A w \in LevelSlots : w # v => o \notin Range(Q[w])
  BY <1>1, QueueParts
<1>3. /\ \A z \in OrderSlots : z # o => g.orders[z] = h.orders[z]
      /\ \A w \in LevelSlots : w # v => g.levels[w] = h.levels[w]
  BY <1>2, AmountsIs
<1>4. ASSUME NEW w \in LevelSlots, w # v PROVE g.levels[w].total = SharesIn(g.orders, Q[w])
  <2>1. Range(Q[w]) \subseteq OrderSlots
    BY <1>1, ListParts
  <2>2. \A x \in Range(Q[w]) : g.orders[x].shares = h.orders[x].shares
    BY <1>2, <1>3, <1>4, <2>1
  <2>3. SharesIn(g.orders, Q[w]) = SharesIn(h.orders, Q[w])
    BY <2>2, SharesSame
  <2> QED  BY <1>1, <1>3, <1>4, <2>3 DEF TotalsIn
<1> QED  BY <1>4

(* A partial fill moves nothing.                                           *)
LEMMA FillKeeps ==
    ASSUME NEW h, NEW L, NEW Q, NEW F, NEW R, Sound(h, L, Q, F, {}, R),
           NEW v \in LevelSlots, NEW o \in Range(Q[v]),
           NEW k \in Nat, k < h.orders[o].shares,
           NEW t, t = h.levels[v].total - k, NEW q, q = h.orders[o].shares - k,
           NEW g, g = Amounts(h, v, o, t, q)
    PROVE  /\ Sound(g, L, Q, F, {}, R)
           /\ g.book = h.book /\ g.orders[o].shares = q
           /\ \A z \in OrderSlots : z # o => g.orders[z] = h.orders[z]
<1>1. Shaped(h, L, Q, F, {}, R) /\ TotalsIn(h, Q)
  BY DEF Sound
<1>2. /\ h \in Heaps /\ o \in OrderSlots /\ Q[v] \in Seq(OrderSlots) /\ IsInjective(Q[v])
      /\ Shares(h.orders, OrderSlots) /\ h.orders[o].shares \in Nat
      /\ h.levels[v].total \in Int
  BY <1>1, QueueParts
<1>3. t \in Int /\ q \in Nat
  BY <1>2
<1>4. /\ g \in Heaps /\ g.book = h.book /\ g.orders[o].shares = q /\ g.levels[v].total = t
      /\ \A z \in OrderSlots : z # o => g.orders[z] = h.orders[z]
  <2>1. PICK a \in Int : a = t
    BY <1>3
  <2>2. PICK b \in Nat : b = q
    BY <1>3
  <2>3. g = Amounts(h, v, o, a, b)
    BY <2>1, <2>2
  <2>4. /\ g \in Heaps /\ g.book = h.book /\ g.orders[o].shares = b /\ g.levels[v].total = a
        /\ \A z \in OrderSlots : z # o => g.orders[z] = h.orders[z]
    BY <1>2, <2>3, AmountsIs
  <2> QED  BY <2>1, <2>2, <2>4
<1>5. Shaped(g, L, Q, F, {}, R)
  BY <1>1, <1>2, <1>3, AmountsKeep
<1>6. g.levels[v].total = SharesIn(g.orders, Q[v])
  <2>1. Shares(g.orders, OrderSlots)
    BY <1>4, HeapParts
  <2>2. \A x \in OrderSlots : x # o => g.orders[x].shares = h.orders[x].shares
    BY <1>4
  <2>3. SharesIn(h.orders, Q[v]) - h.orders[o].shares = SharesIn(g.orders, Q[v]) - g.orders[o].shares
    BY <1>2, <2>1, <2>2, SharesFill
  <2>4. SharesIn(h.orders, Q[v]) = h.levels[v].total
    BY <1>1 DEF TotalsIn
  <2>5. PICK f : Terms(f, g.orders, Q[v])
    BY DEF Terms
  <2>6. SharesIn(g.orders, Q[v]) \in Nat
    BY <1>2, <2>1, <2>5, SharesTerms
  <2>7. PICK a \in Nat : a = SharesIn(g.orders, Q[v])
    BY <2>6
  <2>8. PICK b \in Int : b = h.levels[v].total
    BY <1>2
  <2>9. PICK c \in Nat : c = h.orders[o].shares
    BY <1>2
  <2>10. b - c = a - q /\ q = c - k /\ t = b - k
    BY <1>4, <2>3, <2>4, <2>7, <2>8, <2>9
  <2>11. t = a
    <3>1. b - c = a - (c - k) /\ t = b - k
      BY <2>10
    <3> QED  BY <3>1
  <2> QED  BY <1>4, <2>7, <2>11
<1>7. TotalsIn(g, Q)
  <2>1. \A w \in LevelSlots : w # v => g.levels[w].total = SharesIn(g.orders, Q[w])
    BY <1>3, AmountsElsewhere
  <2> QED  BY <1>6, <2>1 DEF TotalsIn
<1> QED  BY <1>4, <1>5, <1>7 DEF Sound

(* What the other orders of a level have.                                  *)
LeftTotal(h, v, o) == h.levels[v].total - h.orders[o].shares

(* An order goes, and its shares with it.                                  *)
LEMMA GoneKeeps ==
    ASSUME NEW h, NEW L, NEW Q, NEW F, NEW R, Sound(h, L, Q, F, {}, R),
           NEW s \in Sides, NEW v \in Range(L[s]), NEW o \in Range(Q[v]),
           NEW r, r = Unlink(Q[v], o), NEW p, p = h.pool.word[v],
           NEW t, t = LeftTotal(h, v, o), NEW q \in Nat,
           NEW i, i = Amounts(h, v, o, t, q), NEW g, g = Detach(i, v, o)
    PROVE  /\ \E L2, F2 : Sound(g, L2, [Q EXCEPT ![v] = r], F2, {}, R \ {o})
           /\ LeftBy(h, g, s, p, v, r, o)
<1>1. Shaped(h, L, Q, F, {}, R) /\ TotalsIn(h, Q)
  BY DEF Sound
<1>2. v \in LevelSlots
  BY <1>1, ListParts
<1>3. /\ h \in Heaps /\ o \in OrderSlots /\ Q[v] \in Seq(OrderSlots) /\ IsInjective(Q[v])
      /\ Shares(h.orders, OrderSlots) /\ h.orders[o].shares \in Nat
      /\ h.levels[v].total \in Int
  BY <1>1, <1>2, QueueParts
<1>4. t \in Int
  BY <1>3 DEF LeftTotal
<1>5. /\ i.pool = h.pool /\ i.book = h.book /\ i.levels[v].total = t
      /\ \A z \in OrderSlots : z # o => i.orders[z] = h.orders[z]
  BY <1>2, <1>3, <1>4, AmountsIs
<1>6. Shaped(i, L, Q, F, {}, R)
  BY <1>1, <1>2, <1>3, <1>4, AmountsKeep
<1>7. i.levels[v].total = SharesIn(i.orders, r)
  <2>1. /\ SharesIn(h.orders, r) \in Nat
        /\ SharesIn(h.orders, Q[v]) = SharesIn(h.orders, r) + h.orders[o].shares
    BY <1>3, SharesUnlink
  <2>2. SharesIn(h.orders, Q[v]) = h.levels[v].total
    BY <1>1, <1>2 DEF TotalsIn
  <2>3. Range(r) = Range(Q[v]) \ {o}
    BY <1>3, UnlinkKeeps
  <2>4. Range(Q[v]) \subseteq OrderSlots
    BY <1>1, <1>2, ListParts
  <2>5. \A x \in Range(r) : i.orders[x].shares = h.orders[x].shares
    BY <1>5, <2>3, <2>4
  <2>6. SharesIn(i.orders, r) = SharesIn(h.orders, r)
    BY <2>5, SharesSame
  <2> QED  BY <1>3, <1>5, <2>1, <2>2, <2>6 DEF LeftTotal
<1>8. \A w \in LevelSlots : w # v => i.levels[w].total = SharesIn(i.orders, Q[w])
  BY <1>2, <1>4, AmountsElsewhere
<1>9. p = i.pool.word[v]
  BY <1>5
<1>10. /\ \E L2, F2 : Sound(g, L2, [Q EXCEPT ![v] = r], F2, {}, R \ {o})
       /\ LeftBy(i, g, s, p, v, r, o)
  BY <1>6, <1>7, <1>8, <1>9, DetachKeeps
<1>11. LeftBy(h, g, s, p, v, r, o)
  <2>1. /\ g.book.nOrders = i.book.nOrders - 1
        /\ \A z \in OrderSlots : z # o => SameOrder(g.orders[z], i.orders[z])
        /\ g.book.map[s][p] = IF r = <<>> THEN Null ELSE v
        /\ \A x \in Sides, k \in Prices : x # s \/ k # p =>
              g.book.map[x][k] = i.book.map[x][k]
    BY <1>10 DEF LeftBy
  <2>2. \A z \in OrderSlots : z # o => SameOrder(g.orders[z], h.orders[z])
    BY <1>5, <2>1
  <2> QED  BY <1>5, <2>1, <2>2 DEF LeftBy
<1> QED  BY <1>10, <1>11

-----------------------------------------------------------------------------
(* Clearing the book: the levels are released one after the other.         *)

(* The pool after each of the slots of list is released in turn.           *)
Releases(f, p, list, m) ==
    f = [n \in 0..m |-> IF n = 0 THEN p ELSE Release(f[n - 1], list[n])]

(* A short list of them has a next one, ...                                *)
LEMMA ReleasesExtend ==
    ASSUME NEW f, NEW p, NEW list, NEW m \in Nat, Releases(f, p, list, m)
    PROVE  \E u : Releases(u, p, list, m + 1)
<1>1. PICK u : u = [n \in 0..m + 1 |-> IF n = m + 1 THEN Release(f[m], list[m + 1]) ELSE f[n]]
  OBVIOUS
<1>2. ASSUME NEW n \in 0..m + 1
      PROVE  u[n] = IF n = 0 THEN p ELSE Release(u[n - 1], list[n])
  <2>1. CASE n = m + 1
    <3>1. n # 0 /\ n - 1 = m /\ m \in 0..m + 1 /\ m # m + 1
      BY <2>1
    <3>2. u[n] = Release(f[m], list[m + 1]) /\ u[m] = f[m]
      BY <1>1, <2>1, <3>1
    <3> QED  BY <2>1, <3>1, <3>2
  <2>2. CASE n # m + 1 /\ n # 0
    <3>1. n \in 0..m /\ n - 1 \in 0..m + 1 /\ n - 1 # m + 1
      BY <2>2
    <3>2. f[n] = Release(f[n - 1], list[n])
      BY <2>2, <3>1 DEF Releases
    <3>3. u[n] = f[n] /\ u[n - 1] = f[n - 1]
      BY <1>1, <2>2, <3>1
    <3> QED  BY <2>2, <3>2, <3>3
  <2>3. CASE n = 0
    <3>1. n \in 0..m /\ n # m + 1
      BY <2>3
    <3>2. f[n] = p /\ u[n] = f[n]
      BY <1>1, <2>3, <3>1 DEF Releases
    <3> QED  BY <2>3, <3>2
  <2> QED  BY <2>1, <2>2, <2>3
<1>3. u = [n \in 0..m + 1 |-> IF n = 0 THEN p ELSE Release(u[n - 1], list[n])]
  BY <1>1, <1>2
<1> QED  BY <1>3 DEF Releases

(* ... so there is one of any length.                                      *)
LEMMA ReleasesExist ==
    ASSUME NEW p, NEW list, NEW m \in Nat
    PROVE  \E f : Releases(f, p, list, m)
<1> DEFINE Without == {n \in Nat : ~ \E f : Releases(f, p, list, n)}
<1>1. Without = {}
  <2>1. SUFFICES ASSUME Without # {} PROVE FALSE
    OBVIOUS
  <2>2. PICK n \in Without : \A k \in Without : n <= k
    BY <2>1, Smallest
  <2>3. n # 0
    <3>1. PICK f : f = [k \in 0..0 |-> p]
      OBVIOUS
    <3>2. \A k \in 0..0 : f[k] = IF k = 0 THEN p ELSE Release(f[k - 1], list[k])
      BY <3>1
    <3>3. f = [k \in 0..0 |-> IF k = 0 THEN p ELSE Release(f[k - 1], list[k])]
      BY <3>1, <3>2
    <3>4. Releases(f, p, list, 0)
      BY <3>3 DEF Releases
    <3> QED  BY <3>4
  <2>4. PICK i \in Nat : n = i + 1
    BY <2>3
  <2>5. i \notin Without
    BY <2>2, <2>4
  <2>6. PICK f : Releases(f, p, list, i)
    BY <2>5
  <2>7. \E u : Releases(u, p, list, i + 1)
    BY <2>6, ReleasesExtend
  <2> QED  BY <2>2, <2>4, <2>7
<1> QED  BY <1>1

(* The slots released so far.                                              *)
Given(list, n) == {list[i] : i \in 1..n}

(* Each of them joins the free list in front, and nobody is there twice.   *)
ReleasedBy(pl, F, list, n) ==
    /\ pl \in Pools
    /\ \E more : Path(pl.word, pl.head, more) /\ Range(more) = Range(F) \cup Given(list, n)

(* The next one joins too: it is not free yet.                             *)
LEMMA ReleaseOne ==
    ASSUME NEW pl, NEW F, NEW list \in Seq(LevelSlots), IsInjective(list),
           Range(list) \cap Range(F) = {}, NEW n \in Nat, n + 1 <= Len(list),
           ReleasedBy(pl, F, list, n), NEW next, next = Release(pl, list[n + 1])
    PROVE  ReleasedBy(next, F, list, n + 1)
<1>1. Len(list) \in Nat /\ DOMAIN list = 1..Len(list) /\ \A i \in 1..Len(list) : list[i] \in LevelSlots
  BY LenProperties, ElementOfSeq
<1>2. n + 1 \in DOMAIN list /\ list[n + 1] \in LevelSlots /\ list[n + 1] \in Range(list)
  BY <1>1 DEF Range
<1>3. PICK v \in LevelSlots : v = list[n + 1]
  BY <1>2
<1>4. PICK more : Path(pl.word, pl.head, more) /\ Range(more) = Range(F) \cup Given(list, n)
  BY DEF ReleasedBy
<1>5. pl \in Pools /\ DOMAIN pl.word = LevelSlots
  BY DEF ReleasedBy, Pools
<1>6. v \notin Range(more)
  <2>1. v \notin Range(F)
    BY <1>2, <1>3
  <2>2. \A i \in 1..n : i \in DOMAIN list /\ i # n + 1
    BY <1>1
  <2>3. \A i \in 1..n : list[i] # v
    BY <1>2, <1>3, <2>2 DEF IsInjective
  <2> QED  BY <1>4, <2>1, <2>3 DEF Given
<1>7. next = [head |-> v, word |-> [pl.word EXCEPT ![v] = pl.head]]
  BY <1>3 DEF Release
<1>8. /\ next.head = v /\ DOMAIN next.word = LevelSlots /\ next.word[v] = pl.head
      /\ \A z \in LevelSlots : z # v => next.word[z] = pl.word[z]
      /\ next \in Pools
  <2>1. pl.head \in LevelSlots \cup {Null} /\ pl.word \in [LevelSlots -> Nat \cup {Null}]
    BY <1>5 DEF Pools
  <2>2. pl.head \in Nat \cup {Null}
    BY <2>1, Slots
  <2> QED  BY <1>7, <2>1, <2>2 DEF Pools
<1>9. \E longer : Path(next.word, v, longer) /\ Range(longer) = Range(more) \cup {v}
  <2>1. PICK link : link = pl.word
    OBVIOUS
  <2>2. PICK link2 : link2 = next.word
    OBVIOUS
  <2>3. PICK x : x = pl.head
    OBVIOUS
  <2>4. Path(link, x, more) /\ Null \notin DOMAIN link /\ v \in DOMAIN link
    BY <1>4, <1>5, <2>1, <2>3, Slots
  <2>5. /\ DOMAIN link2 = DOMAIN link /\ link2[v] = x
        /\ \A z \in DOMAIN link : z # v => link2[z] = link[z]
    BY <1>5, <1>8, <2>1, <2>2, <2>3
  <2>6. \E longer : Path(link2, v, longer) /\ Range(longer) = Range(more) \cup {v}
    BY <1>6, <2>4, <2>5, PathCons
  <2> QED  BY <2>2, <2>6
<1>10. Given(list, n + 1) = Given(list, n) \cup {v}
  <2>1. 1..n + 1 = 1..n \cup {n + 1}
    OBVIOUS
  <2> QED  BY <1>3, <2>1 DEF Given
<1>11. PICK longer : Path(next.word, v, longer) /\ Range(longer) = Range(more) \cup {v}
  BY <1>9
<1>12. Range(longer) = Range(F) \cup Given(list, n + 1)
  BY <1>4, <1>10, <1>11
<1> QED  BY <1>8, <1>11, <1>12 DEF ReleasedBy

(* In the end all of them are free, and each once.                         *)
LEMMA ReleaseAll ==
    ASSUME NEW pl \in Pools, NEW F, Path(pl.word, pl.head, F),
           NEW list \in Seq(LevelSlots), IsInjective(list), Range(list) \cap Range(F) = {},
           NEW f, Releases(f, pl, list, Len(list))
    PROVE  /\ f[Len(list)] \in Pools
           /\ \E more : /\ Path(f[Len(list)].word, f[Len(list)].head, more)
                        /\ Range(more) = Range(F) \cup Range(list)
<1>1. Len(list) \in Nat /\ DOMAIN list = 1..Len(list)
  BY LenProperties
<1> DEFINE Bad == {n \in Nat : n <= Len(list) /\ ~ ReleasedBy(f[n], F, list, n)}
<1>2. Bad = {}
  <2>1. SUFFICES ASSUME Bad # {} PROVE FALSE
    OBVIOUS
  <2>2. PICK n \in Bad : \A k \in Bad : n <= k
    BY <2>1, Smallest
  <2>3. n # 0
    <3>1. f[0] = pl
      BY <1>1 DEF Releases
    <3>2. Given(list, 0) = {}
      BY DEF Given
    <3>3. ReleasedBy(f[0], F, list, 0)
      BY <3>1, <3>2 DEF ReleasedBy
    <3> QED  BY <3>3
  <2>4. PICK i \in Nat : n = i + 1
    BY <2>3
  <2>5. ReleasedBy(f[i], F, list, i)
    BY <1>1, <2>2, <2>4
  <2>6. f[n] = Release(f[i], list[i + 1])
    <3>1. n \in 0..Len(list) /\ n # 0 /\ n - 1 = i
      BY <1>1, <2>2, <2>4
    <3>2. f[n] = Release(f[n - 1], list[n])
      BY <3>1 DEF Releases
    <3> QED  BY <2>4, <3>1, <3>2
  <2>7. ReleasedBy(f[n], F, list, i + 1)
    BY <1>1, <2>2, <2>4, <2>5, <2>6, ReleaseOne
  <2> QED  BY <2>2, <2>4, <2>7
<1>3. ReleasedBy(f[Len(list)], F, list, Len(list))
  BY <1>1, <1>2
<1>4. Given(list, Len(list)) = Range(list)
  BY <1>1 DEF Given, Range
<1> QED  BY <1>3, <1>4 DEF ReleasedBy

(* Two lists with no element in common, one behind the other.              *)
Apart(a, b) == Range(a) \cap Range(b) = {}
JoinOf(c, a, b) == c = a \o b

(* One behind the other they are a list of the elements of both.           *)
LEMMA JoinedIs ==
    ASSUME NEW T, NEW a \in Seq(T), NEW b \in Seq(T), IsInjective(a), IsInjective(b),
           Apart(a, b), NEW c, JoinOf(c, a, b)
    PROVE  c \in Seq(T) /\ IsInjective(c) /\ Range(c) = Range(a) \cup Range(b)
<1>1. /\ c \in Seq(T) /\ Len(a) \in Nat /\ Len(b) \in Nat
      /\ Len(c) = Len(a) + Len(b)
      /\ \A i \in 1..Len(c) : c[i] = IF i <= Len(a) THEN a[i] ELSE b[i - Len(a)]
  BY ConcatProperties, LenProperties DEF JoinOf
<1>2. DOMAIN a = 1..Len(a) /\ DOMAIN b = 1..Len(b) /\ DOMAIN c = 1..Len(c)
  BY <1>1, LenProperties
<1>3. \A i \in DOMAIN c : \/ i \in DOMAIN a /\ c[i] = a[i]
                          \/ i - Len(a) \in DOMAIN b /\ i > Len(a) /\ c[i] = b[i - Len(a)]
  BY <1>1, <1>2
<1>4. \A i \in DOMAIN c : c[i] \in Range(a) \cup Range(b)
  BY <1>3 DEF Range
<1>5. \A z \in Range(a) : z \in Range(c)
  <2>1. ASSUME NEW i \in DOMAIN a PROVE i \in DOMAIN c /\ c[i] = a[i]
    BY <1>1, <1>2
  <2> QED  BY <2>1 DEF Range
<1>6. \A z \in Range(b) : z \in Range(c)
  <2>1. ASSUME NEW i \in DOMAIN b PROVE i + Len(a) \in DOMAIN c /\ c[i + Len(a)] = b[i]
    BY <1>1, <1>2
  <2> QED  BY <2>1 DEF Range
<1>7. IsInjective(c)
  <2>1. ASSUME NEW i \in DOMAIN c, NEW j \in DOMAIN c, c[i] = c[j] PROVE i = j
    <3>1. CASE i \in DOMAIN a /\ c[i] = a[i] /\ j \in DOMAIN a /\ c[j] = a[j]
      BY <2>1, <3>1 DEF IsInjective
    <3>2. ASSUME NEW k \in DOMAIN a, NEW m \in DOMAIN b PROVE a[k] # b[m]
      BY DEF Range, Apart
    <3>3. CASE /\ i - Len(a) \in DOMAIN b /\ c[i] = b[i - Len(a)]
               /\ j - Len(a) \in DOMAIN b /\ c[j] = b[j - Len(a)]
      <4>1. i - Len(a) = j - Len(a)
        BY <2>1, <3>3 DEF IsInjective
      <4> QED  BY <1>1, <1>2, <4>1
    <3> QED  BY <1>3, <2>1, <3>1, <3>2, <3>3
  <2> QED  BY <2>1 DEF IsInjective
<1>8. Range(c) = Range(a) \cup Range(b)
  <2>1. \A z \in Range(c) : z \in Range(a) \cup Range(b)
    BY <1>4 DEF Range
  <2> QED  BY <1>5, <1>6, <2>1
<1> QED  BY <1>1, <1>7, <1>8

(* What for_each_order visits are the orders in the queues.                *)
LEMMA VisitedAre ==
    ASSUME NEW h, NEW L, NEW Q, NEW F, NEW R, Sound(h, L, Q, F, {}, R)
    PROVE  Visited(h) = R
<1>1. Shaped(h, L, Q, F, {}, R) /\ InUse(L, Q, {}) /\ R = Queued(Q)
  BY DEF Sound, Shaped
<1>2. Q = QueuesOf(h)
  BY SoundIsWalked
<1>3. \A v \in LevelSlots : Queue(h, v) = Q[v]
  BY <1>2 DEF QueuesOf
<1>4. \A s \in Sides : LevelList(h, s) = L[s] /\ Range(L[s]) \subseteq LevelSlots
  BY <1>1, ListParts
<1>5. UNION {Range(LevelList(h, s)) : s \in Sides} = Listed(L) /\ Listed(L) \subseteq LevelSlots
  BY <1>4 DEF Listed
<1>6. Visited(h) = UNION {Range(Q[v]) : v \in Listed(L)}
  BY <1>3, <1>5 DEF Visited
<1>7. ASSUME NEW v \in LevelSlots, NEW o \in Range(Q[v]) PROVE v \in Listed(L)
  <2>1. Q[v] # <<>>
    <3>1. ASSUME Q[v] = <<>> PROVE FALSE
      BY <3>1 DEF Range
    <3> QED  BY <3>1
  <2> QED  BY <1>1, <2>1 DEF InUse
<1>8. \A o : o \in Visited(h) <=> o \in Queued(Q)
  BY <1>5, <1>6, <1>7 DEF Queued
<1> QED  BY <1>1, <1>8

(* clear_levels.                                                           *)
Both(h) == LevelList(h, "Buy") \o LevelList(h, "Sell")

Cleared(h, g) ==
    /\ g = [orders |-> g.orders, levels |-> g.levels, pool |-> g.pool, book |-> g.book]
    /\ g.orders = [o \in OrderSlots |-> IF o \in Visited(h) THEN BlankOrder ELSE h.orders[o]]
    /\ g.levels = [v \in LevelSlots |-> IF v \in Range(Both(h)) THEN BlankLevel ELSE h.levels[v]]
    /\ \E f : Releases(f, h.pool, Both(h), Len(Both(h))) /\ g.pool = f[Len(Both(h))]
    /\ g.book = EmptyBook

NoLists == [s \in Sides |-> <<>>]
NoQueues == [v \in LevelSlots |-> <<>>]

(* Nothing hangs off Null.                                                 *)
LEMMA NothingThere ==
    /\ \A mem : Chain(mem, Null, <<>>)
    /\ LastOf(<<>>) = Null /\ Len(<<>>) = 0 /\ Range(<<>>) = {}
    /\ \A T : <<>> \in Seq(T)
<1>1. \A T : <<>> \in Seq(T)
  BY EmptySeq
<1>2. Len(<<>>) = 0 /\ DOMAIN <<>> = 1..0
  OBVIOUS
<1>3. IsInjective(<<>>) /\ Range(<<>>) = {}
  BY <1>2 DEF IsInjective, Range
<1> QED  BY <1>1, <1>2, <1>3 DEF Chain, LastOf

(* The parts of an empty book.                                             *)
LEMMA EmptyBookIs ==
    /\ EmptyBook \in Books /\ EmptyBook.nOrders = 0
    /\ \A s \in Sides : EmptyBook.best[s] = Null /\ EmptyBook.nLevels[s] = 0
    /\ \A s \in Sides, p \in Prices : EmptyBook.map[s][p] = Null
<1> QED  BY DEF EmptyBook, Books

(* A heap with nothing in it is sound.                                     *)
LEMMA NothingIsSound ==
    ASSUME NEW g \in Heaps, g.book = EmptyBook,
           \A v \in LevelSlots : SameLevel(g.levels[v], BlankLevel),
           NEW F, Path(g.pool.word, g.pool.head, F), Range(F) = LevelSlots
    PROVE  Sound(g, NoLists, NoQueues, F, {}, {})
<1>1. /\ \A s \in Sides : NoLists[s] = <<>>
      /\ \A v \in LevelSlots : NoQueues[v] = <<>>
      /\ NoLists \in [Sides -> Seq(LevelSlots)] /\ NoQueues \in [LevelSlots -> Seq(OrderSlots)]
  BY NothingThere DEF NoLists, NoQueues
<1>2. Listed(NoLists) = {} /\ Queued(NoQueues) = {}
  BY <1>1, NothingThere DEF Listed, Queued
<1>3. \A v \in LevelSlots : /\ g.levels[v].head = Null /\ g.levels[v].tail = Null
                            /\ g.levels[v].count = 0 /\ g.levels[v].total = 0
  BY DEF SameLevel, BlankLevel
<1>4. QueuesIn(g, NoQueues)
  <2>1. \A v \in LevelSlots : /\ Chain(g.orders, g.levels[v].head, NoQueues[v])
                              /\ g.levels[v].tail = LastOf(NoQueues[v])
                              /\ g.levels[v].count = Len(NoQueues[v])
                              /\ Range(NoQueues[v]) = {}
    BY <1>1, <1>3, NothingThere
  <2> QED  BY <1>1, <2>1 DEF QueuesIn
<1>5. TotalsIn(g, NoQueues)
  BY <1>1, <1>3, SharesOfNone DEF TotalsIn
<1>6. ListsIn(g, NoLists)
  <2>1. \A s \in Sides : /\ Chain(g.levels, g.book.best[s], NoLists[s])
                         /\ g.book.nLevels[s] = Len(NoLists[s])
                         /\ Range(NoLists[s]) = {}
    BY <1>1, EmptyBookIs, NothingThere
  <2> QED  BY <1>1, <2>1 DEF ListsIn
<1>7. InUse(NoLists, NoQueues, {}) /\ FreeIn(g, NoLists, F)
  BY <1>1, <1>2 DEF InUse, FreeIn
<1>8. \A s \in Sides : Range(NoLists[s]) = {} /\ DOMAIN NoLists[s] = {}
  <2>1. DOMAIN <<>> = {}
    OBVIOUS
  <2> QED  BY <1>1, <2>1, NothingThere
<1>9. HomesIn(g, NoLists, NoQueues) /\ SortedIn(g, NoLists)
  BY <1>8 DEF HomesIn, SortedIn
<1>10. MapsIn(g, NoLists)
  BY <1>8, EmptyBookIs DEF MapsIn
<1> QED  BY <1>2, <1>4, <1>5, <1>6, <1>7, <1>9, <1>10 DEF Sound, Shaped

(* All levels and all orders are given back.                               *)
LEMMA ClearKeeps ==
    ASSUME NEW h, NEW L, NEW Q, NEW F, NEW R, Sound(h, L, Q, F, {}, R),
           NEW g, Cleared(h, g)
    PROVE  \E F2 : Sound(g, NoLists, NoQueues, F2, {}, {})
<1>1. /\ Shaped(h, L, Q, F, {}, R) /\ InUse(L, Q, {}) /\ FreeIn(h, L, F)
      /\ h \in Heaps /\ QueuesIn(h, Q) /\ TotalsIn(h, Q) /\ ListsIn(h, L)
  BY DEF Sound, Shaped
<1>2. PICK list : list = Both(h)
  OBVIOUS
<1>3. list \in Seq(LevelSlots) /\ IsInjective(list) /\ Range(list) = Listed(L)
  <2>1. PICK a : a = L["Buy"]
    OBVIOUS
  <2>2. PICK b : b = L["Sell"]
    OBVIOUS
  <2>3. "Buy" \in Sides /\ "Sell" \in Sides /\ Sides = {"Buy", "Sell"}
    BY DEF Sides
  <2>4. JoinOf(list, a, b)
    BY <1>1, <1>2, <2>1, <2>2, <2>3, ListParts DEF Both, JoinOf
  <2>5. a \in Seq(LevelSlots) /\ b \in Seq(LevelSlots) /\ IsInjective(a) /\ IsInjective(b)
    BY <1>1, <2>1, <2>2, <2>3 DEF ListsIn, Chain
  <2>6. Apart(a, b)
    BY <1>1, <2>1, <2>2, <2>3 DEF ListsIn, Apart
  <2>7. Listed(L) = Range(a) \cup Range(b)
    BY <2>1, <2>2, <2>3 DEF Listed
  <2>8. list \in Seq(LevelSlots) /\ IsInjective(list) /\ Range(list) = Range(a) \cup Range(b)
    <3>1. PICK T : T = LevelSlots
      OBVIOUS
    <3>2. a \in Seq(T) /\ b \in Seq(T)
      BY <2>5, <3>1
    <3>3. list \in Seq(T) /\ IsInjective(list) /\ Range(list) = Range(a) \cup Range(b)
      BY <2>4, <2>5, <2>6, <3>2, JoinedIs
    <3> QED  BY <3>1, <3>3
  <2> QED  BY <2>7, <2>8
<1>4. h.pool \in Pools /\ h.orders \in OrderMem /\ h.levels \in LevelMem
  BY <1>1, HeapParts
<1>5. PICK f : Releases(f, h.pool, list, Len(list)) /\ g.pool = f[Len(list)]
  BY <1>2 DEF Cleared
<1>6. PICK F2 : Path(g.pool.word, g.pool.head, F2) /\ Range(F2) = LevelSlots
  <2>1. Path(h.pool.word, h.pool.head, F) /\ Range(F) = LevelSlots \ Listed(L)
    BY <1>1 DEF FreeIn
  <2>2. PICK pl \in Pools : pl = h.pool
    BY <1>4
  <2>3. Range(list) \cap Range(F) = {}
    BY <1>3, <2>1
  <2>4. \E more : /\ Path(f[Len(list)].word, f[Len(list)].head, more)
                  /\ Range(more) = Range(F) \cup Range(list)
    BY <1>3, <1>5, <2>1, <2>2, <2>3, ReleaseAll
  <2>5. Listed(L) \subseteq LevelSlots
    BY <1>1, ListParts DEF Listed
  <2> QED  BY <1>3, <1>5, <2>1, <2>4, <2>5
<1>7. g.pool \in Pools
  <2>1. Path(h.pool.word, h.pool.head, F) /\ Range(F) = LevelSlots \ Listed(L)
    BY <1>1 DEF FreeIn
  <2>2. PICK pl \in Pools : pl = h.pool
    BY <1>4
  <2>3. Range(list) \cap Range(F) = {}
    BY <1>3, <2>1
  <2> QED  BY <1>3, <1>5, <2>1, <2>2, <2>3, ReleaseAll
<1>8. /\ BlankOrder \in OrderRecords /\ BlankLevel \in LevelRecords
  BY DEF BlankOrder, BlankLevel, OrderRecords, LevelRecords, Sides
<1>9. g.orders \in OrderMem /\ g.levels \in LevelMem /\ g.book = EmptyBook
  BY <1>4, <1>8 DEF Cleared, OrderMem, LevelMem
<1>10. g \in Heaps
  <2>1. EmptyBook \in Books
    BY EmptyBookIs
  <2>2. g = [orders |-> g.orders, levels |-> g.levels, pool |-> g.pool, book |-> g.book]
    BY DEF Cleared
  <2> QED  BY <1>7, <1>9, <2>1, <2>2 DEF Heaps, OrderMem, LevelMem
<1>11. ASSUME NEW v \in LevelSlots PROVE SameLevel(g.levels[v], BlankLevel)
  <2>1. g.levels[v] = IF v \in Range(list) THEN BlankLevel ELSE h.levels[v]
    BY <1>2 DEF Cleared
  <2>2. CASE v \in Range(list)
    BY <2>1, <2>2 DEF SameLevel
  <2>3. CASE v \notin Range(list)
    <3>1. Q[v] = <<>>
      BY <1>1, <1>3, <2>3 DEF InUse
    <3>2. h.levels[v].head = Null
      BY <1>1, <3>1 DEF QueuesIn, Chain
    <3>3. h.levels[v].tail = Null /\ h.levels[v].count = 0
      BY <1>1, <3>1, NothingThere DEF QueuesIn
    <3>4. h.levels[v].total = 0
      BY <1>1, <3>1, SharesOfNone DEF TotalsIn
    <3> QED  BY <2>1, <2>3, <3>2, <3>3, <3>4 DEF SameLevel, BlankLevel
  <2> QED  BY <2>2, <2>3
<1> QED  BY <1>6, <1>9, <1>10, <1>11, NothingIsSound

-----------------------------------------------------------------------------
(* The actions.                                                            *)

(* No level is opened that the map of its side would refuse.               *)
MapsHaveRoom ==
    \A s \in Sides, p \in Prices :
        book.map[s][p] # Null \/ Exhausted(pool) \/ RoomIn(book.map[s])

(* The amounts that execute_order takes away.                              *)
Reduced(h, v, o, k) == [h EXCEPT !.levels[v].total = @ - k, !.orders[o].shares = @ - k]

(* What execute_order and remove_order leave.                              *)
Executed(h, v, o, q) ==
    IF q >= h.orders[o].shares
    THEN Detach(Reduced(h, v, o, h.orders[o].shares), v, o)
    ELSE Reduced(h, v, o, q)
Removed(h, v, o) == Detach([h EXCEPT !.levels[v].total = @ - h.orders[o].shares], v, o)

(* The actions, as functions of the heap.                                  *)
LEMMA AddWrites ==
    ASSUME NEW o \in OrderSlots, NEW s \in Sides, NEW p \in Prices, NEW q \in Quantities,
           AddOrder(o, s, p, q), NEW h, h = Heap
    PROVE  /\ o \notin resting
           /\ FindLevel(h, s, p) # Null \/ h.pool.head # Null
           /\ Commit(Added(h, o, s, p, q))
           /\ resting' = resting \cup {o}
<1>1. h.pool = pool /\ h.book = book /\ Heap.pool = pool
  BY DEF Heap
<1>2. Commit(Added(h, o, s, p, q))
  <2>1. PICK new : new = [h EXCEPT !.orders[o] = [side |-> s, price |-> p, shares |-> q,
                                                  next |-> Null, prev |-> Null]]
    OBVIOUS
  <2>2. PICK found : found = FindLevel(new, s, p)
    OBVIOUS
  <2>3. PICK opened : opened = IF found = Null THEN OpenLevel(new, s, p) ELSE new
    OBVIOUS
  <2>4. PICK head : head = pool.head
    OBVIOUS
  <2>5. PICK v : v = IF found = Null THEN head ELSE found
    OBVIOUS
  <2>6. Commit([PushBack(opened, v, o) EXCEPT !.book.nOrders = @ + 1])
    BY <2>1, <2>2, <2>3, <2>4, <2>5 DEF AddOrder
  <2>7. Added(h, o, s, p, q) = [PushBack(opened, v, o) EXCEPT !.book.nOrders = @ + 1]
    BY <1>1, <2>1, <2>2, <2>3, <2>4, <2>5 DEF Added, Written
  <2> QED  BY <2>6, <2>7
<1>3. \A rec : FindLevel([h EXCEPT !.orders[o] = rec], s, p) = FindLevel(h, s, p)
  BY DEF FindLevel, Heap
<1>4. o \notin resting /\ resting' = resting \cup {o}
  BY DEF AddOrder
<1>5. FindLevel(h, s, p) # Null \/ h.pool.head # Null
  BY <1>1, <1>3 DEF AddOrder, Exhausted
<1> QED  BY <1>2, <1>4, <1>5

(* execute_order, as a function of the heap.                               *)
LEMMA ExecuteWrites ==
    ASSUME NEW o \in OrderSlots, NEW q \in Quantities, ExecuteOrder(o, q), NEW h, h = Heap,
           NEW v, v = FindLevel(h, h.orders[o].side, h.orders[o].price)
    PROVE  /\ o \in resting
           /\ Commit(Executed(h, v, o, q))
           /\ resting' = IF q >= h.orders[o].shares THEN resting \ {o} ELSE resting
<1>1. h.orders = orders
  BY DEF Heap
<1>2. o \in resting /\ resting' = IF q >= h.orders[o].shares THEN resting \ {o} ELSE resting
  BY <1>1 DEF ExecuteOrder
<1>3. Commit(Executed(h, v, o, q))
  BY <1>1 DEF ExecuteOrder, Executed, Reduced
<1> QED  BY <1>2, <1>3

(* remove_order, as a function of the heap.                                *)
LEMMA RemoveWrites ==
    ASSUME NEW o \in OrderSlots, RemoveOrder(o), NEW h, h = Heap,
           NEW v, v = FindLevel(h, h.orders[o].side, h.orders[o].price)
    PROVE  /\ o \in resting
           /\ Commit(Removed(h, v, o))
           /\ resting' = resting \ {o}
<1>1. h.orders = orders
  BY DEF Heap
<1> QED  BY <1>1 DEF RemoveOrder, Removed

(* clear_levels, as a relation between heaps.                              *)
LEMMA ClearWrites ==
    ASSUME ClearLevels, NEW h, h = Heap, Both(h) \in Seq(LevelSlots), NEW g, g = Heap'
    PROVE  Cleared(h, g) /\ resting' = resting \ Visited(h)
<1>1. /\ h.orders = orders /\ h.levels = levels /\ h.pool = pool
      /\ g.orders = orders' /\ g.levels = levels' /\ g.pool = pool' /\ g.book = book'
      /\ g = [orders |-> g.orders, levels |-> g.levels, pool |-> g.pool, book |-> g.book]
  BY DEF Heap
<1> DEFINE list == LevelList(Heap, "Buy") \o LevelList(Heap, "Sell")
           Rec(f) == f = [n \in 0..Len(list) |->
                             IF n = 0 THEN pool ELSE Release(f[n - 1], list[n])]
           released == CHOOSE f : Rec(f)
<1>2. list = Both(h)
  BY DEF Both
<1>3. /\ orders' = [o \in OrderSlots |->
                       IF o \in Visited(Heap) THEN BlankOrder ELSE orders[o]]
      /\ levels' = [v \in LevelSlots |->
                       IF v \in Range(list) THEN BlankLevel ELSE levels[v]]
      /\ pool' = released[Len(list)]
      /\ book' = EmptyBook
      /\ resting' = resting \ Visited(Heap)
  BY DEF ClearLevels
<1>4. \E f : Rec(f)
  <2>1. PICK seq \in Seq(LevelSlots) : seq = list
    BY <1>2
  <2>2. PICK m \in Nat : m = Len(seq)
    BY LenProperties
  <2>3. PICK p : p = pool
    OBVIOUS
  <2>4. PICK f : Releases(f, p, seq, m)
    BY ReleasesExist
  <2>5. Rec(f)
    BY <2>1, <2>2, <2>3, <2>4 DEF Releases
  <2> QED  BY <2>5
<1>5. Rec(released)
  BY <1>4
<1>6. Releases(released, h.pool, Both(h), Len(Both(h)))
  BY <1>1, <1>2, <1>5 DEF Releases
<1> QED  BY <1>1, <1>2, <1>3, <1>6 DEF Cleared

-----------------------------------------------------------------------------
(* The invariant holds, as long as no map refuses a level.                 *)

(* What is committed is the next heap.                                     *)
LEMMA CommitIs ==
    ASSUME NEW h \in Heaps, Commit(h)
    PROVE  Heap' = h
<1>1. h = [orders |-> h.orders, levels |-> h.levels, pool |-> h.pool, book |-> h.book]
  BY DEF Heaps
<1> QED  BY <1>1 DEF Commit, Heap

(* The heap and its lists.                                                 *)
InvOf(h, R) ==
    /\ Sound(h, ListsOf(h), QueuesOf(h), FreeList(h.pool), {}, R)
    /\ h.book.nOrders = Cardinality(R)

(* The invariant is about the heap and the resting orders only.            *)
LEMMA InvIs ==
    /\ \A h : h = Heap => (Inv <=> InvOf(h, resting))
    /\ \A h : h = Heap' => (Inv' <=> InvOf(h, resting'))
<1>1. Heap.pool = pool /\ Heap.book = book /\ (Heap.pool)' = pool' /\ (Heap.book)' = book'
  BY DEF Heap
<1>2. \A h : h = Heap => (Inv <=> InvOf(h, resting))
  BY <1>1 DEF Inv, InvOf
<1>3. Inv' <=> InvOf(Heap', resting')
  BY <1>1 DEF Inv, InvOf, ListsOf, QueuesOf, LevelList, Queue
<1> QED  BY <1>2, <1>3

(* Any lists will do.                                                      *)
LEMMA Settles ==
    ASSUME NEW h, NEW L, NEW Q, NEW F, NEW R, Sound(h, L, Q, F, {}, R),
           h.book.nOrders = Cardinality(R)
    PROVE  InvOf(h, R) /\ Q = QueuesOf(h)
<1>1. L = ListsOf(h) /\ Q = QueuesOf(h) /\ F = FreeList(h.pool)
  BY SoundIsWalked
<1> QED  BY <1>1 DEF InvOf

(* The orders that rest are finitely many slots.                           *)
LEMMA RestingIs ==
    ASSUME NEW h, NEW R, InvOf(h, R)
    PROVE  /\ R \subseteq OrderSlots /\ IsFiniteSet(R) /\ Cardinality(R) \in Nat
           /\ h \in Heaps /\ h.book.nOrders \in Int
<1>1. /\ QueuesIn(h, QueuesOf(h)) /\ R = Queued(QueuesOf(h)) /\ h \in Heaps
      /\ Shaped(h, ListsOf(h), QueuesOf(h), FreeList(h.pool), {}, R)
  BY DEF InvOf, Sound, Shaped
<1>2. \A v \in LevelSlots : Range(QueuesOf(h)[v]) \subseteq OrderSlots
  BY <1>1, ListParts
<1>3. R \subseteq OrderSlots
  BY <1>1, <1>2 DEF Queued
<1>4. IsFiniteSet(R) /\ Cardinality(R) \in Nat
  BY <1>3, SlotsAreFinite, FS_Subset, FS_CardinalityType
<1>5. h.book.nOrders \in Int
  BY <1>1, HeapParts DEF Books
<1> QED  BY <1>1, <1>3, <1>4, <1>5

(* add_order puts the order at the back of the queue of its price.         *)
LEMMA AddStep ==
    ASSUME NEW h, h = Heap, NEW g, g = Heap', NEW R, R = resting, InvOf(h, R),
           MapsHaveRoom,
           NEW o \in OrderSlots, NEW s \in Sides, NEW p \in Prices, NEW q \in Quantities,
           AddOrder(o, s, p, q), NEW Q, Q = QueuesOf(h)
    PROVE  /\ resting' = R \cup {o} /\ InvOf(g, R \cup {o})
           /\ \E v : /\ QueuesOf(g) = [Q EXCEPT ![v] = Append(@, o)]
                     /\ AddedIn(h, g, Q, o, s, p, q, v)
<1>1. /\ o \notin R /\ resting' = R \cup {o}
      /\ FindLevel(h, s, p) # Null \/ h.pool.head # Null
      /\ Commit(Added(h, o, s, p, q))
  BY AddWrites
<1>2. Sound(h, ListsOf(h), Q, FreeList(h.pool), {}, R) /\ h.book.nOrders = Cardinality(R)
  BY DEF InvOf
<1>3. FindLevel(h, s, p) # Null \/ (h.pool.head # Null /\ RoomIn(h.book.map[s]))
  BY <1>1 DEF MapsHaveRoom, Heap, FindLevel, Exhausted
<1>4. q \in Nat
  BY ValuesAreNat
<1>5. PICK a : a = Added(h, o, s, p, q)
  OBVIOUS
<1>6. PICK R2 : R2 = R \cup {o}
  OBVIOUS
<1>7. \E L2, F2, v : /\ Sound(a, L2, [Q EXCEPT ![v] = Append(@, o)], F2, {}, R \cup {o})
                     /\ AddedIn(h, a, Q, o, s, p, q, v)
  BY <1>1, <1>2, <1>3, <1>4, <1>5, AddKeeps
<1>8. PICK L2, F2, v : /\ Sound(a, L2, [Q EXCEPT ![v] = Append(@, o)], F2, {}, R \cup {o})
                       /\ AddedIn(h, a, Q, o, s, p, q, v)
  BY <1>7
<1>9. PICK Q2 : Q2 = [Q EXCEPT ![v] = Append(@, o)]
  OBVIOUS
<1>10. Sound(a, L2, Q2, F2, {}, R2)
  BY <1>6, <1>8, <1>9
<1>11. a = g
  <2>1. a \in Heaps
    BY <1>10 DEF Sound, Shaped
  <2>2. Commit(a)
    BY <1>1, <1>5
  <2> QED  BY <2>1, <2>2, CommitIs
<1>12. a.book.nOrders = Cardinality(R2)
  <2>1. IsFiniteSet(R)
    BY RestingIs
  <2>2. Cardinality(R2) = Cardinality(R) + 1
    BY <1>1, <1>6, <2>1, FS_AddElement
  <2> QED  BY <1>2, <1>8, <2>2 DEF AddedIn
<1>13. InvOf(a, R2) /\ Q2 = QueuesOf(a)
  BY <1>10, <1>12, Settles
<1> QED  BY <1>1, <1>6, <1>8, <1>9, <1>11, <1>13

(* The order o is gone.                                                    *)
GoneIn(h, g, Q, R, o) ==
    \E s \in Sides, p \in Prices, v \in LevelSlots :
        /\ v = h.book.map[s][p] /\ v # Null /\ o \in Range(Q[v])
        /\ LeftBy(h, g, s, p, v, Unlink(Q[v], o), o)
        /\ QueuesOf(g) = [Q EXCEPT ![v] = Unlink(Q[v], o)]
        /\ InvOf(g, R \ {o})

(* Detach takes the order out of its level, with whatever amounts are      *)
(* left.                                                                   *)
LEMMA DetachStep ==
    ASSUME NEW h, NEW R, InvOf(h, R), NEW o \in R, NEW Q, Q = QueuesOf(h),
           NEW v, v = FindLevel(h, h.orders[o].side, h.orders[o].price),
           NEW t, t = LeftTotal(h, v, o), NEW q \in Nat,
           NEW g, g = Detach(Amounts(h, v, o, t, q), v, o)
    PROVE  g \in Heaps /\ GoneIn(h, g, Q, R, o)
<1>1. Sound(h, ListsOf(h), Q, FreeList(h.pool), {}, R) /\ h.book.nOrders = Cardinality(R)
  BY DEF InvOf
<1>2. PICK L : L = ListsOf(h)
  OBVIOUS
<1>3. PICK F : F = FreeList(h.pool)
  OBVIOUS
<1>4. Sound(h, L, Q, F, {}, R)
  BY <1>1, <1>2, <1>3
<1>5. PICK s : s = h.orders[o].side
  OBVIOUS
<1>6. PICK p : p = h.orders[o].price
  OBVIOUS
<1>7. /\ s \in Sides /\ p \in Prices /\ o \in OrderSlots
      /\ v \in LevelSlots /\ v = FindLevel(h, s, p) /\ v # Null /\ v \in Range(L[s])
      /\ o \in Range(Q[v]) /\ p = h.pool.word[v]
  <2>1. /\ s \in Sides /\ p \in Prices /\ o \in OrderSlots
        /\ \E w \in LevelSlots :
              /\ w = FindLevel(h, s, p) /\ w # Null /\ w \in Range(L[s])
              /\ o \in Range(Q[w]) /\ h.pool.word[w] = p
    BY <1>4, <1>5, <1>6, FoundOrder
  <2>2. v = FindLevel(h, s, p)
    BY <1>5, <1>6
  <2> QED  BY <2>1, <2>2
<1>8. PICK r : r = Unlink(Q[v], o)
  OBVIOUS
<1>9. PICK i : i = Amounts(h, v, o, t, q)
  OBVIOUS
<1>10. g = Detach(i, v, o)
  BY <1>9
<1>11. /\ \E L2, F2 : Sound(g, L2, [Q EXCEPT ![v] = r], F2, {}, R \ {o})
       /\ LeftBy(h, g, s, p, v, r, o)
  BY <1>4, <1>7, <1>8, <1>9, <1>10, GoneKeeps
<1>12. PICK Q2 : Q2 = [Q EXCEPT ![v] = r]
  OBVIOUS
<1>13. PICK R2 : R2 = R \ {o}
  OBVIOUS
<1>14. PICK L2, F2 : Sound(g, L2, Q2, F2, {}, R2)
  BY <1>11, <1>12, <1>13
<1>15. g \in Heaps
  BY <1>14 DEF Sound, Shaped
<1>16. g.book.nOrders = Cardinality(R2)
  <2>1. IsFiniteSet(R) /\ Cardinality(R) \in Nat
    BY RestingIs
  <2>2. Cardinality(R2) = Cardinality(R) - 1
    BY <1>13, <2>1, FS_RemoveElement
  <2> QED  BY <1>1, <1>11, <2>2 DEF LeftBy
<1>17. InvOf(g, R2) /\ Q2 = QueuesOf(g)
  BY <1>14, <1>16, Settles
<1>18. v = h.book.map[s][p]
  BY <1>7 DEF FindLevel
<1> QED  BY <1>7, <1>8, <1>11, <1>12, <1>13, <1>15, <1>17, <1>18 DEF GoneIn

(* remove_order takes the order out.                                       *)
LEMMA RemoveStep ==
    ASSUME NEW h, h = Heap, NEW g, g = Heap', NEW R, R = resting, InvOf(h, R),
           NEW o \in OrderSlots, RemoveOrder(o), NEW Q, Q = QueuesOf(h)
    PROVE  resting' = R \ {o} /\ o \in R /\ GoneIn(h, g, Q, R, o)
<1>1. PICK v : v = FindLevel(h, h.orders[o].side, h.orders[o].price)
  OBVIOUS
<1>2. o \in R /\ Commit(Removed(h, v, o)) /\ resting' = R \ {o}
  BY <1>1, RemoveWrites
<1>3. h \in Heaps /\ h.orders \in OrderMem
  BY RestingIs, HeapParts
<1>4. h.orders[o].shares \in Nat
  BY <1>3 DEF OrderMem, OrderRecords
<1>5. PICK q \in Nat : q = h.orders[o].shares
  BY <1>4
<1>6. PICK t : t = LeftTotal(h, v, o)
  OBVIOUS
<1>7. PICK a : a = Removed(h, v, o)
  OBVIOUS
<1>8. a = Detach(Amounts(h, v, o, t, q), v, o)
  <2>1. [h EXCEPT !.levels[v].total = @ - h.orders[o].shares] = Amounts(h, v, o, t, q)
    <3>1. h.orders = [h.orders EXCEPT ![o].shares = q]
      BY <1>3, <1>5 DEF OrderMem, OrderRecords
    <3>2. PICK lv : lv = [h.levels EXCEPT ![v].total = t]
      OBVIOUS
    <3>3. [h EXCEPT !.levels[v].total = @ - h.orders[o].shares] = [h EXCEPT !.levels = lv]
      BY <1>3, <1>6, <3>2 DEF Heaps, LeftTotal
    <3>4. Amounts(h, v, o, t, q) = [h EXCEPT !.levels = lv, !.orders = [h.orders EXCEPT ![o].shares = q]]
      BY <1>3, <3>2 DEF Heaps, Amounts
    <3>5. [h EXCEPT !.levels = lv, !.orders = h.orders] = [h EXCEPT !.levels = lv]
      BY <1>3 DEF Heaps
    <3> QED  BY <3>1, <3>3, <3>4, <3>5
  <2> QED  BY <1>7, <2>1 DEF Removed
<1>9. a \in Heaps /\ GoneIn(h, a, Q, R, o)
  BY <1>1, <1>2, <1>6, <1>8, DetachStep
<1>10. a = g
  BY <1>2, <1>7, <1>9, CommitIs
<1> QED  BY <1>2, <1>9, <1>10

(* The order o has lost q shares, and nothing else has changed.            *)
FilledIn(h, g, Q, R, o, q) ==
    /\ q < h.orders[o].shares /\ g.orders[o].shares = h.orders[o].shares - q
    /\ \A z \in OrderSlots : z # o => g.orders[z] = h.orders[z]
    /\ g.book = h.book /\ QueuesOf(g) = Q /\ InvOf(g, R)

(* execute_order takes shares from an order, or the order.                 *)
LEMMA ExecuteStep ==
    ASSUME NEW h, h = Heap, NEW g, g = Heap', NEW R, R = resting, InvOf(h, R),
           NEW o \in OrderSlots, NEW q \in Quantities, ExecuteOrder(o, q),
           NEW Q, Q = QueuesOf(h)
    PROVE  /\ o \in R
           /\ \/ resting' = R \ {o} /\ GoneIn(h, g, Q, R, o)
              \/ resting' = R /\ FilledIn(h, g, Q, R, o, q)
<1>1. PICK v : v = FindLevel(h, h.orders[o].side, h.orders[o].price)
  OBVIOUS
<1>2. /\ o \in R /\ Commit(Executed(h, v, o, q))
      /\ resting' = IF q >= h.orders[o].shares THEN R \ {o} ELSE R
  BY <1>1, ExecuteWrites
<1>3. h \in Heaps /\ h.orders \in OrderMem /\ h.book.nOrders = Cardinality(R)
  BY RestingIs, HeapParts DEF InvOf
<1>4. h.orders[o].shares \in Nat /\ q \in Nat
  BY <1>3, ValuesAreNat DEF OrderMem, OrderRecords
<1>5. PICK a : a = Executed(h, v, o, q)
  OBVIOUS
<1>6. CASE q >= h.orders[o].shares
  <2>1. PICK t : t = LeftTotal(h, v, o)
    OBVIOUS
  <2>2. PICK k \in Nat : k = h.orders[o].shares - h.orders[o].shares
    BY <1>4
  <2>3. Reduced(h, v, o, h.orders[o].shares) = Amounts(h, v, o, t, k)
    BY <2>1, <2>2 DEF Reduced, Amounts, LeftTotal
  <2>4. a = Detach(Amounts(h, v, o, t, k), v, o)
    BY <1>5, <1>6, <2>3 DEF Executed
  <2>5. a \in Heaps /\ GoneIn(h, a, Q, R, o)
    BY <1>1, <1>2, <2>1, <2>4, DetachStep
  <2>6. a = g
    BY <1>2, <1>5, <2>5, CommitIs
  <2> QED  BY <1>2, <1>6, <2>5, <2>6
<1>7. CASE ~ (q >= h.orders[o].shares)
  <2>1. PICK t : t = h.levels[v].total - q
    OBVIOUS
  <2>2. PICK k : k = h.orders[o].shares - q
    OBVIOUS
  <2>3. a = Amounts(h, v, o, t, k)
    BY <1>5, <1>7, <2>1, <2>2 DEF Executed, Reduced, Amounts
  <2>4. PICK L : L = ListsOf(h)
    OBVIOUS
  <2>5. PICK F : F = FreeList(h.pool)
    OBVIOUS
  <2>6. Sound(h, L, Q, F, {}, R)
    BY <2>4, <2>5 DEF InvOf
  <2>7. v \in LevelSlots /\ o \in Range(Q[v])
    <3>1. PICK s : s = h.orders[o].side
      OBVIOUS
    <3>2. PICK p : p = h.orders[o].price
      OBVIOUS
    <3>3. \E w \in LevelSlots : w = FindLevel(h, s, p) /\ o \in Range(Q[w])
      BY <1>2, <2>6, <3>1, <3>2, FoundOrder
    <3> QED  BY <1>1, <3>1, <3>2, <3>3
  <2>8. q < h.orders[o].shares
    BY <1>4, <1>7
  <2>9. /\ Sound(a, L, Q, F, {}, R)
        /\ a.book = h.book /\ a.orders[o].shares = k
        /\ \A z \in OrderSlots : z # o => a.orders[z] = h.orders[z]
    BY <1>4, <2>1, <2>2, <2>3, <2>6, <2>7, <2>8, FillKeeps
  <2>10. a = g
    <3>1. a \in Heaps
      BY <2>9 DEF Sound, Shaped
    <3> QED  BY <1>2, <1>5, <3>1, CommitIs
  <2>11. InvOf(a, R) /\ Q = QueuesOf(a)
    BY <1>3, <2>9, Settles
  <2> QED  BY <1>2, <1>7, <2>2, <2>8, <2>9, <2>10, <2>11 DEF FilledIn
<1> QED  BY <1>6, <1>7

(* clear_levels empties the book.                                          *)
LEMMA ClearStep ==
    ASSUME NEW h, h = Heap, NEW g, g = Heap', NEW R, R = resting, InvOf(h, R), ClearLevels
    PROVE  resting' = {} /\ InvOf(g, {}) /\ QueuesOf(g) = NoQueues /\ g.book = EmptyBook
<1>1. PICK L : L = ListsOf(h)
  OBVIOUS
<1>2. PICK Q : Q = QueuesOf(h)
  OBVIOUS
<1>3. PICK F : F = FreeList(h.pool)
  OBVIOUS
<1>4. Sound(h, L, Q, F, {}, R)
  BY <1>1, <1>2, <1>3 DEF InvOf
<1>5. Both(h) \in Seq(LevelSlots)
  <2>1. \A s \in Sides : LevelList(h, s) \in Seq(LevelSlots)
    BY <1>4, ListParts DEF Sound
  <2>2. LevelList(h, "Buy") \in Seq(LevelSlots) /\ LevelList(h, "Sell") \in Seq(LevelSlots)
    BY <2>1 DEF Sides
  <2> QED  BY <2>2, ConcatProperties DEF Both
<1>6. Cleared(h, g) /\ resting' = R \ Visited(h)
  BY <1>5, ClearWrites
<1>7. resting' = {}
  BY <1>4, <1>6, VisitedAre
<1>8. PICK F2 : Sound(g, NoLists, NoQueues, F2, {}, {})
  BY <1>4, <1>6, ClearKeeps
<1>9. g.book = EmptyBook
  BY <1>6 DEF Cleared
<1>10. g.book.nOrders = Cardinality({})
  BY <1>9, EmptyBookIs, FS_EmptySet
<1>11. InvOf(g, {}) /\ NoQueues = QueuesOf(g)
  BY <1>8, <1>10, Settles
<1> QED  BY <1>7, <1>9, <1>11

(* A new pool links each slot to the one before.                           *)
LEMMA NewPoolIs ==
    ASSUME NEW pl, pl = NewPool(LevelCapacity)
    PROVE  pl \in Pools /\ \E F : Path(pl.word, pl.head, F) /\ Range(F) = LevelSlots
<1> DEFINE F == [i \in 1..LevelCapacity |-> LevelCapacity - i]
<1>1. LevelCapacity \in Nat /\ LevelSlots = 0..LevelCapacity - 1
  BY SizesAreNat DEF LevelSlots
<1>2. /\ pl.head = IF LevelCapacity = 0 THEN Null ELSE LevelCapacity - 1
      /\ DOMAIN pl.word = LevelSlots
      /\ \A i \in LevelSlots : pl.word[i] = IF i = 0 THEN Null ELSE i - 1
      /\ pl = [head |-> pl.head, word |-> pl.word]
      /\ pl.word = [i \in LevelSlots |-> pl.word[i]]
  BY <1>1 DEF NewPool
<1>3. pl \in Pools
  <2>1. pl.head \in LevelSlots \cup {Null}
    BY <1>1, <1>2
  <2>2. \A i \in LevelSlots : pl.word[i] \in Nat \cup {Null}
    BY <1>1, <1>2
  <2> QED  BY <1>2, <2>1, <2>2 DEF Pools
<1>4. /\ F \in Seq(LevelSlots) /\ Len(F) = LevelCapacity /\ DOMAIN F = 1..LevelCapacity
      /\ \A i \in 1..LevelCapacity : F[i] = LevelCapacity - i
  <2>1. F \in [1..LevelCapacity -> LevelSlots]
    BY <1>1
  <2>2. F \in Seq(LevelSlots) /\ Len(F) = LevelCapacity
    BY <1>1, <2>1, SeqOfLen
  <2> QED  BY <2>2
<1> HIDE DEF F
<1>5. IsInjective(F)
  BY <1>1, <1>4 DEF IsInjective
<1>6. pl.head = IF F = <<>> THEN Null ELSE F[1]
  <2>1. F = <<>> <=> LevelCapacity = 0
    BY <1>4, EmptySeq
  <2> QED  BY <1>1, <1>2, <1>4, <2>1
<1>7. ASSUME NEW i \in 1..Len(F)
      PROVE  pl.word[F[i]] = IF i = Len(F) THEN Null ELSE F[i + 1]
  <2>1. F[i] = LevelCapacity - i /\ F[i] \in LevelSlots
    BY <1>1, <1>4
  <2>2. CASE i = LevelCapacity
    BY <1>1, <1>2, <1>4, <2>1, <2>2
  <2>3. CASE i # LevelCapacity
    <3>1. i + 1 \in 1..LevelCapacity /\ LevelCapacity - i # 0
      BY <1>1, <1>4, <2>3
    <3>2. F[i + 1] = LevelCapacity - (i + 1)
      BY <1>4, <3>1
    <3> QED  BY <1>1, <1>2, <1>4, <2>1, <2>3, <3>1, <3>2
  <2> QED  BY <2>2, <2>3
<1>8. Path(pl.word, pl.head, F)
  BY <1>2, <1>4, <1>5, <1>6, <1>7 DEF Path
<1>9. Range(F) = LevelSlots
  <2>1. \A z \in Range(F) : z \in LevelSlots
    BY <1>1, <1>4 DEF Range
  <2>2. ASSUME NEW z \in LevelSlots PROVE z \in Range(F)
    <3>1. LevelCapacity - z \in 1..LevelCapacity /\ LevelCapacity - (LevelCapacity - z) = z
      BY <1>1
    <3> QED  BY <1>4, <3>1 DEF Range
  <2> QED  BY <2>1, <2>2
<1> QED  BY <1>3, <1>8, <1>9

(* A new book has no lists, and every level of the pool is free.           *)
LEMMA InitStep ==
    ASSUME Init, NEW h, h = Heap
    PROVE  resting = {} /\ InvOf(h, {}) /\ QueuesOf(h) = NoQueues /\ h.book = EmptyBook
<1>1. /\ h.orders = [o \in OrderSlots |-> BlankOrder]
      /\ h.levels = [v \in LevelSlots |-> BlankLevel]
      /\ h.pool = NewPool(LevelCapacity) /\ h.book = EmptyBook /\ resting = {}
      /\ h = [orders |-> h.orders, levels |-> h.levels, pool |-> h.pool, book |-> h.book]
  BY DEF Init, Heap
<1>2. BlankOrder \in OrderRecords /\ BlankLevel \in LevelRecords
  BY DEF BlankOrder, BlankLevel, OrderRecords, LevelRecords, Sides
<1>3. h.orders \in OrderMem /\ h.levels \in LevelMem
  BY <1>1, <1>2 DEF OrderMem, LevelMem
<1>4. PICK pl : pl = h.pool
  OBVIOUS
<1>5. PICK F : Path(pl.word, pl.head, F) /\ Range(F) = LevelSlots
  BY <1>1, <1>4, NewPoolIs
<1>6. pl \in Pools
  BY <1>1, <1>4, NewPoolIs
<1>7. h \in Heaps
  BY <1>1, <1>3, <1>4, <1>6, EmptyBookIs DEF Heaps, OrderMem, LevelMem
<1>8. \A v \in LevelSlots : SameLevel(h.levels[v], BlankLevel)
  BY <1>1 DEF SameLevel
<1>9. Sound(h, NoLists, NoQueues, F, {}, {})
  BY <1>1, <1>4, <1>5, <1>7, <1>8, NothingIsSound
<1>10. h.book.nOrders = Cardinality({})
  BY <1>1, EmptyBookIs, FS_EmptySet
<1>11. InvOf(h, {}) /\ NoQueues = QueuesOf(h)
  BY <1>9, <1>10, Settles
<1> QED  BY <1>1, <1>11

(* The constructor establishes the invariant.                              *)
LEMMA InitIsInv == Init => Inv
<1>1. SUFFICES ASSUME Init PROVE Inv
  OBVIOUS
<1>2. PICK h : h = Heap
  OBVIOUS
<1>3. resting = {} /\ InvOf(h, {})
  BY <1>1, <1>2, InitStep
<1> QED  BY <1>2, <1>3, InvIs

(* Every operation keeps the invariant, unless a map refuses a level.      *)
LEMMA StepKeepsInv == Inv /\ MapsHaveRoom /\ [Next]_vars => Inv'
<1>1. SUFFICES ASSUME Inv, MapsHaveRoom, [Next]_vars PROVE Inv'
  OBVIOUS
<1>2. PICK h : h = Heap
  OBVIOUS
<1>3. PICK g : g = Heap'
  OBVIOUS
<1>4. PICK R : R = resting
  OBVIOUS
<1>5. PICK Q : Q = QueuesOf(h)
  OBVIOUS
<1>6. InvOf(h, R)
  BY <1>1, <1>2, <1>4, InvIs
<1>7. SUFFICES InvOf(g, resting')
  BY <1>3, InvIs
<1>8. CASE ClearLevels
  BY <1>2, <1>3, <1>4, <1>6, <1>8, ClearStep
<1>9. ASSUME NEW o \in OrderSlots, RemoveOrder(o) PROVE InvOf(g, resting')
  <2>1. resting' = R \ {o} /\ GoneIn(h, g, Q, R, o)
    BY <1>2, <1>3, <1>4, <1>5, <1>6, <1>9, RemoveStep
  <2> QED  BY <2>1 DEF GoneIn
<1>10. ASSUME NEW o \in OrderSlots, NEW q \in Quantities, ExecuteOrder(o, q)
       PROVE  InvOf(g, resting')
  <2>1. \/ resting' = R \ {o} /\ GoneIn(h, g, Q, R, o)
        \/ resting' = R /\ FilledIn(h, g, Q, R, o, q)
    BY <1>2, <1>3, <1>4, <1>5, <1>6, <1>10, ExecuteStep
  <2> QED  BY <2>1 DEF GoneIn, FilledIn
<1>11. ASSUME NEW o \in OrderSlots, NEW q \in Quantities, NEW s \in Sides, NEW p \in Prices,
              AddOrder(o, s, p, q)
       PROVE  InvOf(g, resting')
  <2>1. resting' = R \cup {o} /\ InvOf(g, R \cup {o})
    BY <1>1, <1>2, <1>3, <1>4, <1>5, <1>6, <1>11, AddStep
  <2> QED  BY <2>1
<1>12. CASE UNCHANGED vars
  <2>1. g = h /\ resting' = R
    BY <1>2, <1>3, <1>4, <1>12 DEF vars, Heap
  <2> QED  BY <1>6, <2>1
<1> QED  BY <1>1, <1>8, <1>9, <1>10, <1>11, <1>12 DEF Next

(* The invariant of the book in memory: the links of orders and levels     *)
(* stand for lists, those lists partition the orders that rest and the     *)
(* levels of the pool, maps, totals and counts agree with them, for as     *)
(* long as FlatHashMap::insert never refuses a level, a result that        *)
(* insert_level_into_map does not look at.                                 *)
THEOREM InvHolds == Spec /\ []MapsHaveRoom => []Inv
  BY InitIsInv, StepKeepsInv, PTL DEF Spec

-----------------------------------------------------------------------------
(* What the invariant says.                                                *)

(* The lists the invariant speaks of are the ones the walks return.        *)
LEMMA InvLists ==
    ASSUME Inv, NEW h, h = Heap
    PROVE  \E L, Q, F :
              /\ Sound(h, L, Q, F, {}, resting)
              /\ \A s \in Sides : LevelList(h, s) = L[s]
              /\ \A v \in LevelSlots : Queue(h, v) = Q[v]
              /\ F = FreeList(h.pool)
<1>1. InvOf(h, resting)
  BY InvIs
<1>2. PICK L : L = ListsOf(h)
  OBVIOUS
<1>3. PICK Q : Q = QueuesOf(h)
  OBVIOUS
<1>4. PICK F : F = FreeList(h.pool)
  OBVIOUS
<1>5. Sound(h, L, Q, F, {}, resting)
  BY <1>1, <1>2, <1>3, <1>4 DEF InvOf
<1>6. \A s \in Sides : LevelList(h, s) = L[s]
  BY <1>2 DEF ListsOf
<1>7. \A v \in LevelSlots : Queue(h, v) = Q[v]
  BY <1>3 DEF QueuesOf
<1> QED  BY <1>4, <1>5, <1>6, <1>7

(* The invariant says of the queues what the run checks.                   *)
LEMMA InvImpliesQueuesLinked == Inv => QueuesLinked
<1>1. SUFFICES ASSUME Inv PROVE QueuesLinked
  OBVIOUS
<1>2. PICK h : h = Heap
  OBVIOUS
<1>3. PICK R : R = resting
  OBVIOUS
<1>4. PICK L, Q, F :
         /\ Sound(h, L, Q, F, {}, R)
         /\ \A s \in Sides : LevelList(h, s) = L[s]
         /\ \A v \in LevelSlots : Queue(h, v) = Q[v]
         /\ F = FreeList(h.pool)
  BY <1>1, <1>2, <1>3, InvLists
<1>5. /\ Shaped(h, L, Q, F, {}, R) /\ h \in Heaps /\ QueuesIn(h, Q) /\ TotalsIn(h, Q)
      /\ InUse(L, Q, {}) /\ HomesIn(h, L, Q)
  BY <1>4 DEF Sound, Shaped
<1>6. /\ Heap = h /\ h.orders = orders /\ h.levels = levels /\ h.pool = pool /\ h.book = book
  BY <1>2 DEF Heap
<1>7. book.nOrders = Cardinality(resting)
  BY <1>1 DEF Inv
<1>8. resting = Visited(Heap)
  BY <1>3, <1>4, <1>6, VisitedAre
<1>9. ASSUME NEW s \in Sides, NEW v \in Linked(s)
      PROVE  /\ Mirrored(orders, Queue(Heap, v))
             /\ levels[v].count = Len(Queue(Heap, v)) /\ Queue(Heap, v) # <<>>
             /\ levels[v].tail = Queue(Heap, v)[Len(Queue(Heap, v))]
             /\ levels[v].total = SharesOf(Queue(Heap, v))
             /\ \A o \in Range(Queue(Heap, v)) :
                    orders[o].side = s /\ orders[o].price = pool.word[v]
  <2>1. v \in Range(L[s]) /\ v \in LevelSlots
    <3>1. v \in Range(L[s])
      BY <1>4, <1>6, <1>9 DEF Linked
    <3> QED  BY <1>5, <3>1, ListParts
  <2>2. Queue(Heap, v) = Q[v]
    BY <1>4, <1>6, <2>1
  <2>3. Q[v] # <<>>
    <3>1. v \in Listed(L)
      BY <2>1 DEF Listed
    <3> QED  BY <1>5, <2>1, <3>1 DEF InUse
  <2>4. Mirrored(orders, Q[v])
    <3>1. Chain(h.orders, h.levels[v].head, Q[v])
      BY <1>5, <2>1 DEF QueuesIn
    <3>2. DOMAIN h.orders = OrderSlots
      BY <1>5, HeapParts
    <3> QED  BY <1>6, <3>1, <3>2, Slots, ChainIsWalked
  <2>5. levels[v].count = Len(Q[v]) /\ levels[v].tail = Q[v][Len(Q[v])]
    BY <1>5, <1>6, <2>1, <2>3 DEF QueuesIn, LastOf
  <2>6. levels[v].total = SharesOf(Q[v])
    BY <1>5, <1>6, <2>1 DEF TotalsIn, SharesIn, SharesOf, Total
  <2>7. \A o \in Range(Q[v]) : orders[o].side = s /\ orders[o].price = pool.word[v]
    BY <1>5, <1>6, <2>1 DEF HomesIn
  <2> QED  BY <2>2, <2>3, <2>4, <2>5, <2>6, <2>7
<1> QED  BY <1>7, <1>8, <1>9 DEF QueuesLinked

(* The invariant says of the levels what the run checks.                   *)
LEMMA InvImpliesLevelsLinked == Inv => LevelsLinked
<1>1. SUFFICES ASSUME Inv PROVE LevelsLinked
  OBVIOUS
<1>2. PICK h : h = Heap
  OBVIOUS
<1>3. PICK L, Q, F :
         /\ Sound(h, L, Q, F, {}, resting)
         /\ \A s \in Sides : LevelList(h, s) = L[s]
         /\ \A v \in LevelSlots : Queue(h, v) = Q[v]
         /\ F = FreeList(h.pool)
  BY <1>1, <1>2, InvLists
<1>4. h \in Heaps /\ ListsIn(h, L) /\ MapsIn(h, L) /\ SortedIn(h, L)
  BY <1>3 DEF Sound, Shaped
<1>5. /\ Heap = h /\ h.levels = levels /\ h.pool = pool /\ h.book = book
  BY <1>2 DEF Heap
<1>6. ASSUME NEW s \in Sides, NEW list, list = LevelList(Heap, s)
      PROVE  /\ Mirrored(levels, list)
             /\ book.nLevels[s] = Len(list)
             /\ \A i, j \in DOMAIN list : i < j =>
                   IF s = "Buy" THEN pool.word[list[i]] > pool.word[list[j]]
                                ELSE pool.word[list[i]] < pool.word[list[j]]
             /\ \A i \in DOMAIN list : book.map[s][pool.word[list[i]]] = list[i]
             /\ \A p \in Prices : book.map[s][p] # Null => book.map[s][p] \in Range(list)
  <2>1. list = L[s]
    BY <1>3, <1>5, <1>6
  <2>2. Chain(h.levels, h.book.best[s], list) /\ book.nLevels[s] = Len(list)
    BY <1>4, <1>5, <2>1 DEF ListsIn
  <2>3. DOMAIN h.levels = LevelSlots
    BY <1>4, HeapParts
  <2>4. Mirrored(levels, list)
    BY <1>5, <2>2, <2>3, Slots, ChainIsWalked
  <2>5. \A i, j \in DOMAIN list : i < j => Before(s, pool.word[list[i]], pool.word[list[j]])
    BY <1>4, <1>5, <2>1 DEF SortedIn
  <2>6. \A i \in DOMAIN list : list[i] \in Range(list)
    BY DEF Range
  <2>7. /\ \A i \in DOMAIN list : book.map[s][pool.word[list[i]]] = list[i]
        /\ \A p \in Prices : book.map[s][p] # Null => book.map[s][p] \in Range(list)
    BY <1>4, <1>5, <2>1, <2>6 DEF MapsIn
  <2> QED  BY <2>2, <2>4, <2>5, <2>7 DEF Before
<1> QED  BY <1>6 DEF LevelsLinked

(* The invariant says of the pool what the run checks.                     *)
LEMMA InvImpliesFreeListWhole == Inv => FreeListWhole
<1>1. SUFFICES ASSUME Inv PROVE FreeListWhole
  OBVIOUS
<1>2. PICK h : h = Heap
  OBVIOUS
<1>3. PICK L, Q, F :
         /\ Sound(h, L, Q, F, {}, resting)
         /\ \A s \in Sides : LevelList(h, s) = L[s]
         /\ \A v \in LevelSlots : Queue(h, v) = Q[v]
         /\ F = FreeList(h.pool)
  BY <1>1, <1>2, InvLists
<1>4. FreeIn(h, L, F)
  BY <1>3 DEF Sound, Shaped
<1>5. F = FreeList(pool) /\ \A s \in Sides : Linked(s) = Range(L[s])
  BY <1>2, <1>3 DEF Heap, Linked
<1>6. UNION {Linked(s) : s \in Sides} = Listed(L)
  BY <1>5 DEF Listed
<1> QED  BY <1>4, <1>5, <1>6 DEF FreeIn, Path, FreeListWhole

(* PriceLevel::push_back and unlink keep every queue linked in both        *)
(* directions, with head_order, tail_order, order_count and total_shares   *)
(* right, and each order that rests is in exactly the queues the walks     *)
(* reach.                                                                  *)
THEOREM QueuesStayLinked == Spec /\ []MapsHaveRoom => []QueuesLinked
  BY InvHolds, InvImpliesQueuesLinked, PTL

(* insert_level_sorted and remove_level_from_list keep the levels of a     *)
(* side linked in both directions, strictly from best to worst, and the    *)
(* map of the side finds exactly those levels.                             *)
THEOREM LevelsStayLinked == Spec /\ []MapsHaveRoom => []LevelsLinked
  BY InvHolds, InvImpliesLevelsLinked, PTL

(* MemoryPool hands a level out once and loses none: the free list inside  *)
(* the slots holds the levels that are in neither list, each once,         *)
(* although add_order and clear_levels write over the links.               *)
THEOREM FreeListStaysWhole == Spec /\ []MapsHaveRoom => []FreeListWhole
  BY InvHolds, InvImpliesFreeListWhole, PTL

-----------------------------------------------------------------------------
(* A map with room for every price never refuses one: no more prices in    *)
(* use than kPriceLevelMapCapacity.                                        *)
THEOREM RoomForPrices ==
    ASSUME Cardinality(Prices) <= MapCapacity
    PROVE  Spec => []MapsHaveRoom
<1>1. MapsHaveRoom
  <2>1. SUFFICES ASSUME NEW s \in Sides, NEW p \in Prices, book.map[s][p] = Null
                 PROVE  RoomIn(book.map[s])
    BY DEF MapsHaveRoom
  <2>2. PICK K : K = {k \in Prices : book.map[s][k] # Null}
    OBVIOUS
  <2>3. K \subseteq Prices \ {p}
    BY <2>1, <2>2
  <2>4. /\ IsFiniteSet(Prices) /\ IsFiniteSet(Prices \ {p})
        /\ Cardinality(Prices) \in Nat /\ Cardinality(Prices \ {p}) = Cardinality(Prices) - 1
    BY SlotsAreFinite, FS_RemoveElement, FS_CardinalityType
  <2>5. Cardinality(K) <= Cardinality(Prices \ {p}) /\ Cardinality(K) \in Nat
    BY <2>3, <2>4, FS_Subset, FS_CardinalityType
  <2>6. Cardinality(K) < MapCapacity
    BY <2>4, <2>5, SizesAreNat
  <2> QED  BY <2>2, <2>6 DEF RoomIn
<1>2. []MapsHaveRoom
  BY <1>1, PTL
<1> QED  BY <1>2, PTL

(* Neither does a map with room for every level of the pool: while a level *)
(* is free, fewer than all of them are mapped.                             *)
LEMMA LevelsFit ==
    ASSUME LevelCapacity <= MapCapacity, Inv
    PROVE  MapsHaveRoom
<1>1. SUFFICES ASSUME NEW s \in Sides, ~ Exhausted(pool)
               PROVE  RoomIn(book.map[s])
  BY DEF MapsHaveRoom
<1>2. PICK h : h = Heap
  OBVIOUS
<1>3. PICK L, Q, F : Sound(h, L, Q, F, {}, resting)
  BY <1>2, InvLists
<1>4. h \in Heaps /\ FreeIn(h, L, F) /\ MapsIn(h, L) /\ Shaped(h, L, Q, F, {}, resting)
  BY <1>3 DEF Sound, Shaped
<1>5. h.pool = pool /\ h.book = book
  BY <1>2 DEF Heap
<1>6. PICK v : v = pool.head
  OBVIOUS
<1>7. v \in LevelSlots /\ v \notin Range(L[s])
  <2>1. Path(h.pool.word, v, F) /\ v # Null
    BY <1>1, <1>4, <1>5, <1>6 DEF FreeIn, Exhausted
  <2>2. PICK link : link = h.pool.word
    OBVIOUS
  <2>3. Path(link, v, F) /\ DOMAIN link = LevelSlots
    BY <1>4, <2>1, <2>2, HeapParts
  <2>4. v \in Range(F)
    <3>1. F # <<>> /\ v = F[1] /\ F \in Seq(LevelSlots)
      BY <2>1, <2>3 DEF Path
    <3>2. 1 \in DOMAIN F
      BY <3>1, LenProperties, EmptySeq
    <3> QED  BY <3>1, <3>2 DEF Range
  <2>5. Range(F) = LevelSlots \ Listed(L)
    BY <1>4 DEF FreeIn
  <2> QED  BY <2>4, <2>5 DEF Listed
<1>8. PICK K : K = {k \in Prices : book.map[s][k] # Null}
  OBVIOUS
<1>9. PICK f : f = [k \in K |-> book.map[s][k]]
  OBVIOUS
<1>10. PICK T : T = LevelSlots \ {v}
  OBVIOUS
<1>11. ASSUME NEW k \in K PROVE f[k] \in T /\ h.pool.word[f[k]] = k
  <2>1. f[k] = h.book.map[s][k] /\ k \in Prices /\ f[k] # Null
    BY <1>5, <1>8, <1>9
  <2>2. f[k] \in Range(L[s]) /\ h.pool.word[f[k]] = k
    BY <1>4, <2>1 DEF MapsIn
  <2>3. Range(L[s]) \subseteq LevelSlots
    BY <1>4, ListParts
  <2> QED  BY <1>7, <1>10, <2>2, <2>3
<1>12. f \in Injection(K, T)
  <2>1. f \in [K -> T]
    BY <1>9, <1>11
  <2>2. \A a, b \in K : f[a] = f[b] => a = b
    BY <1>11
  <2> QED  BY <2>1, <2>2 DEF Injection, IsInjective
<1>13. IsFiniteSet(LevelSlots) /\ Cardinality(LevelSlots) = LevelCapacity
  BY SizesAreNat, FS_Interval DEF LevelSlots
<1>14. IsFiniteSet(T) /\ Cardinality(T) = LevelCapacity - 1
  BY <1>7, <1>10, <1>13, FS_RemoveElement
<1>15. Cardinality(K) <= Cardinality(T) /\ Cardinality(K) \in Nat
  BY <1>12, <1>14, FS_Injection, FS_CardinalityType
<1> QED  BY <1>8, <1>14, <1>15, SizesAreNat DEF RoomIn

(* A pool of levels that the maps of both sides could hold never sees one  *)
(* of them refused: kPriceLevelPoolSize <= kPriceLevelMapCapacity.         *)
THEOREM RoomForLevels ==
    ASSUME LevelCapacity <= MapCapacity
    PROVE  Spec => []MapsHaveRoom
<1>1. Init => Inv
  BY InitIsInv
<1>2. Inv => MapsHaveRoom
  BY LevelsFit
<1>3. Inv /\ [Next]_vars => Inv'
  BY StepKeepsInv, LevelsFit
<1> QED  BY <1>1, <1>2, <1>3, PTL DEF Spec

-----------------------------------------------------------------------------
(***************************************************************************)
(* The market.  View(h) is the market that heap h shows.                   *)
(***************************************************************************)
Entry(h, o) == [id |-> o, shares |-> h.orders[o].shares]
Shows(h) == [o \in OrderSlots |-> Entry(h, o)]

(* The queue of a price, of slots, and what it shows.                      *)
FoundQueue(h, s, p) ==
    IF h.book.map[s][p] = Null THEN <<>> ELSE QueuesOf(h)[h.book.map[s][p]]
QueueAt(h, s, p) == Mapped(FoundQueue(h, s, p), Shows(h))
View(h) == [l \in {1} |-> [s \in Sides |-> [p \in Prices |-> QueueAt(h, s, p)]]]

(* A market with queue x at one place.                                     *)
With(M, s, p, x) == [M EXCEPT ![1][s] = [@ EXCEPT ![p] = x]]

(* The parts of the invariant, for the lists at hand.                      *)
LEMMA InvOfIs ==
    ASSUME NEW h, NEW R, InvOf(h, R), NEW Q, Q = QueuesOf(h)
    PROVE  \E L, F : Sound(h, L, Q, F, {}, R) /\ Shaped(h, L, Q, F, {}, R)
<1>1. PICK L : L = ListsOf(h)
  OBVIOUS
<1>2. PICK F : F = FreeList(h.pool)
  OBVIOUS
<1>3. Sound(h, L, Q, F, {}, R)
  BY <1>1, <1>2 DEF InvOf
<1> QED  BY <1>3 DEF Sound

(* The queue of a price holds orders that rest, each once.                 *)
LEMMA FoundQueueIs ==
    ASSUME NEW h, NEW R, InvOf(h, R), NEW s \in Sides, NEW p \in Prices
    PROVE  /\ FoundQueue(h, s, p) \in Seq(OrderSlots) /\ Range(FoundQueue(h, s, p)) \subseteq R
           /\ h.book.map[s][p] # Null => h.book.map[s][p] \in LevelSlots
<1>1. PICK Q : Q = QueuesOf(h)
  OBVIOUS
<1>2. PICK L, F : Sound(h, L, Q, F, {}, R) /\ Shaped(h, L, Q, F, {}, R)
  BY <1>1, InvOfIs
<1>3. QueuesIn(h, Q) /\ R = Queued(Q) /\ MapsIn(h, L)
  BY <1>2 DEF Shaped
<1>4. h.book.map[s][p] # Null => h.book.map[s][p] \in LevelSlots
  BY <1>2, <1>3, ListParts DEF MapsIn
<1>5. \A v \in LevelSlots : Q[v] \in Seq(OrderSlots) /\ Range(Q[v]) \subseteq R
  BY <1>3 DEF QueuesIn, Queued
<1> QED  BY <1>1, <1>4, <1>5, NothingThere DEF FoundQueue

(* The mapped state is the view of the memory.                             *)
MarketOf(h) ==
    [l \in {1} |-> [s \in Sides |-> [p \in Prices |->
        LET v == h.book.map[s][p]
            queue == IF v = Null THEN <<>> ELSE Queue(h, v)
        IN  [i \in DOMAIN queue |-> [id |-> queue[i], shares |-> h.orders[queue[i]].shares]]]]]

(* Market is a function of the heap.                                       *)
LEMMA MarketOfIs == Market = MarketOf(Heap) /\ Market' = MarketOf(Heap')
<1>1. /\ Heap.book = book /\ Heap.orders = orders
      /\ Heap'.book = book' /\ Heap'.orders = orders'
  BY DEF Heap
<1>2. Market = MarketOf(Heap)
  BY <1>1, SMTT(30) DEF Market, MarketOf
<1>3. Market' = MarketOf(Heap')
  BY <1>1, SMTT(30) DEF Market, MarketOf, Queue
<1> QED  BY <1>2, <1>3

(* On lists, that function is the view.                                    *)
LEMMA ViewIs ==
    ASSUME NEW h, NEW R, InvOf(h, R)
    PROVE  MarketOf(h) = View(h)
<1>1. ASSUME NEW s \in Sides, NEW p \in Prices, NEW v, v = h.book.map[s][p],
             NEW queue, queue = IF v = Null THEN <<>> ELSE Queue(h, v)
      PROVE  [i \in DOMAIN queue |-> [id |-> queue[i], shares |-> h.orders[queue[i]].shares]]
                = QueueAt(h, s, p)
  <2>1. queue = FoundQueue(h, s, p)
    <3>1. v # Null => v \in LevelSlots
      BY <1>1, FoundQueueIs
    <3> QED  BY <1>1, <3>1 DEF FoundQueue, QueuesOf
  <2>2. queue \in Seq(OrderSlots)
    BY <2>1, FoundQueueIs
  <2>3. \A i \in DOMAIN queue : queue[i] \in OrderSlots
    BY <2>2, LenProperties, ElementOfSeq
  <2>4. \A i \in DOMAIN queue :
           Shows(h)[queue[i]] = [id |-> queue[i], shares |-> h.orders[queue[i]].shares]
    BY <2>3 DEF Shows, Entry
  <2> QED  BY <2>1, <2>4 DEF QueueAt, Mapped
<1> QED  BY <1>1 DEF MarketOf, View

(* The view at one place.                                                  *)
LEMMA ViewAt ==
    ASSUME NEW h, NEW s \in Sides, NEW p \in Prices
    PROVE  View(h)[1][s][p] = QueueAt(h, s, p)
  BY DEF View

(* One queue changes.                                                      *)
Elsewhere(h, g, s, p) ==
    \A t \in Sides, k \in Prices : t # s \/ k # p => QueueAt(g, t, k) = QueueAt(h, t, k)

(* Then the view changes at that place.                                    *)
LEMMA ViewChanges ==
    ASSUME NEW h, NEW g, NEW s \in Sides, NEW p \in Prices, Elsewhere(h, g, s, p)
    PROVE  View(g) = With(View(h), s, p, QueueAt(g, s, p))
<1>1. PICK x : x = QueueAt(g, s, p)
  OBVIOUS
<1>2. \A t \in Sides, k \in Prices :
         QueueAt(g, t, k) = IF t = s /\ k = p THEN x ELSE QueueAt(h, t, k)
  BY <1>1 DEF Elsewhere
<1>3. View(g) = [l \in {1} |-> [t \in Sides |-> [k \in Prices |->
                    IF t = s /\ k = p THEN x ELSE QueueAt(h, t, k)]]]
  BY <1>2 DEF View
<1>4. With(View(h), s, p, x) =
         [l \in {1} |-> [t \in Sides |-> [k \in Prices |->
             IF t = s /\ k = p THEN x ELSE QueueAt(h, t, k)]]]
  <2>1. PICK side : side = [k \in Prices |-> IF k = p THEN x ELSE QueueAt(h, s, k)]
    OBVIOUS
  <2>2. PICK rows : rows = [t \in Sides |-> [k \in Prices |-> QueueAt(h, t, k)]]
    OBVIOUS
  <2>3. [rows[s] EXCEPT ![p] = x] = side
    BY <2>1, <2>2
  <2>4. View(h) = [l \in {1} |-> rows]
    BY <2>2 DEF View
  <2>5. With(View(h), s, p, x) = [l \in {1} |-> [rows EXCEPT ![s] = side]]
    BY <2>3, <2>4 DEF With
  <2>6. [rows EXCEPT ![s] = side] =
           [t \in Sides |-> [k \in Prices |->
               IF t = s /\ k = p THEN x ELSE QueueAt(h, t, k)]]
    <3>1. \A t \in Sides : [rows EXCEPT ![s] = side][t] =
             [k \in Prices |-> IF t = s /\ k = p THEN x ELSE QueueAt(h, t, k)]
      BY <2>1, <2>2
    <3>2. [rows EXCEPT ![s] = side] = [t \in Sides |-> [rows EXCEPT ![s] = side][t]]
      BY <2>2
    <3> QED  BY <3>1, <3>2
  <2> QED  BY <2>5, <2>6
<1> QED  BY <1>1, <1>3, <1>4

(* A level is found at one price of one side, and an empty one nowhere.    *)
LEMMA FoundOnce ==
    ASSUME NEW h, NEW R, InvOf(h, R), NEW Q, Q = QueuesOf(h),
           NEW s \in Sides, NEW p \in Prices, NEW v \in LevelSlots,
           Q[v] = <<>> \/ h.book.map[s][p] = v
    PROVE  \A t \in Sides, k \in Prices : t # s \/ k # p => h.book.map[t][k] # v
<1>1. PICK L, F : Sound(h, L, Q, F, {}, R) /\ Shaped(h, L, Q, F, {}, R)
  BY InvOfIs
<1>2. MapsIn(h, L) /\ InUse(L, Q, {}) /\ ListsIn(h, L)
  BY <1>1 DEF Shaped
<1>3. SUFFICES ASSUME NEW t \in Sides, NEW k \in Prices, t # s \/ k # p, h.book.map[t][k] = v
               PROVE  FALSE
  OBVIOUS
<1>4. v # Null
  BY Slots
<1>5. v \in Range(L[t]) /\ h.pool.word[v] = k
  BY <1>2, <1>3, <1>4 DEF MapsIn
<1>6. Q[v] # <<>>
  BY <1>2, <1>5 DEF InUse, Listed
<1>7. v \in Range(L[s]) /\ h.pool.word[v] = p
  BY <1>2, <1>4, <1>6 DEF MapsIn
<1>8. s = t
  BY <1>2, <1>5, <1>7 DEF ListsIn
<1> QED  BY <1>3, <1>5, <1>7, <1>8

(* What is seen of a queue is what its orders show.                        *)
LEMMA MappedSame ==
    ASSUME NEW queue \in Seq(OrderSlots), NEW h, NEW g,
           \A z \in Range(queue) : g.orders[z].shares = h.orders[z].shares
    PROVE  Mapped(queue, Shows(g)) = Mapped(queue, Shows(h))
<1>1. ASSUME NEW i \in DOMAIN queue PROVE Shows(g)[queue[i]] = Shows(h)[queue[i]]
  <2>1. queue[i] \in Range(queue) /\ queue[i] \in OrderSlots
    BY LenProperties, ElementOfSeq DEF Range
  <2> QED  BY <2>1 DEF Shows, Entry
<1> QED  BY <1>1 DEF Mapped

(* A step that concerns order o, at level v, price p of side s, only.      *)
Concerns(h, g, Q, s, p, v, o) ==
    /\ v \in LevelSlots
    /\ \A t \in Sides, k \in Prices : t # s \/ k # p =>
          g.book.map[t][k] = h.book.map[t][k] /\ h.book.map[t][k] # v
    /\ \A w \in LevelSlots : w # v => QueuesOf(g)[w] = Q[w] /\ o \notin Range(Q[w])
    /\ \A z \in OrderSlots : z # o => g.orders[z].shares = h.orders[z].shares

(* Such a step changes the queue of that price only.                       *)
LEMMA ElsewhereSame ==
    ASSUME NEW h, NEW R, InvOf(h, R), NEW Q, Q = QueuesOf(h), NEW g,
           NEW s \in Sides, NEW p \in Prices, NEW v, NEW o, Concerns(h, g, Q, s, p, v, o)
    PROVE  Elsewhere(h, g, s, p)
<1>1. SUFFICES ASSUME NEW t \in Sides, NEW k \in Prices, t # s \/ k # p
               PROVE  QueueAt(g, t, k) = QueueAt(h, t, k)
  BY DEF Elsewhere
<1>2. g.book.map[t][k] = h.book.map[t][k] /\ h.book.map[t][k] # v
  BY <1>1 DEF Concerns
<1>3. PICK queue \in Seq(OrderSlots) : queue = FoundQueue(h, t, k)
  BY FoundQueueIs
<1>4. FoundQueue(g, t, k) = queue /\ o \notin Range(queue)
  <2>1. CASE h.book.map[t][k] = Null
    BY <1>2, <1>3, <2>1, NothingThere DEF FoundQueue
  <2>2. CASE h.book.map[t][k] # Null
    <3>1. PICK w : w = h.book.map[t][k]
      OBVIOUS
    <3>2. w \in LevelSlots /\ w # v
      BY <1>2, <2>2, <3>1, FoundQueueIs
    <3>3. QueuesOf(g)[w] = Q[w] /\ o \notin Range(Q[w])
      BY <3>2 DEF Concerns
    <3> QED  BY <1>2, <1>3, <2>2, <3>1, <3>3 DEF FoundQueue
  <2> QED  BY <2>1, <2>2
<1>5. \A z \in Range(queue) : g.orders[z].shares = h.orders[z].shares
  <2>1. \A z \in Range(queue) : z \in OrderSlots
    BY LenProperties, ElementOfSeq DEF Range
  <2> QED  BY <1>4, <2>1 DEF Concerns
<1> QED  BY <1>3, <1>4, <1>5, MappedSame DEF QueueAt

-----------------------------------------------------------------------------
(* A step of MarketBook, from market M to market N.                        *)
InMarket(M, id) ==
    \E s \in Sides, p \in Prices : \E e \in Range(M[1][s][p]) : e.id = id
Vacant == [s \in Sides |-> [p \in Prices |-> <<>>]]

JoinStep(M, N, s, p, o, q) ==
    /\ s \in Sides /\ p \in Prices /\ o \in OrderSlots /\ q \in Quantities
    /\ ~ InMarket(M, o)
    /\ N = With(M, s, p, Append(M[1][s][p], [id |-> o, shares |-> q]))
ShrinkStep(M, N, s, p, i, q) ==
    /\ s \in Sides /\ p \in Prices /\ q \in Quantities
    /\ i \in DOMAIN M[1][s][p]
    /\ q < M[1][s][p][i].shares
    /\ N = With(M, s, p, [M[1][s][p] EXCEPT ![i].shares = @ - q])
LeaveStep(M, N, s, p, e) ==
    /\ s \in Sides /\ p \in Prices
    /\ e \in Range(M[1][s][p])
    /\ N = With(M, s, p, Unlink(M[1][s][p], e))
MarketStep(M, N) ==
    \/ N = M
    \/ N = [M EXCEPT ![1] = Vacant]
    \/ \E s, p, o, q : JoinStep(M, N, s, p, o, q)
    \/ \E s, p, i, q : ShrinkStep(M, N, s, p, i, q)
    \/ \E s, p, e : LeaveStep(M, N, s, p, e)

(* The operators of the abstract book are those of this one.               *)
LEMMA SameOperators ==
    /\ \A f : MB!Range(f) = Range(f)
    /\ \A seq, e : MB!Unlink(seq, e) = Unlink(seq, e)
<1>1. \A f : MB!Range(f) = Range(f)
  BY DEF MB!Range, Range
<1>2. \A S : MB!Cardinality(S) = Cardinality(S)
  BY DEF MB!Cardinality, Cardinality
<1>3. \A seq, S : MB!LeadingRun(seq, S) = LeadingRun(seq, S)
  BY <1>2 DEF MB!LeadingRun, LeadingRun
<1>4. \A seq, e : MB!Unlink(seq, e) = Unlink(seq, e)
  BY <1>1, <1>3 DEF MB!Unlink, Unlink
<1> QED  BY <1>1, <1>4

(* What rests is in the market.                                            *)
LEMMA InMarketIs == \A id : MB!Resting(id) => InMarket(Market, id)
<1>1. SUFFICES ASSUME NEW id, MB!Resting(id) PROVE InMarket(Market, id)
  OBVIOUS
<1>2. PICK x : x \in MB!Places(id)
  BY <1>1 DEF MB!Resting
<1>3. /\ x \in {1} \X Sides \X Prices
      /\ \E e \in Range(Market[x[1]][x[2]][x[3]]) : e.id = id
  BY <1>2, SameOperators DEF MB!Places
<1>4. x[1] = 1 /\ x[2] \in Sides /\ x[3] \in Prices
  BY <1>3
<1> QED  BY <1>3, <1>4 DEF InMarket

(* Such a step is a step of the abstract book.                             *)
LEMMA StepIs ==
    ASSUME MarketStep(Market, Market')
    PROVE  [MB!Next]_Market
<1>1. ASSUME Market' = [Market EXCEPT ![1] = Vacant] PROVE MB!Next
  <2>1. MB!Wipe(1)
    BY <1>1 DEF MB!Wipe, MB!Empty, Vacant
  <2> QED  BY <2>1 DEF MB!Next
<1>2. ASSUME NEW s, NEW p, NEW o, NEW q, JoinStep(Market, Market', s, p, o, q)
      PROVE  MB!Next
  <2>1. s \in Sides /\ p \in Prices /\ o \in OrderSlots /\ q \in Quantities
    BY <1>2 DEF JoinStep
  <2>2. ~MB!Resting(o)
    BY <1>2, InMarketIs DEF JoinStep
  <2>3. Market' = [Market EXCEPT ![1][s] = MB!WithNew(@, p, MB!Entry(o, q))]
    BY <1>2 DEF JoinStep, With, MB!WithNew, MB!Entry
  <2>4. MB!Join(1, s, p, o, q)
    BY <2>2, <2>3 DEF MB!Join
  <2> QED  BY <2>1, <2>4 DEF MB!Next
<1>3. ASSUME NEW s, NEW p, NEW i, NEW q, ShrinkStep(Market, Market', s, p, i, q)
      PROVE  MB!Next
  <2>1. s \in Sides /\ p \in Prices /\ q \in Quantities
    BY <1>3 DEF ShrinkStep
  <2>2. i \in DOMAIN MB!Queue(1, s, p) /\ q < MB!Queue(1, s, p)[i].shares
    BY <1>3 DEF ShrinkStep, MB!Queue
  <2>3. Market' = [Market EXCEPT ![1][s][p][i].shares = @ - q]
    BY <1>3 DEF ShrinkStep, With
  <2>4. MB!Shrink(1, s, p, i, q)
    BY <2>2, <2>3 DEF MB!Shrink
  <2> QED  BY <2>1, <2>2, <2>4 DEF MB!Next
<1>4. ASSUME NEW s, NEW p, NEW e, LeaveStep(Market, Market', s, p, e)
      PROVE  MB!Next
  <2>1. s \in Sides /\ p \in Prices
    BY <1>4 DEF LeaveStep
  <2>2. e \in MB!Range(MB!Queue(1, s, p))
    BY <1>4, SameOperators DEF LeaveStep, MB!Queue
  <2>3. Market' = [Market EXCEPT ![1][s] = MB!Without(@, p, e)]
    BY <1>4, SameOperators DEF LeaveStep, With, MB!Without
  <2>4. MB!Leave(1, s, p, e)
    BY <2>2, <2>3 DEF MB!Leave
  <2> QED  BY <2>1, <2>2, <2>4 DEF MB!Next
<1> QED  BY <1>1, <1>2, <1>3, <1>4 DEF MarketStep

-----------------------------------------------------------------------------
(* What the operations show.                                               *)

(* An order that does not rest is not in the market.                       *)
LEMMA NotInMarket ==
    ASSUME NEW h, NEW R, InvOf(h, R), NEW o, o \notin R
    PROVE  ~ InMarket(View(h), o)
<1>1. SUFFICES ASSUME NEW s \in Sides, NEW p \in Prices,
                      NEW e \in Range(View(h)[1][s][p]), e.id = o
               PROVE  FALSE
  BY DEF InMarket
<1>2. PICK queue : queue = FoundQueue(h, s, p)
  OBVIOUS
<1>3. queue \in Seq(OrderSlots) /\ Range(queue) \subseteq R
  BY <1>2, FoundQueueIs
<1>4. e \in Range(Mapped(queue, Shows(h)))
  BY <1>1, <1>2, ViewAt DEF QueueAt
<1>5. PICK i \in DOMAIN queue : e = Shows(h)[queue[i]]
  BY <1>4 DEF Mapped, Range
<1>6. queue[i] \in OrderSlots /\ queue[i] \in R
  BY <1>3, LenProperties, ElementOfSeq DEF Range
<1>7. e.id = queue[i]
  BY <1>5, <1>6 DEF Shows, Entry
<1> QED  BY <1>1, <1>6, <1>7

(* add_order shows as an order at the back of its queue.                   *)
LEMMA AddShows ==
    ASSUME NEW h, NEW R, InvOf(h, R), NEW Q, Q = QueuesOf(h), NEW g,
           NEW o \in OrderSlots, o \notin R,
           NEW s \in Sides, NEW p \in Prices, NEW q \in Quantities, NEW v,
           QueuesOf(g) = [Q EXCEPT ![v] = Append(@, o)], AddedIn(h, g, Q, o, s, p, q, v)
    PROVE  JoinStep(View(h), View(g), s, p, o, q)
<1>1. PICK L, F : Sound(h, L, Q, F, {}, R) /\ Shaped(h, L, Q, F, {}, R)
  BY InvOfIs
<1>2. QueuesIn(h, Q) /\ R = Queued(Q)
  BY <1>1 DEF Shaped
<1>3. v \in LevelSlots /\ g.book.map[s][p] = v /\ v # Null
  BY Slots DEF AddedIn
<1>4. \A w \in LevelSlots : o \notin Range(Q[w])
  BY <1>2 DEF Queued
<1>5. Q[v] = <<>> \/ h.book.map[s][p] = v
  BY DEF AddedIn
<1>6. QueuesOf(g)[v] = Append(Q[v], o) /\ \A w \in LevelSlots : w # v => QueuesOf(g)[w] = Q[w]
  BY <1>2, <1>3 DEF QueuesIn
<1>7. Concerns(h, g, Q, s, p, v, o)
  <2>1. \A t \in Sides, k \in Prices : t # s \/ k # p => h.book.map[t][k] # v
    BY <1>3, <1>5, FoundOnce
  <2>2. \A z \in OrderSlots : z # o => g.orders[z].shares = h.orders[z].shares
    BY DEF AddedIn, SameOrder
  <2> QED  BY <1>3, <1>4, <1>6, <2>1, <2>2 DEF Concerns, AddedIn
<1>8. Elsewhere(h, g, s, p)
  BY <1>7, ElsewhereSame
<1>9. View(g) = With(View(h), s, p, QueueAt(g, s, p))
  BY <1>8, ViewChanges
<1>10. FoundQueue(h, s, p) = Q[v] /\ FoundQueue(g, s, p) = Append(Q[v], o)
  BY <1>3, <1>6 DEF FoundQueue, AddedIn
<1>11. QueueAt(g, s, p) = Append(QueueAt(h, s, p), [id |-> o, shares |-> q])
  <2>1. PICK queue \in Seq(OrderSlots) : queue = Q[v]
    BY <1>2, <1>3 DEF QueuesIn
  <2>2. Mapped(Append(queue, o), Shows(g)) = Append(Mapped(queue, Shows(g)), Shows(g)[o])
    BY MappedAppend
  <2>3. Shows(g)[o] = [id |-> o, shares |-> q]
    BY DEF Shows, Entry, AddedIn
  <2>4. Mapped(queue, Shows(g)) = Mapped(queue, Shows(h))
    <3>1. ASSUME NEW z \in Range(queue) PROVE g.orders[z].shares = h.orders[z].shares
      <4>1. z \in OrderSlots
        BY LenProperties, ElementOfSeq DEF Range
      <4>2. z # o
        BY <1>3, <1>4, <2>1
      <4> QED  BY <1>7, <4>1, <4>2 DEF Concerns
    <3> QED  BY <3>1, MappedSame
  <2> QED  BY <1>10, <2>1, <2>2, <2>3, <2>4 DEF QueueAt
<1>12. ~ InMarket(View(h), o)
  BY NotInMarket
<1> QED  BY <1>9, <1>11, <1>12, ViewAt DEF JoinStep

(* Where a resting order shows.                                            *)
LEMMA ShownInQueue ==
    ASSUME NEW h, NEW queue \in Seq(OrderSlots), NEW o \in Range(queue)
    PROVE  /\ Entry(h, o) \in Range(Mapped(queue, Shows(h)))
           /\ \E i \in DOMAIN Mapped(queue, Shows(h)) :
                 queue[i] = o /\ Mapped(queue, Shows(h))[i] = Entry(h, o)
<1>1. PICK i \in DOMAIN queue : queue[i] = o
  BY DEF Range
<1>2. o \in OrderSlots
  BY <1>1, LenProperties, ElementOfSeq
<1>3. i \in DOMAIN Mapped(queue, Shows(h)) /\ Mapped(queue, Shows(h))[i] = Entry(h, o)
  BY <1>1, <1>2 DEF Mapped, Shows
<1> QED  BY <1>1, <1>3 DEF Range

(* An order that goes shows as one that leaves.                            *)
LEMMA GoneShows ==
    ASSUME NEW h, NEW R, InvOf(h, R), NEW Q, Q = QueuesOf(h), NEW g,
           NEW o \in OrderSlots, GoneIn(h, g, Q, R, o)
    PROVE  \E s, p, e : LeaveStep(View(h), View(g), s, p, e)
<1>1. PICK s \in Sides, p \in Prices, v \in LevelSlots :
         /\ v = h.book.map[s][p] /\ v # Null /\ o \in Range(Q[v])
         /\ LeftBy(h, g, s, p, v, Unlink(Q[v], o), o)
         /\ QueuesOf(g) = [Q EXCEPT ![v] = Unlink(Q[v], o)]
         /\ InvOf(g, R \ {o})
  BY DEF GoneIn
<1>2. PICK L, F : Sound(h, L, Q, F, {}, R) /\ Shaped(h, L, Q, F, {}, R)
  BY InvOfIs
<1>3. /\ Q[v] \in Seq(OrderSlots) /\ IsInjective(Q[v])
      /\ \A w \in LevelSlots : w # v => o \notin Range(Q[w])
  BY <1>1, <1>2, QueueParts
<1>4. PICK queue \in Seq(OrderSlots) : queue = Q[v]
  BY <1>3
<1>5. PICK r : r = Unlink(queue, o)
  OBVIOUS
<1>6. r \in Seq(OrderSlots) /\ Range(r) = Range(queue) \ {o}
  <2>1. IsInjective(Q[v]) /\ o \in Range(Q[v])
    BY <1>1, <1>3
  <2>2. IsInjective(queue) /\ o \in Range(queue)
    BY <1>4, <2>1
  <2> QED  BY <1>5, <2>2, UnlinkKeeps
<1>7. QueuesOf(g)[v] = r /\ \A w \in LevelSlots : w # v => QueuesOf(g)[w] = Q[w]
  <2>1. Q \in [LevelSlots -> Seq(OrderSlots)]
    BY <1>2 DEF Shaped, QueuesIn
  <2> QED  BY <1>1, <1>4, <1>5, <2>1
<1>8. /\ g.book.map[s][p] = IF r = <<>> THEN Null ELSE v
      /\ \A t \in Sides, k \in Prices : t # s \/ k # p => g.book.map[t][k] = h.book.map[t][k]
      /\ \A z \in OrderSlots : z # o => g.orders[z].shares = h.orders[z].shares
  BY <1>1, <1>4, <1>5 DEF LeftBy, SameOrder
<1>9. Concerns(h, g, Q, s, p, v, o)
  <2>1. \A t \in Sides, k \in Prices : t # s \/ k # p => h.book.map[t][k] # v
    BY <1>1, FoundOnce
  <2> QED  BY <1>3, <1>7, <1>8, <2>1 DEF Concerns
<1>10. Elsewhere(h, g, s, p)
  BY <1>9, ElsewhereSame
<1>11. View(g) = With(View(h), s, p, QueueAt(g, s, p))
  BY <1>10, ViewChanges
<1>12. FoundQueue(h, s, p) = queue /\ FoundQueue(g, s, p) = r
  BY <1>1, <1>4, <1>7, <1>8 DEF FoundQueue
<1>13. Mapped(r, Shows(g)) = Mapped(r, Shows(h))
  <2>1. ASSUME NEW z \in Range(r) PROVE g.orders[z].shares = h.orders[z].shares
    <3>1. z \in OrderSlots /\ z # o
      BY <1>6, LenProperties, ElementOfSeq DEF Range
    <3> QED  BY <1>8, <3>1
  <2> QED  BY <1>6, <2>1, MappedSame
<1>14. Unlink(Mapped(queue, Shows(h)), Entry(h, o)) = Mapped(r, Shows(h))
  <2>1. PICK f : f = Shows(h)
    OBVIOUS
  <2>2. f[o] = Entry(h, o)
    BY <2>1 DEF Shows
  <2>3. \A y, z \in Range(queue) : f[y] = f[z] => y = z
    <3>1. \A z \in Range(queue) : z \in OrderSlots
      BY LenProperties, ElementOfSeq DEF Range
    <3>2. \A z \in Range(queue) : f[z].id = z
      BY <2>1, <3>1 DEF Shows, Entry
    <3> QED  BY <3>2
  <2>4. IsInjective(queue) /\ o \in Range(queue)
    BY <1>1, <1>3, <1>4
  <2>5. Unlink(Mapped(queue, f), f[o]) = Mapped(Unlink(queue, o), f)
    BY <2>3, <2>4, MappedUnlink
  <2> QED  BY <1>5, <2>1, <2>2, <2>5
<1>15. Entry(h, o) \in Range(Mapped(queue, Shows(h)))
  BY <1>1, <1>4, ShownInQueue
<1>16. /\ QueueAt(h, s, p) = Mapped(queue, Shows(h))
       /\ QueueAt(g, s, p) = Unlink(QueueAt(h, s, p), Entry(h, o))
  BY <1>12, <1>13, <1>14 DEF QueueAt
<1>17. LeaveStep(View(h), View(g), s, p, Entry(h, o))
  BY <1>11, <1>15, <1>16, ViewAt DEF LeaveStep
<1> QED  BY <1>17

(* A partial fill shows as an order that shrinks.                          *)
LEMMA FillShows ==
    ASSUME NEW h, NEW R, InvOf(h, R), NEW Q, Q = QueuesOf(h), NEW g,
           NEW o \in R, NEW q \in Quantities, FilledIn(h, g, Q, R, o, q)
    PROVE  \E s, p, i : ShrinkStep(View(h), View(g), s, p, i, q)
<1>1. PICK L, F : Sound(h, L, Q, F, {}, R) /\ Shaped(h, L, Q, F, {}, R)
  BY InvOfIs
<1>2. PICK s : s = h.orders[o].side
  OBVIOUS
<1>3. PICK p : p = h.orders[o].price
  OBVIOUS
<1>4. /\ s \in Sides /\ p \in Prices /\ o \in OrderSlots
      /\ \E v \in LevelSlots :
            /\ v = FindLevel(h, s, p) /\ v # Null /\ v \in Range(L[s])
            /\ o \in Range(Q[v]) /\ h.pool.word[v] = p
  BY <1>1, <1>2, <1>3, FoundOrder
<1>5. PICK v \in LevelSlots : h.book.map[s][p] = v /\ v # Null /\ o \in Range(Q[v])
  BY <1>4 DEF FindLevel
<1>6. /\ Q[v] \in Seq(OrderSlots) /\ IsInjective(Q[v])
      /\ \A w \in LevelSlots : w # v => o \notin Range(Q[w])
  BY <1>1, <1>5, QueueParts
<1>7. PICK queue \in Seq(OrderSlots) : queue = Q[v]
  BY <1>6
<1>8. /\ q < h.orders[o].shares /\ g.orders[o].shares = h.orders[o].shares - q
      /\ \A z \in OrderSlots : z # o => g.orders[z] = h.orders[z]
      /\ g.book = h.book /\ QueuesOf(g) = Q
  BY DEF FilledIn
<1>9. Concerns(h, g, Q, s, p, v, o)
  <2>1. \A t \in Sides, k \in Prices : t # s \/ k # p => h.book.map[t][k] # v
    BY <1>4, <1>5, FoundOnce
  <2> QED  BY <1>6, <1>8, <2>1 DEF Concerns
<1>10. Elsewhere(h, g, s, p)
  BY <1>4, <1>9, ElsewhereSame
<1>11. View(g) = With(View(h), s, p, QueueAt(g, s, p))
  BY <1>4, <1>10, ViewChanges
<1>12. FoundQueue(h, s, p) = queue /\ FoundQueue(g, s, p) = queue
  BY <1>5, <1>7, <1>8 DEF FoundQueue
<1>13. PICK view : view = Mapped(queue, Shows(h))
  OBVIOUS
<1>14. PICK i \in DOMAIN view : queue[i] = o /\ view[i] = Entry(h, o)
  BY <1>5, <1>7, <1>13, ShownInQueue
<1>15. PICK less : less = [id |-> o, shares |-> h.orders[o].shares - q]
  OBVIOUS
<1>16. [view EXCEPT ![i].shares = @ - q] = [view EXCEPT ![i] = less]
  <2>1. PICK shown : shown = Entry(h, o)
    OBVIOUS
  <2>2. view[i] = shown /\ shown.shares = h.orders[o].shares
    BY <1>14, <2>1 DEF Entry
  <2>3. [shown EXCEPT !.shares = shown.shares - q] = less
    BY <1>15, <2>1, <2>2 DEF Entry
  <2> QED  BY <1>14, <2>2, <2>3
<1>17. Mapped(queue, Shows(g)) = [view EXCEPT ![i] = less]
  <2>1. /\ DOMAIN view = DOMAIN queue /\ \A j \in DOMAIN queue : view[j] = Shows(h)[queue[j]]
        /\ view = [j \in DOMAIN view |-> view[j]]
    BY <1>13 DEF Mapped
  <2>2. \A j \in DOMAIN queue : queue[j] \in OrderSlots /\ (queue[j] = o => j = i)
    <3>1. \A j \in DOMAIN queue : queue[j] \in OrderSlots
      BY LenProperties, ElementOfSeq
    <3> QED  BY <1>6, <1>7, <1>14, <2>1, <3>1 DEF IsInjective
  <2>3. \A j \in DOMAIN queue : j # i => Shows(g)[queue[j]] = Shows(h)[queue[j]]
    BY <1>8, <2>2 DEF Shows, Entry
  <2>4. Shows(g)[o] = less
    BY <1>4, <1>8, <1>15 DEF Shows, Entry
  <2>5. \A j \in DOMAIN queue : Shows(g)[queue[j]] = IF j = i THEN less ELSE view[j]
    BY <1>14, <2>1, <2>3, <2>4
  <2>6. Mapped(queue, Shows(g)) = [j \in DOMAIN view |-> IF j = i THEN less ELSE view[j]]
    BY <2>1, <2>5 DEF Mapped
  <2> QED  BY <2>1, <2>6
<1>18. view = View(h)[1][s][p] /\ QueueAt(g, s, p) = [view EXCEPT ![i].shares = @ - q]
  BY <1>4, <1>12, <1>13, <1>16, <1>17, ViewAt DEF QueueAt
<1>19. q < view[i].shares
  BY <1>8, <1>14 DEF Entry
<1>20. ShrinkStep(View(h), View(g), s, p, i, q)
  BY <1>4, <1>11, <1>14, <1>18, <1>19 DEF ShrinkStep
<1> QED  BY <1>20

(* An empty book shows nothing.                                            *)
LEMMA EmptyShows ==
    ASSUME NEW g, g.book = EmptyBook
    PROVE  /\ View(g) = [l \in {1} |-> Vacant]
           /\ \A h : View(g) = [View(h) EXCEPT ![1] = Vacant]
<1>1. \A s \in Sides, p \in Prices : QueueAt(g, s, p) = <<>>
  <2>1. \A f : Mapped(<<>>, f) = <<>>
    BY DEF Mapped
  <2> QED  BY <2>1, EmptyBookIs DEF QueueAt, FoundQueue
<1>2. View(g) = [l \in {1} |-> Vacant]
  BY <1>1 DEF View, Vacant
<1>3. \A h : [View(h) EXCEPT ![1] = Vacant] = [l \in {1} |-> Vacant]
  BY DEF View
<1> QED  BY <1>2, <1>3

(* Every step of the book is a step of the market.                         *)
LEMMA NextShows ==
    ASSUME Inv, Inv', MapsHaveRoom, [Next]_vars
    PROVE  MarketStep(Market, Market')
<1>1. PICK h : h = Heap
  OBVIOUS
<1>2. PICK g : g = Heap'
  OBVIOUS
<1>3. PICK R : R = resting
  OBVIOUS
<1>4. PICK Q : Q = QueuesOf(h)
  OBVIOUS
<1>5. PICK R2 : R2 = resting'
  OBVIOUS
<1>6. InvOf(h, R) /\ InvOf(g, R2)
  BY <1>1, <1>2, <1>3, <1>5, InvIs
<1>7. Market = View(h) /\ Market' = View(g)
  BY <1>1, <1>2, <1>6, MarketOfIs, ViewIs
<1>8. SUFFICES MarketStep(View(h), View(g))
  BY <1>7
<1>9. CASE ClearLevels
  <2>1. g.book = EmptyBook
    BY <1>1, <1>2, <1>3, <1>6, <1>9, ClearStep
  <2>2. View(g) = [View(h) EXCEPT ![1] = Vacant]
    BY <2>1, EmptyShows
  <2> QED  BY <2>2 DEF MarketStep
<1>10. ASSUME NEW o \in OrderSlots, RemoveOrder(o) PROVE MarketStep(View(h), View(g))
  <2>1. GoneIn(h, g, Q, R, o)
    BY <1>1, <1>2, <1>3, <1>4, <1>6, <1>10, RemoveStep
  <2>2. \E s, p, e : LeaveStep(View(h), View(g), s, p, e)
    BY <1>4, <1>6, <2>1, GoneShows
  <2> QED  BY <2>2 DEF MarketStep
<1>11. ASSUME NEW o \in OrderSlots, NEW q \in Quantities, ExecuteOrder(o, q)
       PROVE  MarketStep(View(h), View(g))
  <2>1. o \in R /\ (GoneIn(h, g, Q, R, o) \/ FilledIn(h, g, Q, R, o, q))
    BY <1>1, <1>2, <1>3, <1>4, <1>6, <1>11, ExecuteStep
  <2>2. CASE GoneIn(h, g, Q, R, o)
    <3>1. \E s, p, e : LeaveStep(View(h), View(g), s, p, e)
      BY <1>4, <1>6, <2>2, GoneShows
    <3> QED  BY <3>1 DEF MarketStep
  <2>3. CASE FilledIn(h, g, Q, R, o, q)
    <3>1. \E s, p, i : ShrinkStep(View(h), View(g), s, p, i, q)
      BY <1>4, <1>6, <2>1, <2>3, FillShows
    <3> QED  BY <3>1 DEF MarketStep
  <2> QED  BY <2>1, <2>2, <2>3
<1>12. ASSUME NEW o \in OrderSlots, NEW q \in Quantities, NEW s \in Sides, NEW p \in Prices,
              AddOrder(o, s, p, q)
       PROVE  MarketStep(View(h), View(g))
  <2>1. PICK v : /\ QueuesOf(g) = [Q EXCEPT ![v] = Append(@, o)]
                 /\ AddedIn(h, g, Q, o, s, p, q, v)
    BY <1>1, <1>2, <1>3, <1>4, <1>6, <1>12, AddStep
  <2>2. o \notin R
    BY <1>3, <1>12 DEF AddOrder
  <2>3. JoinStep(View(h), View(g), s, p, o, q)
    BY <1>4, <1>6, <2>1, <2>2, AddShows
  <2> QED  BY <2>3 DEF MarketStep
<1>13. CASE UNCHANGED vars
  <2>1. g = h
    BY <1>1, <1>2, <1>13 DEF vars, Heap
  <2> QED  BY <2>1 DEF MarketStep
<1> QED  BY <1>9, <1>10, <1>11, <1>12, <1>13 DEF Next

(* A new book shows the empty market.                                      *)
LEMMA InitShows == Init => MB!Init
<1>1. SUFFICES ASSUME Init PROVE MB!Init
  OBVIOUS
<1>2. PICK h : h = Heap
  OBVIOUS
<1>3. InvOf(h, {}) /\ h.book = EmptyBook
  BY <1>1, <1>2, InitStep
<1>4. Market = View(h)
  BY <1>2, <1>3, MarketOfIs, ViewIs
<1>5. View(h) = [l \in {1} |-> Vacant]
  BY <1>3, EmptyShows
<1> QED  BY <1>4, <1>5 DEF MB!Init, MB!Empty, Vacant

(* OrderBook's hand-linked memory implements MarketBook, price-time        *)
(* priority on plain sequences: every operation joins, shrinks, removes or *)
(* clears the queues it shows as MarketBook's actions do, as long as no    *)
(* map refuses a level.                                                    *)
THEOREM BookIsAMarket == Spec /\ []MapsHaveRoom => ImplementsMarketBook
<1>1. Init => MB!Init
  BY InitShows
<1>2. Inv /\ Inv' /\ MapsHaveRoom /\ [Next]_vars => [MB!Next]_Market
  BY NextShows, StepIs
<1> QED  BY <1>1, <1>2, InvHolds, PTL DEF Spec, ImplementsMarketBook, MB!Spec

(* With that much room, what is proved above holds of the book without     *)
(* further condition.                                                      *)
THEOREM BookWithRoom ==
    ASSUME LevelCapacity <= MapCapacity \/ Cardinality(Prices) <= MapCapacity
    PROVE  Spec => [](QueuesLinked /\ LevelsLinked /\ FreeListWhole) /\ ImplementsMarketBook
<1>1. Spec => []MapsHaveRoom
  BY RoomForLevels, RoomForPrices
<1> QED
  BY <1>1, QueuesStayLinked, LevelsStayLinked, FreeListStaysWhole, BookIsAMarket, PTL

=============================================================================
