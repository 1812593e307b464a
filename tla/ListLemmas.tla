----------------------------- MODULE ListLemmas -----------------------------
(***************************************************************************)
(* Facts about the operators that the models of the books share: walks,    *)
(* insertions and removals on sequences, and sums over them.               *)
(***************************************************************************)
EXTENDS Lists, SequenceTheorems, FiniteSetTheorems, WellFoundedInduction, TLAPS

-----------------------------------------------------------------------------
(* Sequences.                                                              *)

(* A walk stops within the list.                                           *)
LEMMA LeadingRunType ==
    ASSUME NEW T, NEW seq \in Seq(T), NEW S
    PROVE  LeadingRun(seq, S) \in 0..Len(seq)
<1> DEFINE run == {j \in DOMAIN seq : \A k \in 1..j : seq[k] \in S}
<1>1. DOMAIN seq = 1..Len(seq) /\ Len(seq) \in Nat
  BY LenProperties
<1>2. IsFiniteSet(1..Len(seq)) /\ Cardinality(1..Len(seq)) = Len(seq)
  <2>1. 1 \in Int /\ Len(seq) \in Int  BY <1>1
  <2> QED  BY <1>1, <2>1, FS_Interval
<1>3. run \subseteq 1..Len(seq)
  BY <1>1
<1>4. IsFiniteSet(run) /\ Cardinality(run) <= Len(seq)
  BY <1>2, <1>3, FS_Subset
<1>5. Cardinality(run) \in Nat
  BY <1>4, FS_CardinalityType
<1> QED  BY <1>1, <1>4, <1>5 DEF LeadingRun

(* Linking an element in yields a list.                                    *)
LEMMA InsertType ==
    ASSUME NEW T, NEW seq \in Seq(T), NEW S, NEW e \in T
    PROVE  InsertAfterRun(seq, S, e) \in Seq(T)
<1> DEFINE n == LeadingRun(seq, S)
<1>1. n \in 0..Len(seq) /\ Len(seq) \in Nat
  BY LeadingRunType, LenProperties
<1>2. \A i \in 1..Len(seq) : seq[i] \in T
  BY ElementOfSeq
<1>3. SubSeq(seq, 1, n) \in Seq(T) /\ SubSeq(seq, n + 1, Len(seq)) \in Seq(T)
  <2> HIDE DEF n
  <2>1. 1 \in Int /\ n \in Int /\ n + 1 \in Int /\ Len(seq) \in Int
    BY <1>1
  <2>2. (\A i \in 1..n : seq[i] \in T) /\ (\A i \in n + 1..Len(seq) : seq[i] \in T)
    BY <1>1, <1>2
  <2> QED  BY <2>1, <2>2, SubSeqProperties
<1>4. <<e>> \in Seq(T)
  OBVIOUS
<1> QED  BY <1>3, <1>4, ConcatProperties DEF InsertAfterRun

(* Unlinking an element yields a list.                                     *)
LEMMA UnlinkType ==
    ASSUME NEW T, NEW seq \in Seq(T), NEW e
    PROVE  Unlink(seq, e) \in Seq(T)
<1> DEFINE n == LeadingRun(seq, Range(seq) \ {e})
<1>1. n \in 0..Len(seq) /\ Len(seq) \in Nat
  BY LeadingRunType, LenProperties
<1>2. \A i \in 1..Len(seq) : seq[i] \in T
  BY ElementOfSeq
<1>3. SubSeq(seq, 1, n) \in Seq(T) /\ SubSeq(seq, n + 2, Len(seq)) \in Seq(T)
  <2> HIDE DEF n
  <2>1. 1 \in Int /\ n \in Int /\ n + 2 \in Int /\ Len(seq) \in Int
    BY <1>1
  <2>2. (\A i \in 1..n : seq[i] \in T) /\ (\A i \in n + 2..Len(seq) : seq[i] \in T)
    BY <1>1, <1>2
  <2> QED  BY <2>1, <2>2, SubSeqProperties
<1> QED  BY <1>3, ConcatProperties DEF Unlink

-----------------------------------------------------------------------------
(* What walks, insertions and removals leave in a sequence.                *)

(* A walk passes elements of S and stops at the first that is none.        *)
LEMMA LeadingRunIs ==
    ASSUME NEW T, NEW seq \in Seq(T), NEW S, NEW n, n = LeadingRun(seq, S)
    PROVE  /\ n \in 0..Len(seq)
           /\ \A i \in 1..n : seq[i] \in S
           /\ n < Len(seq) => seq[n + 1] \notin S
<1> DEFINE run == {j \in DOMAIN seq : \A k \in 1..j : seq[k] \in S}
<1>1. DOMAIN seq = 1..Len(seq) /\ Len(seq) \in Nat
  BY LenProperties
<1>2. n \in 0..Len(seq)
  BY LeadingRunType
<1>3. n = Cardinality(run)
  BY DEF LeadingRun
<1>4. IsFiniteSet(run)
  <2>1. 1 \in Int /\ Len(seq) \in Int  BY <1>1
  <2>2. IsFiniteSet(1..Len(seq))  BY <2>1, FS_Interval
  <2> QED  BY <1>1, <2>2, FS_Subset
<1>5. ASSUME NEW j \in run PROVE j \in 1..n
  <2>1. 1 \in Int /\ j \in Int /\ 1 <= j  BY <1>1
  <2>2. 1..j \in SUBSET run  BY <1>1, <2>1
  <2>3. Cardinality(1..j) = j
    BY <2>1, FS_Interval
  <2> HIDE DEF run
  <2>4. j <= n  BY <1>3, <1>4, <2>2, <2>3, FS_Subset
  <2> QED  BY <1>2, <2>1, <2>4
<1>6. IsFiniteSet(1..n) /\ Cardinality(1..n) = n
  <2>1. 1 \in Int /\ n \in Int /\ n >= 0  BY <1>1, <1>2
  <2> QED  BY <2>1, FS_Interval
<1>7. run = 1..n
  <2>1. run \in SUBSET (1..n)  BY <1>5
  <2> HIDE DEF run
  <2> QED  BY <1>3, <1>6, <2>1, FS_Subset
<1>8. ASSUME NEW i \in 1..n PROVE seq[i] \in S
  <2>1. i \in run /\ i \in 1..i  BY <1>1, <1>2, <1>7
  <2> QED  BY <2>1
<1>9. ASSUME n < Len(seq), seq[n + 1] \in S PROVE FALSE
  <2>1. n + 1 \in DOMAIN seq  BY <1>1, <1>2, <1>9
  <2>2. \A k \in 1..(n + 1) : seq[k] \in S
    BY <1>1, <1>2, <1>8, <1>9
  <2>3. n + 1 \in 1..n  BY <1>7, <2>1, <2>2
  <2> QED  BY <1>1, <1>2, <2>3
<1> QED  BY <1>2, <1>8, <1>9

(* A sequence without its element n + 1.                                   *)
Cut(seq, n) == SubSeq(seq, 1, n) \o SubSeq(seq, n + 2, Len(seq))

(* What moves up when an element is cut out.                               *)
LEMMA CutOut ==
    ASSUME NEW T, NEW seq \in Seq(T), NEW n \in Nat, n < Len(seq)
    PROVE  /\ Cut(seq, n) \in Seq(T)
           /\ Len(Cut(seq, n)) = Len(seq) - 1
           /\ \A i \in 1..Len(seq) - 1 :
                 Cut(seq, n)[i] = IF i < n + 1 THEN seq[i] ELSE seq[i + 1]
<1> DEFINE front == SubSeq(seq, 1, n)
           back == SubSeq(seq, n + 2, Len(seq))
<1>1. Len(seq) \in Nat /\ \A i \in 1..Len(seq) : seq[i] \in T
  BY LenProperties, ElementOfSeq
<1>2. 1 \in Int /\ n \in Int /\ n + 2 \in Int /\ Len(seq) \in Int
  BY <1>1
<1>3. /\ front \in Seq(T) /\ Len(front) = n
      /\ \A i \in 1..n : front[i] = seq[i]
  <2>1. \A i \in 1..n : seq[i] \in T  BY <1>1
  <2>2. /\ front \in Seq(T) /\ Len(front) = IF 1 <= n THEN n - 1 + 1 ELSE 0
        /\ \A i \in 1..(n - 1 + 1) : front[i] = seq[1 + i - 1]
    BY <1>2, <2>1, SubSeqProperties
  <2> HIDE DEF front
  <2> QED  BY <1>1, <2>2
<1>4. /\ back \in Seq(T) /\ Len(back) = Len(seq) - n - 1
      /\ \A i \in 1..(Len(seq) - n - 1) : back[i] = seq[n + 1 + i]
  <2>1. \A i \in (n + 2)..Len(seq) : seq[i] \in T  BY <1>1
  <2>2. /\ back \in Seq(T)
        /\ Len(back) = IF n + 2 <= Len(seq) THEN Len(seq) - (n + 2) + 1 ELSE 0
        /\ \A i \in 1..(Len(seq) - (n + 2) + 1) : back[i] = seq[(n + 2) + i - 1]
    BY <1>2, <2>1, SubSeqProperties
  <2> HIDE DEF back
  <2>3. ASSUME NEW i \in 1..(Len(seq) - n - 1) PROVE back[i] = seq[n + 1 + i]
    <3>1. i \in 1..(Len(seq) - (n + 2) + 1) /\ (n + 2) + i - 1 = n + 1 + i
      BY <1>1
    <3> QED  BY <2>2, <3>1
  <2>4. Len(back) = Len(seq) - n - 1  BY <1>1, <2>2
  <2> QED  BY <2>2, <2>3, <2>4
<1> HIDE DEF front, back
<1>5. /\ Cut(seq, n) \in Seq(T)
      /\ Len(Cut(seq, n)) = Len(front) + Len(back)
      /\ \A i \in 1..Len(front) + Len(back) :
            Cut(seq, n)[i] = IF i <= Len(front) THEN front[i] ELSE back[i - Len(front)]
  <2>1. Cut(seq, n) = front \o back  BY DEF Cut, front, back
  <2> QED  BY <1>3, <1>4, <2>1, ConcatProperties, SMTT(30)
<1>6. Len(front) + Len(back) = Len(seq) - 1
  BY <1>1, <1>3, <1>4
<1>7. ASSUME NEW i \in 1..Len(seq) - 1
      PROVE  Cut(seq, n)[i] = IF i < n + 1 THEN seq[i] ELSE seq[i + 1]
  <2>1. Cut(seq, n)[i] = IF i <= n THEN front[i] ELSE back[i - n]
    BY <1>3, <1>5, <1>6
  <2>2. CASE i <= n
    BY <1>1, <1>3, <2>1, <2>2
  <2>3. CASE i > n
    <3>1. i - n \in 1..(Len(seq) - n - 1) /\ n + 1 + (i - n) = i + 1
      BY <1>1, <2>3
    <3> QED  BY <1>1, <1>4, <2>1, <2>3, <3>1
  <2> QED  BY <1>1, <2>2, <2>3
<1> QED  BY <1>5, <1>6, <1>7

(* Unlinking an element closes the gap it leaves.                          *)
LEMMA UnlinkIs ==
    ASSUME NEW T, NEW seq \in Seq(T), NEW e \in Range(seq)
    PROVE  /\ Unlink(seq, e) \in Seq(T)
           /\ Len(Unlink(seq, e)) = Len(seq) - 1
           /\ \E k \in 1..Len(seq) :
                /\ seq[k] = e
                /\ \A i \in 1..Len(seq) - 1 :
                      Unlink(seq, e)[i] = IF i < k THEN seq[i] ELSE seq[i + 1]
<1>1. DOMAIN seq = 1..Len(seq) /\ Len(seq) \in Nat
  BY LenProperties
<1>2. PICK n : n = LeadingRun(seq, Range(seq) \ {e})
  OBVIOUS
<1>3. /\ n \in 0..Len(seq)
      /\ \A i \in 1..n : seq[i] \in Range(seq) \ {e}
      /\ n < Len(seq) => seq[n + 1] \notin Range(seq) \ {e}
  BY <1>2, LeadingRunIs
<1>4. PICK m \in DOMAIN seq : seq[m] = e
  BY DEF Range
<1>5. n \in Nat /\ n < Len(seq)
  BY <1>1, <1>3, <1>4
<1>6. n + 1 \in 1..Len(seq) /\ seq[n + 1] = e
  <2>1. n + 1 \in DOMAIN seq  BY <1>1, <1>5
  <2>2. seq[n + 1] \in Range(seq)  BY <2>1 DEF Range
  <2> QED  BY <1>1, <1>3, <1>5, <2>1, <2>2
<1>7. Unlink(seq, e) = Cut(seq, n)
  BY <1>2 DEF Unlink, Cut
<1>8. /\ Cut(seq, n) \in Seq(T)
      /\ Len(Cut(seq, n)) = Len(seq) - 1
      /\ \A i \in 1..Len(seq) - 1 :
            Cut(seq, n)[i] = IF i < n + 1 THEN seq[i] ELSE seq[i + 1]
  BY <1>5, CutOut
<1> QED  BY <1>6, <1>7, <1>8

(* What is left of a list without repetitions, and in which order.         *)
LEMMA UnlinkKeeps ==
    ASSUME NEW T, NEW seq \in Seq(T), IsInjective(seq), NEW e \in Range(seq),
           NEW r, r = Unlink(seq, e)
    PROVE  /\ r \in Seq(T)
           /\ Len(r) = Len(seq) - 1
           /\ IsInjective(r)
           /\ Range(r) = Range(seq) \ {e}
           /\ \A i, j \in DOMAIN r : i < j =>
                \E a, b \in DOMAIN seq : a < b /\ r[i] = seq[a] /\ r[j] = seq[b]
<1>1. r \in Seq(T) /\ Len(r) = Len(seq) - 1
  BY UnlinkIs
<1>2. PICK k \in 1..Len(seq) :
        /\ seq[k] = e
        /\ \A i \in 1..Len(seq) - 1 : r[i] = IF i < k THEN seq[i] ELSE seq[i + 1]
  BY UnlinkIs
<1>3. DOMAIN seq = 1..Len(seq) /\ Len(seq) \in Nat /\ DOMAIN r = 1..Len(seq) - 1
  BY <1>1, LenProperties
<1>4. \A a, b \in 1..Len(seq) : seq[a] = seq[b] => a = b
  BY <1>3 DEF IsInjective
<1>5. ASSUME NEW i \in DOMAIN r
      PROVE  \E a \in DOMAIN seq : a # k /\ r[i] = seq[a]
  <2>1. CASE i < k
    BY <1>2, <1>3, <2>1
  <2>2. CASE i >= k
    <3>1. i + 1 \in DOMAIN seq /\ i + 1 # k /\ r[i] = seq[i + 1]
      BY <1>2, <1>3, <2>2
    <3> QED  BY <3>1
  <2> QED  BY <1>2, <1>3, <2>1, <2>2
<1>6. ASSUME NEW a \in DOMAIN seq, a # k
      PROVE  \E i \in DOMAIN r : r[i] = seq[a]
  <2>1. CASE a < k
    <3>1. a \in DOMAIN r /\ r[a] = seq[a]  BY <1>2, <1>3, <2>1
    <3> QED  BY <3>1
  <2>2. CASE a > k
    <3>1. a - 1 \in DOMAIN r /\ ~(a - 1 < k) /\ (a - 1) + 1 = a
      BY <1>2, <1>3, <2>2
    <3>2. r[a - 1] = seq[a]  BY <1>2, <1>3, <3>1
    <3> QED  BY <3>1, <3>2
  <2> QED  BY <1>2, <1>3, <1>6, <2>1, <2>2
<1>7. Range(r) = Range(seq) \ {e}
  <2>1. ASSUME NEW x \in Range(r) PROVE x \in Range(seq) /\ x # e
    <3>1. PICK i \in DOMAIN r : x = r[i]  BY DEF Range
    <3>2. PICK a \in DOMAIN seq : a # k /\ r[i] = seq[a]  BY <1>5
    <3> QED  BY <1>2, <1>3, <1>4, <3>1, <3>2 DEF Range
  <2>2. ASSUME NEW x \in Range(seq), x # e PROVE x \in Range(r)
    <3>1. PICK a \in DOMAIN seq : x = seq[a]  BY DEF Range
    <3>2. PICK i \in DOMAIN r : r[i] = seq[a]  BY <1>2, <1>6, <2>2, <3>1
    <3> QED  BY <3>1, <3>2 DEF Range
  <2> QED  BY <2>1, <2>2
<1>8. ASSUME NEW i \in DOMAIN r, NEW j \in DOMAIN r, i < j
      PROVE  \E a, b \in DOMAIN seq : a < b /\ r[i] = seq[a] /\ r[j] = seq[b]
  <2> DEFINE a == IF i < k THEN i ELSE i + 1
             b == IF j < k THEN j ELSE j + 1
  <2>1. a \in DOMAIN seq /\ b \in DOMAIN seq /\ a < b
    BY <1>2, <1>3, <1>8
  <2>2. r[i] = seq[a] /\ r[j] = seq[b]
    BY <1>2, <1>3
  <2> HIDE DEF a, b
  <2> QED  BY <2>1, <2>2
<1>9. IsInjective(r)
  <2>1. ASSUME NEW i \in DOMAIN r, NEW j \in DOMAIN r, i < j PROVE r[i] # r[j]
    <3>1. PICK a, b \in DOMAIN seq : a < b /\ r[i] = seq[a] /\ r[j] = seq[b]
      BY <1>8, <2>1
    <3> QED  BY <1>3, <1>4, <3>1
  <2> QED  BY <1>3, <2>1 DEF IsInjective
<1> QED  BY <1>1, <1>7, <1>8, <1>9

(* Linking in an element pushes back the ones behind it.                   *)
LEMMA InsertIs ==
    ASSUME NEW T, NEW seq \in Seq(T), NEW S, NEW e \in T,
           NEW n, n = LeadingRun(seq, S), NEW r, r = InsertAfterRun(seq, S, e)
    PROVE  /\ r \in Seq(T)
           /\ Len(r) = Len(seq) + 1
           /\ \A i \in 1..Len(seq) + 1 :
                r[i] = IF i <= n THEN seq[i] ELSE IF i = n + 1 THEN e ELSE seq[i - 1]
<1> DEFINE front == SubSeq(seq, 1, n)
           back == SubSeq(seq, n + 1, Len(seq))
<1>1. Len(seq) \in Nat /\ n \in 0..Len(seq)
  BY LenProperties, LeadingRunType
<1>2. \A i \in 1..Len(seq) : seq[i] \in T
  BY ElementOfSeq
<1>3. 1 \in Int /\ n \in Int /\ n + 1 \in Int /\ Len(seq) \in Int
  BY <1>1
<1>4. /\ front \in Seq(T) /\ Len(front) = n
      /\ \A i \in 1..n : front[i] = seq[i]
  <2>1. \A i \in 1..n : seq[i] \in T  BY <1>1, <1>2
  <2>2. /\ front \in Seq(T) /\ Len(front) = IF 1 <= n THEN n - 1 + 1 ELSE 0
        /\ \A i \in 1..(n - 1 + 1) : front[i] = seq[1 + i - 1]
    BY <1>3, <2>1, SubSeqProperties
  <2> HIDE DEF front
  <2> QED  BY <1>1, <2>2
<1>5. /\ back \in Seq(T) /\ Len(back) = Len(seq) - n
      /\ \A i \in 1..(Len(seq) - n) : back[i] = seq[n + i]
  <2>1. \A i \in (n + 1)..Len(seq) : seq[i] \in T  BY <1>1, <1>2
  <2>2. /\ back \in Seq(T)
        /\ Len(back) = IF n + 1 <= Len(seq) THEN Len(seq) - (n + 1) + 1 ELSE 0
        /\ \A i \in 1..(Len(seq) - (n + 1) + 1) : back[i] = seq[(n + 1) + i - 1]
    BY <1>3, <2>1, SubSeqProperties
  <2> HIDE DEF back
  <2> QED  BY <1>1, <2>2
<1>6. r = front \o <<e>> \o back
  BY DEF InsertAfterRun
<1> HIDE DEF front, back
<1>7. <<e>> \in Seq(T) /\ Len(<<e>>) = 1 /\ <<e>>[1] = e
  OBVIOUS
<1>8. /\ front \o <<e>> \in Seq(T) /\ Len(front \o <<e>>) = n + 1
      /\ \A i \in 1..n + 1 : (front \o <<e>>)[i] = IF i <= n THEN front[i] ELSE <<e>>[i - n]
  BY <1>4, <1>7, ConcatProperties
<1>9. /\ r \in Seq(T) /\ Len(r) = n + 1 + Len(back)
      /\ \A i \in 1..n + 1 + Len(back) :
            r[i] = IF i <= n + 1 THEN (front \o <<e>>)[i] ELSE back[i - (n + 1)]
  <2>1. n + 1 \in Nat  BY <1>1
  <2> DEFINE a == front \o <<e>>
  <2>2. a \in Seq(T) /\ Len(a) = n + 1  BY <1>8
  <2> HIDE DEF a
  <2>3. /\ a \o back \in Seq(T)
        /\ Len(a \o back) = Len(a) + Len(back)
        /\ \A i \in 1..Len(a) + Len(back) :
              (a \o back)[i] = IF i <= Len(a) THEN a[i] ELSE back[i - Len(a)]
    BY <1>5, <2>2, ConcatProperties
  <2>4. r = a \o back  BY <1>6 DEF a
  <2> QED  BY <2>2, <2>3, <2>4 DEF a
<1>10. Len(r) = Len(seq) + 1
  BY <1>1, <1>5, <1>9
<1>11. ASSUME NEW i \in 1..Len(seq) + 1
       PROVE  r[i] = IF i <= n THEN seq[i] ELSE IF i = n + 1 THEN e ELSE seq[i - 1]
  <2>1. r[i] = IF i <= n + 1 THEN (front \o <<e>>)[i] ELSE back[i - (n + 1)]
    <3>1. i \in 1..n + 1 + Len(back)  BY <1>1, <1>5
    <3> QED  BY <1>9, <3>1
  <2>2. CASE i <= n
    BY <1>1, <1>4, <1>8, <2>1, <2>2
  <2>3. CASE i = n + 1
    <3>1. r[i] = <<e>>[i - n] /\ i - n = 1  BY <1>1, <1>8, <2>1, <2>3
    <3> QED  BY <1>1, <1>7, <2>3, <3>1, SMTT(30)
  <2>4. CASE i > n + 1
    <3>1. i - (n + 1) \in 1..(Len(seq) - n) /\ n + (i - (n + 1)) = i - 1
      BY <1>1, <2>4
    <3> QED  BY <1>1, <1>5, <2>1, <2>4, <3>1
  <2> QED  BY <1>1, <2>2, <2>3, <2>4
<1> QED  BY <1>9, <1>10, <1>11

(* Linking in a new element keeps a list free of repetitions.              *)
LEMMA InsertKeeps ==
    ASSUME NEW T, NEW seq \in Seq(T), IsInjective(seq), NEW S, NEW e \in T,
           e \notin Range(seq), NEW r, r = InsertAfterRun(seq, S, e)
    PROVE  IsInjective(r) /\ Range(r) = Range(seq) \cup {e}
<1>1. PICK n : n = LeadingRun(seq, S)
  OBVIOUS
<1>2. /\ r \in Seq(T)
      /\ Len(r) = Len(seq) + 1
      /\ \A i \in 1..Len(seq) + 1 :
            r[i] = IF i <= n THEN seq[i] ELSE IF i = n + 1 THEN e ELSE seq[i - 1]
  BY <1>1, InsertIs
<1>3. /\ Len(seq) \in Nat /\ n \in 0..Len(seq)
      /\ DOMAIN seq = 1..Len(seq) /\ DOMAIN r = 1..Len(seq) + 1
  BY <1>1, <1>2, LenProperties, LeadingRunType
<1>4. \A a \in 1..Len(seq) : seq[a] # e
  BY <1>3 DEF Range
<1>5. \A a, b \in 1..Len(seq) : seq[a] = seq[b] => a = b
  BY <1>3 DEF IsInjective
<1>6. IsInjective(r)
  <2> SUFFICES ASSUME NEW i \in DOMAIN r, NEW j \in DOMAIN r, i < j, r[i] = r[j]
               PROVE  FALSE
    BY <1>3 DEF IsInjective
  <2> DEFINE old(k) == IF k <= n THEN k ELSE k - 1
  <2>1. ASSUME NEW k \in DOMAIN r, k # n + 1
        PROVE  old(k) \in 1..Len(seq) /\ r[k] = seq[old(k)]
    BY <1>2, <1>3, <2>1
  <2>2. CASE i # n + 1 /\ j # n + 1
    <3>1. old(i) = old(j)  BY <1>5, <2>1, <2>2
    <3> QED  BY <1>3, <2>2, <3>1
  <2>3. CASE i = n + 1
    <3>1. j # n + 1 /\ r[i] = e  BY <1>2, <1>3, <2>3
    <3> QED  BY <1>4, <2>1, <3>1
  <2>4. CASE j = n + 1
    <3>1. i # n + 1 /\ r[j] = e  BY <1>2, <1>3, <2>4
    <3> QED  BY <1>4, <2>1, <3>1
  <2> QED  BY <2>2, <2>3, <2>4
<1>7. ASSUME NEW x \in Range(r) PROVE x \in Range(seq) \cup {e}
  <2>1. PICK i \in DOMAIN r : x = r[i]  BY DEF Range
  <2>2. CASE i <= n
    BY <1>2, <1>3, <2>1, <2>2 DEF Range
  <2>3. CASE i = n + 1
    BY <1>2, <1>3, <2>1, <2>3
  <2>4. CASE i > n + 1
    <3>1. i - 1 \in DOMAIN seq /\ r[i] = seq[i - 1]  BY <1>2, <1>3, <2>4
    <3> QED  BY <2>1, <3>1 DEF Range
  <2> QED  BY <1>3, <2>2, <2>3, <2>4
<1>8. ASSUME NEW x \in Range(seq) PROVE x \in Range(r)
  <2>1. PICK i \in DOMAIN seq : x = seq[i]  BY DEF Range
  <2>2. CASE i <= n
    <3>1. i \in DOMAIN r /\ r[i] = x  BY <1>2, <1>3, <2>1, <2>2
    <3> QED  BY <3>1 DEF Range
  <2>3. CASE i > n
    <3>1. i + 1 \in DOMAIN r /\ ~(i + 1 <= n) /\ i + 1 # n + 1 /\ (i + 1) - 1 = i
      BY <1>3, <2>3
    <3>2. r[i + 1] = x  BY <1>2, <1>3, <2>1, <3>1
    <3> QED  BY <3>1, <3>2 DEF Range
  <2> QED  BY <1>3, <2>2, <2>3
<1>9. e \in Range(r)
  <2>1. n + 1 \in DOMAIN r /\ r[n + 1] = e  BY <1>2, <1>3
  <2> QED  BY <2>1 DEF Range
<1> QED  BY <1>6, <1>7, <1>8, <1>9

(* Appending a new element does, too.                                      *)
LEMMA AppendKeeps ==
    ASSUME NEW T, NEW seq \in Seq(T), IsInjective(seq), NEW e \in T,
           e \notin Range(seq), NEW r, r = Append(seq, e)
    PROVE  IsInjective(r) /\ Range(r) = Range(seq) \cup {e} /\ r # <<>>
<1>1. /\ r \in Seq(T) /\ r # <<>> /\ Len(r) = Len(seq) + 1
      /\ \A i \in 1..Len(seq) : r[i] = seq[i]
      /\ r[Len(seq) + 1] = e
  BY AppendProperties
<1>2. Len(seq) \in Nat /\ DOMAIN seq = 1..Len(seq) /\ DOMAIN r = 1..Len(seq) + 1
  BY <1>1, LenProperties
<1>3. IsInjective(r)
  BY <1>1, <1>2 DEF IsInjective, Range
<1>4. Range(r) = Range(seq) \cup {e}
  <2>1. ASSUME NEW x \in Range(r) PROVE x \in Range(seq) \cup {e}
    <3>1. PICK i \in DOMAIN r : x = r[i]  BY DEF Range
    <3> QED  BY <1>1, <1>2, <3>1 DEF Range
  <2>2. ASSUME NEW x \in Range(seq) PROVE x \in Range(r)
    <3>1. PICK i \in DOMAIN seq : x = seq[i]  BY DEF Range
    <3>2. i \in DOMAIN r /\ r[i] = x  BY <1>1, <1>2, <3>1
    <3> QED  BY <3>2 DEF Range
  <2>3. e \in Range(r)  
    <3>1. Len(seq) + 1 \in DOMAIN r  BY <1>2
    <3> QED  BY <1>1, <3>1 DEF Range
  <2> QED  BY <2>1, <2>2, <2>3
<1> QED  BY <1>1, <1>3, <1>4

(* A list without repetitions is as long as it has elements.               *)
LEMMA InjectiveLen ==
    ASSUME NEW T, NEW seq \in Seq(T), IsInjective(seq)
    PROVE  IsFiniteSet(Range(seq)) /\ Cardinality(Range(seq)) = Len(seq)
<1>1. Len(seq) \in Nat /\ DOMAIN seq = 1..Len(seq) /\ seq \in [1..Len(seq) -> T]
  BY LenProperties
<1>2. seq \in Bijection(1..Len(seq), Range(seq))
  BY <1>1 DEF Bijection, Injection, Surjection, IsInjective, Range
<1>3. ExistsBijection(1..Len(seq), Range(seq))
  BY <1>2 DEF ExistsBijection
<1>4. 1 \in Int /\ Len(seq) \in Int
  BY <1>1
<1>5. IsFiniteSet(1..Len(seq)) /\ Cardinality(1..Len(seq)) = Len(seq)
  BY <1>1, <1>4, FS_Interval
<1> QED  BY <1>3, <1>5, FS_Bijection

-----------------------------------------------------------------------------
(***************************************************************************)
(* Sums.  A fold over a function is a recursion over the subsets of its    *)
(* domain.  Induction is not at hand, so each fact is shown by a smallest  *)
(* counterexample.                                                         *)
(***************************************************************************)

(* A set of naturals has a smallest element.                               *)
LEMMA Smallest ==
  ASSUME NEW T, T \subseteq Nat, T # {}
  PROVE  \E n \in T : \A m \in T : n <= m
<1>1. PICK n \in T : \A m \in T : ~(<<m, n>> \in OpToRel(<, Nat))
  BY NatLessThanWellFounded, WFMin
<1>2. \A m \in T : ~(m < n)
  BY <1>1 DEF OpToRel
<1> QED  BY <1>2

(* The element the fold takes out first.                                   *)
Any(s) == CHOOSE x \in s : TRUE

(* t gives the sum of f over each set of S.                                *)
SumsOver(t, f, S) ==
    /\ t \in [S -> Nat]
    /\ \A s \in S : t[s] = IF s = {} THEN 0 ELSE f[Any(s)] + t[s \ {Any(s)}]

(* The sets of at most n elements.                                         *)
UpTo(D, n) == {s \in SUBSET D : Cardinality(s) <= n}

(* Finite sets shrink by one.                                              *)
LEMMA SubsetLess ==
  ASSUME NEW D, IsFiniteSet(D), NEW s \in SUBSET D, NEW x \in s
  PROVE  /\ IsFiniteSet(s) /\ s \ {x} \in SUBSET D
         /\ Cardinality(s) \in Nat \ {0} /\ Cardinality(s \ {x}) = Cardinality(s) - 1
<1>1. IsFiniteSet(s)
  BY FS_Subset
<1>2. Cardinality(s) \in Nat /\ Cardinality(s \ {x}) = Cardinality(s) - 1
  BY <1>1, FS_CardinalityType, FS_RemoveElement
<1>3. IsFiniteSet(s \ {x})
  BY <1>1, FS_RemoveElement
<1>4. Cardinality(s \ {x}) \in Nat
  BY <1>3, FS_CardinalityType
<1> QED  BY <1>1, <1>2, <1>4

(* A table of the sums over small sets has a next one.                     *)
LEMMA SumsExtend ==
  ASSUME NEW D, IsFiniteSet(D), NEW f \in [D -> Nat], NEW n \in Nat,
         NEW t, SumsOver(t, f, UpTo(D, n))
  PROVE  \E u : SumsOver(u, f, UpTo(D, n + 1))
<1> DEFINE u == [s \in UpTo(D, n + 1) |->
                    IF s = {} THEN 0 ELSE f[Any(s)] + t[s \ {Any(s)}]]
<1>1. ASSUME NEW s \in UpTo(D, n + 1), s # {}
      PROVE  /\ Any(s) \in s /\ f[Any(s)] \in Nat
             /\ s \ {Any(s)} \in UpTo(D, n) /\ s \ {Any(s)} \in UpTo(D, n + 1)
  <2>1. s \in SUBSET D /\ Cardinality(s) <= n + 1
    BY DEF UpTo
  <2>2. Any(s) \in s
    BY <1>1 DEF Any
  <2>3. Cardinality(s \ {Any(s)}) = Cardinality(s) - 1 /\ Cardinality(s) \in Nat
    BY <2>1, <2>2, SubsetLess
  <2> QED  BY <2>1, <2>2, <2>3 DEF UpTo
<1>2. u \in [UpTo(D, n + 1) -> Nat]
  BY <1>1 DEF SumsOver
<1>3. ASSUME NEW s \in UpTo(D, n)
      PROVE  u[s] = t[s]
  <2>1. s \in UpTo(D, n + 1)
    <3>1. s \in SUBSET D /\ Cardinality(s) <= n
      BY DEF UpTo
    <3>2. Cardinality(s) \in Nat
      BY <3>1, FS_Subset, FS_CardinalityType
    <3> QED  BY <3>1, <3>2 DEF UpTo
  <2> QED  BY <2>1 DEF SumsOver
<1>4. \A s \in UpTo(D, n + 1) : u[s] = IF s = {} THEN 0 ELSE f[Any(s)] + u[s \ {Any(s)}]
  BY <1>1, <1>3
<1> QED  BY <1>2, <1>4 DEF SumsOver

(* So there is a table of the sums over all sets.                          *)
LEMMA SumsExist ==
  ASSUME NEW D, IsFiniteSet(D), NEW f \in [D -> Nat]
  PROVE  \E t : SumsOver(t, f, SUBSET D)
<1> DEFINE Without == {n \in Nat : ~ \E t : SumsOver(t, f, UpTo(D, n))}
<1>1. Without = {}
  <2>1. SUFFICES ASSUME Without # {} PROVE FALSE
    OBVIOUS
  <2>2. PICK n \in Without : \A m \in Without : n <= m
    BY <2>1, Smallest
  <2>3. n # 0
    <3>1. UpTo(D, 0) = {{}}
      <4>1. ASSUME NEW s \in UpTo(D, 0) PROVE s = {}
        <5>1. s \in SUBSET D /\ Cardinality(s) <= 0
          BY DEF UpTo
        <5>2. IsFiniteSet(s) /\ Cardinality(s) \in Nat
          BY <5>1, FS_Subset, FS_CardinalityType
        <5> QED  BY <5>1, <5>2, FS_EmptySet
      <4>2. {} \in UpTo(D, 0)
        BY FS_EmptySet DEF UpTo
      <4> QED  BY <4>1, <4>2
    <3>2. SumsOver([s \in {{}} |-> 0], f, {{}})
      BY DEF SumsOver
    <3> QED  BY <3>1, <3>2
  <2>4. n - 1 \in Nat /\ (n - 1) + 1 = n
    BY <2>3
  <2>5. PICK t : SumsOver(t, f, UpTo(D, n - 1))
    BY <2>2, <2>4
  <2> QED  BY <2>4, <2>5, SumsExtend
<1>2. Cardinality(D) \in Nat
  BY FS_CardinalityType
<1>3. UpTo(D, Cardinality(D)) = SUBSET D
  BY FS_Subset DEF UpTo
<1>4. \E t : SumsOver(t, f, UpTo(D, Cardinality(D)))
  BY <1>1, <1>2
<1> QED  BY <1>3, <1>4

(* t is such a table.                                                      *)
Sums(t, f, D) == IsFiniteSet(D) /\ f \in [D -> Nat] /\ SumsOver(t, f, SUBSET D)

(* h numbers the terms f anew.                                             *)
Renames(h, D, f, E, g) ==
    /\ h \in [D -> E]
    /\ \A x, y \in D : h[x] = h[y] => x = y
    /\ \A y \in E : \E x \in D : h[x] = y
    /\ \A x \in D : g[h[x]] = f[x]

(* A table of sums need not follow the order of the choices.               *)
LEMMA SumsAnyOrder ==
  ASSUME NEW D, NEW f, NEW t, Sums(t, f, D), NEW S \in SUBSET D, NEW z \in S
  PROVE  t[S] = f[z] + t[S \ {z}]
<1>0. IsFiniteSet(D) /\ f \in [D -> Nat] /\ SumsOver(t, f, SUBSET D)
  BY DEF Sums
<1> DEFINE Bad == {s \in SUBSET D : \E x \in s : t[s] # f[x] + t[s \ {x}]}
           Sizes == {Cardinality(s) : s \in Bad}
<1>1. SUFFICES ASSUME Bad # {} PROVE FALSE
  OBVIOUS
<1>2. Sizes \subseteq Nat /\ Sizes # {}
  <2>1. \A s \in SUBSET D : Cardinality(s) \in Nat
    BY <1>0, FS_Subset, FS_CardinalityType
  <2>2. Bad \subseteq SUBSET D
    OBVIOUS
  <2> HIDE DEF Bad
  <2> QED  BY <1>1, <2>1, <2>2
<1>3. PICK s \in Bad : \A r \in Bad : Cardinality(s) <= Cardinality(r)
  <2> HIDE DEF Bad
  <2>1. PICK n \in Sizes : \A m \in Sizes : n <= m
    BY <1>2, Smallest
  <2> QED  BY <2>1
<1>4. PICK x \in s : t[s] # f[x] + t[s \ {x}]
  OBVIOUS
<1> DEFINE c == Any(s)
<1>5. c \in s
  BY <1>4 DEF Any
<1>6. t[s] = f[c] + t[s \ {c}]
  BY <1>0, <1>5 DEF SumsOver
<1>7. c # x
  BY <1>4, <1>6
<1>8. ASSUME NEW y \in s PROVE s \ {y} \in SUBSET D /\ s \ {y} \notin Bad
  <2>1. /\ s \ {y} \in SUBSET D
        /\ Cardinality(s) \in Nat \ {0} /\ Cardinality(s \ {y}) = Cardinality(s) - 1
    BY <1>0, SubsetLess
  <2>2. ~(Cardinality(s) <= Cardinality(s \ {y}))
    BY <2>1
  <2> QED  BY <1>3, <2>1, <2>2
<1>9. t[s \ {c}] = f[x] + t[(s \ {c}) \ {x}]
  <2>1. x \in s \ {c}
    BY <1>7
  <2> QED  BY <1>5, <1>8, <2>1
<1>10. t[s \ {x}] = f[c] + t[(s \ {x}) \ {c}]
  <2>1. c \in s \ {x}
    BY <1>5, <1>7
  <2> QED  BY <1>8, <2>1
<1>11. (s \ {x}) \ {c} = (s \ {c}) \ {x}
  OBVIOUS
<1>12. f[x] \in Nat /\ f[c] \in Nat /\ t[(s \ {c}) \ {x}] \in Nat
  BY <1>0, <1>5 DEF SumsOver
<1>13. t[s \ {x}] = f[c] + t[(s \ {c}) \ {x}]
  BY <1>10, <1>11
<1> HIDE DEF c, Bad
<1> QED  BY <1>4, <1>6, <1>9, <1>12, <1>13

(* Sums do not depend on what the terms are numbered by.                   *)
LEMMA SumsRenamed ==
  ASSUME NEW D, NEW f, NEW t, Sums(t, f, D), NEW E, NEW g, NEW u, Sums(u, g, E),
         NEW h, Renames(h, D, f, E, g)
  PROVE  t[D] = u[E]
<1>0. /\ IsFiniteSet(D) /\ f \in [D -> Nat] /\ SumsOver(t, f, SUBSET D)
      /\ g \in [E -> Nat] /\ SumsOver(u, g, SUBSET E)
      /\ h \in [D -> E] /\ \A x, y \in D : h[x] = h[y] => x = y
      /\ \A x \in D : g[h[x]] = f[x]
      /\ \A y \in E : \E x \in D : h[x] = y
  BY DEF Sums, Renames
<1> DEFINE Image(s) == {h[x] : x \in s}
           Bad == {s \in SUBSET D : t[s] # u[Image(s)]}
           Sizes == {Cardinality(s) : s \in Bad}
<1>1. ASSUME Bad # {} PROVE FALSE
  <2>2. Sizes \subseteq Nat /\ Sizes # {}
    <3>1. \A s \in SUBSET D : Cardinality(s) \in Nat
      BY <1>0, FS_Subset, FS_CardinalityType
    <3>2. Bad \subseteq SUBSET D
      OBVIOUS
    <3> HIDE DEF Bad
    <3> QED  BY <1>1, <3>1, <3>2
  <2>3. PICK s \in Bad : \A r \in Bad : Cardinality(s) <= Cardinality(r)
    <3> HIDE DEF Bad
    <3>1. PICK n \in Sizes : \A m \in Sizes : n <= m
      BY <2>2, Smallest
    <3> QED  BY <3>1
  <2>4. s # {}
    <3>1. t[{}] = 0 /\ u[{}] = 0
      BY <1>0 DEF SumsOver
    <3>2. Image({}) = {}
      OBVIOUS
    <3> QED  BY <3>1, <3>2
  <2>5. PICK x \in s : TRUE
    BY <2>4
  <2>6. t[s] = f[x] + t[s \ {x}]
    BY SumsAnyOrder
  <2>7. PICK T : T = Image(s)
    OBVIOUS
  <2>8. h[x] \in T /\ T \in SUBSET E
    BY <1>0, <2>7
  <2>9. u[T] = g[h[x]] + u[T \ {h[x]}]
    BY <2>8, SumsAnyOrder
  <2>10. T \ {h[x]} = Image(s \ {x})
    BY <1>0, <2>7
  <2>11. t[s \ {x}] = u[Image(s \ {x})]
    <3>1. /\ s \ {x} \in SUBSET D
          /\ Cardinality(s) \in Nat \ {0} /\ Cardinality(s \ {x}) = Cardinality(s) - 1
      BY <1>0, SubsetLess
    <3>2. ~(Cardinality(s) <= Cardinality(s \ {x}))
      BY <3>1
    <3> QED  BY <2>3, <3>1, <3>2
  <2> QED  BY <1>0, <2>6, <2>7, <2>9, <2>10, <2>11
<1>2. E = Image(D)
  BY <1>0
<1> QED  BY <1>0, <1>1, <1>2

(* FoldFunction, of naturals over a finite domain.                         *)
Total(f) == FoldFunction(+, 0, f)

(* The fold is what the table gives for the whole domain.                  *)
LEMMA TotalIs ==
  ASSUME NEW D, IsFiniteSet(D), NEW f \in [D -> Nat]
  PROVE  \E t : Sums(t, f, D) /\ Total(f) = t[D]
<1> DEFINE Steps(t) == t = [s \in SUBSET D |->
                              IF s = {} THEN 0 ELSE f[Any(s)] + t[s \ {Any(s)}]]
           u == CHOOSE t : Steps(t)
<1>1. Total(f) = u[D]
  <2>1. DOMAIN f = D
    OBVIOUS
  <2> QED  BY <2>1 DEF Total, FoldFunction, FoldFunctionOnSet, MapThenFoldSet, Any
<1>2. PICK t : SumsOver(t, f, SUBSET D)
  BY SumsExist
<1>3. Steps(t)
  BY <1>2 DEF SumsOver
<1>4. Steps(u)
  <2> HIDE DEF Steps
  <2> QED  BY <1>3
<1> DEFINE Bad == {s \in SUBSET D : u[s] # t[s]}
           Sizes == {Cardinality(s) : s \in Bad}
<1>5. Bad = {}
  <2>1. SUFFICES ASSUME Bad # {} PROVE FALSE
    OBVIOUS
  <2>2. Sizes \subseteq Nat /\ Sizes # {}
    <3>1. \A s \in SUBSET D : Cardinality(s) \in Nat
      BY FS_Subset, FS_CardinalityType
    <3>2. Bad \subseteq SUBSET D
      OBVIOUS
    <3> HIDE DEF Bad
    <3> QED  BY <2>1, <3>1, <3>2
  <2>3. PICK s \in Bad : \A r \in Bad : Cardinality(s) <= Cardinality(r)
    <3> HIDE DEF Bad
    <3>1. PICK n \in Sizes : \A m \in Sizes : n <= m
      BY <2>2, Smallest
    <3> QED  BY <3>1
  <2>4. s # {}
    BY <1>3, <1>4
  <2>5. Any(s) \in s
    BY <2>4 DEF Any
  <2>6. u[s] = f[Any(s)] + u[s \ {Any(s)}] /\ t[s] = f[Any(s)] + t[s \ {Any(s)}]
    BY <1>3, <1>4, <2>4
  <2>7. u[s \ {Any(s)}] = t[s \ {Any(s)}]
    <3>1. /\ s \ {Any(s)} \in SUBSET D
          /\ Cardinality(s) \in Nat \ {0} /\ Cardinality(s \ {Any(s)}) = Cardinality(s) - 1
      BY <2>5, SubsetLess
    <3>2. ~(Cardinality(s) <= Cardinality(s \ {Any(s)}))
      BY <3>1
    <3> QED  BY <2>3, <3>1, <3>2
  <2> QED  BY <2>6, <2>7
<1> QED  BY <1>1, <1>2, <1>5 DEF Sums

(* g is f without the term of x.                                           *)
OneOut(g, f, D, x) == g = [d \in D \ {x} |-> f[d]]

(* A term may be taken out, ...                                            *)
LEMMA TotalOneOut ==
  ASSUME NEW D, IsFiniteSet(D), NEW f \in [D -> Nat], NEW x \in D,
         NEW g, OneOut(g, f, D, x)
  PROVE  Total(g) \in Nat /\ Total(f) = f[x] + Total(g)
<1>1. PICK E : E = D \ {x}
  OBVIOUS
<1>2. IsFiniteSet(E) /\ E \in SUBSET D /\ g \in [E -> Nat] /\ \A e \in E : g[e] = f[e]
  BY <1>1, FS_Subset DEF OneOut
<1>3. PICK t : Sums(t, f, D) /\ Total(f) = t[D]
  BY TotalIs
<1>4. PICK u : Sums(u, g, E) /\ Total(g) = u[E]
  BY <1>2, TotalIs
<1>5. PICK r : r = [s \in SUBSET E |-> t[s]]
  OBVIOUS
<1>6. Sums(r, g, E)
  <2>1. \A s \in SUBSET E : s # {} => Any(s) \in s
    BY DEF Any
  <2> QED  BY <1>2, <1>3, <1>5, <2>1 DEF Sums, SumsOver
<1>7. PICK i : i = [d \in E |-> d]
  OBVIOUS
<1>8. Renames(i, E, g, E, g)
  BY <1>7 DEF Renames
<1>9. r[E] = u[E]
  BY <1>4, <1>6, <1>8, SumsRenamed
<1>10. r[E] = t[E]
  BY <1>5
<1>11. t[D] = f[x] + t[E]
  <2>1. D \in SUBSET D
    OBVIOUS
  <2>2. t[D] = f[x] + t[D \ {x}]
    BY <1>3, <2>1, SumsAnyOrder
  <2> QED  BY <1>1, <2>2
<1>12. u[E] \in Nat
  BY <1>4 DEF Sums, SumsOver
<1> QED  BY <1>3, <1>4, <1>9, <1>10, <1>11, <1>12

(* ... and terms may be numbered anew.                                     *)
LEMMA TotalRenamed ==
  ASSUME NEW D, IsFiniteSet(D), NEW f \in [D -> Nat],
         NEW E, IsFiniteSet(E), NEW g \in [E -> Nat], NEW h, Renames(h, D, f, E, g)
  PROVE  Total(f) = Total(g)
<1>1. PICK t : Sums(t, f, D) /\ Total(f) = t[D]
  BY TotalIs
<1>2. PICK u : Sums(u, g, E) /\ Total(g) = u[E]
  BY TotalIs
<1>3. t[D] = u[E]
  BY <1>1, <1>2, SumsRenamed
<1> QED  BY <1>1, <1>2, <1>3

(* Nothing adds up to zero.                                                *)
LEMMA TotalNothing == Total(<<>>) = 0
<1>1. <<>> \in [{} -> Nat] /\ IsFiniteSet({})
  BY FS_EmptySet
<1>2. PICK t : Sums(t, <<>>, {}) /\ Total(<<>>) = t[{}]
  BY <1>1, TotalIs
<1> QED  BY <1>2 DEF Sums, SumsOver

(* What the orders of a queue have left, summed up.                        *)
SharesIn(ord, queue) == Total([i \in DOMAIN queue |-> ord[queue[i]].shares])

(* The terms of that sum.                                                  *)
Terms(f, ord, queue) == f = [i \in DOMAIN queue |-> ord[queue[i]].shares]

(* They are naturals.                                                      *)
Shares(ord, T) == \A x \in T : ord[x].shares \in Nat

(* So the sum is one.                                                      *)
LEMMA SharesTerms ==
  ASSUME NEW T, NEW queue \in Seq(T), NEW ord, Shares(ord, T),
         NEW f, Terms(f, ord, queue)
  PROVE  /\ IsFiniteSet(DOMAIN queue) /\ f \in [DOMAIN queue -> Nat]
         /\ SharesIn(ord, queue) = Total(f) /\ Total(f) \in Nat
<1>1. DOMAIN queue = 1..Len(queue) /\ Len(queue) \in Nat
  BY LenProperties
<1>2. IsFiniteSet(DOMAIN queue)
  BY <1>1, FS_Interval
<1>3. \A i \in DOMAIN queue : queue[i] \in T
  BY <1>1, ElementOfSeq
<1>4. f \in [DOMAIN queue -> Nat]
  BY <1>3 DEF Shares, Terms
<1>5. PICK t : Sums(t, f, DOMAIN queue) /\ Total(f) = t[DOMAIN queue]
  BY <1>2, <1>4, TotalIs
<1>6. Total(f) \in Nat
  BY <1>5 DEF Sums, SumsOver
<1> QED  BY <1>2, <1>4, <1>6 DEF SharesIn, Terms

(* An empty queue has nothing left, ...                                    *)
LEMMA SharesOfNone == \A ord : SharesIn(ord, <<>>) = 0
<1>1. \A ord : [i \in DOMAIN <<>> |-> ord[<<>>[i]].shares] = <<>>
  OBVIOUS
<1> QED  BY <1>1, TotalNothing DEF SharesIn

(* ... joining adds what it has, ...                                       *)
LEMMA SharesAppend ==
  ASSUME NEW T, NEW queue \in Seq(T), NEW ord, Shares(ord, T), NEW o \in T
  PROVE  SharesIn(ord, Append(queue, o)) = SharesIn(ord, queue) + ord[o].shares
<1>1. PICK n : n = Len(queue) + 1
  OBVIOUS
<1>2. PICK r : r = Append(queue, o)
  OBVIOUS
<1>3. /\ DOMAIN queue = 1..Len(queue) /\ Len(queue) \in Nat
      /\ r \in Seq(T) /\ DOMAIN r = 1..n /\ r[n] = o
      /\ \A i \in 1..Len(queue) : r[i] = queue[i]
  BY <1>1, <1>2, LenProperties, AppendProperties
<1>4. DOMAIN queue = DOMAIN r \ {n} /\ n \in DOMAIN r
  BY <1>1, <1>3
<1>5. PICK f : Terms(f, ord, queue)
  BY DEF Terms
<1>6. PICK g : Terms(g, ord, r)
  BY DEF Terms
<1>7. SharesIn(ord, queue) = Total(f) /\ Total(f) \in Nat
  BY <1>5, SharesTerms
<1>8. IsFiniteSet(DOMAIN r) /\ g \in [DOMAIN r -> Nat] /\ SharesIn(ord, r) = Total(g)
  BY <1>3, <1>6, SharesTerms
<1>9. OneOut(f, g, DOMAIN r, n)
  BY <1>3, <1>4, <1>5, <1>6 DEF OneOut, Terms
<1>10. Total(g) = g[n] + Total(f)
  BY <1>4, <1>8, <1>9, TotalOneOut
<1>11. g[n] = ord[o].shares /\ ord[o].shares \in Nat
  BY <1>3, <1>4, <1>6 DEF Shares, Terms
<1> QED  BY <1>2, <1>7, <1>8, <1>10, <1>11

(* ... leaving takes it away, ...                                          *)
LEMMA SharesUnlink ==
  ASSUME NEW T, NEW queue \in Seq(T), NEW ord, Shares(ord, T), NEW o \in Range(queue)
  PROVE  /\ SharesIn(ord, Unlink(queue, o)) \in Nat
         /\ SharesIn(ord, queue) = SharesIn(ord, Unlink(queue, o)) + ord[o].shares
<1>1. PICK r : r = Unlink(queue, o)
  OBVIOUS
<1>2. /\ r \in Seq(T) /\ Len(r) = Len(queue) - 1
      /\ \E k \in 1..Len(queue) :
            /\ queue[k] = o
            /\ \A i \in 1..Len(queue) - 1 : r[i] = IF i < k THEN queue[i] ELSE queue[i + 1]
  BY <1>1, UnlinkIs
<1>3. PICK k \in 1..Len(queue) :
            /\ queue[k] = o
            /\ \A i \in 1..Len(queue) - 1 : r[i] = IF i < k THEN queue[i] ELSE queue[i + 1]
  BY <1>2
<1>4. DOMAIN queue = 1..Len(queue) /\ Len(queue) \in Nat /\ DOMAIN r = 1..Len(queue) - 1
  BY <1>2, LenProperties
<1>5. PICK f : Terms(f, ord, queue)
  BY DEF Terms
<1>6. PICK g : Terms(g, ord, r)
  BY DEF Terms
<1>7. IsFiniteSet(DOMAIN queue) /\ f \in [DOMAIN queue -> Nat] /\ SharesIn(ord, queue) = Total(f)
  BY <1>5, SharesTerms
<1>8. /\ IsFiniteSet(DOMAIN r) /\ g \in [DOMAIN r -> Nat]
      /\ SharesIn(ord, r) = Total(g) /\ Total(g) \in Nat
  BY <1>2, <1>6, SharesTerms
<1>9. PICK E : E = DOMAIN queue \ {k}
  OBVIOUS
<1>10. PICK e : OneOut(e, f, DOMAIN queue, k)
  BY DEF OneOut
<1>11. Total(f) = f[k] + Total(e)
  BY <1>4, <1>7, <1>10, TotalOneOut
<1>12. PICK h : h = [i \in DOMAIN r |-> IF i < k THEN i ELSE i + 1]
  OBVIOUS
<1>13. Renames(h, DOMAIN r, g, E, e)
  <2>1. h \in [DOMAIN r -> E]
    BY <1>4, <1>9, <1>12
  <2>2. \A x, y \in DOMAIN r : h[x] = h[y] => x = y
    BY <1>4, <1>12
  <2>3. ASSUME NEW y \in E PROVE \E x \in DOMAIN r : h[x] = y
    <3>1. CASE y < k
      BY <1>4, <1>9, <1>12, <3>1
    <3>2. CASE y > k
      <4>1. y - 1 \in DOMAIN r /\ h[y - 1] = y
        BY <1>4, <1>9, <1>12, <3>2
      <4> QED  BY <4>1
    <3> QED  BY <1>4, <1>9, <3>1, <3>2
  <2>4. ASSUME NEW x \in DOMAIN r PROVE e[h[x]] = g[x]
    <3>1. h[x] \in E /\ queue[h[x]] = r[x]
      BY <1>3, <1>4, <1>12, <2>1
    <3>2. e[h[x]] = f[h[x]] /\ h[x] \in DOMAIN queue
      BY <1>9, <1>10, <3>1 DEF OneOut
    <3> QED  BY <1>5, <1>6, <3>1, <3>2 DEF Terms
  <2> QED  BY <2>1, <2>2, <2>3, <2>4 DEF Renames
<1>14. Total(g) = Total(e)
  <2>1. IsFiniteSet(E) /\ e \in [E -> Nat]
    BY <1>7, <1>9, <1>10, FS_Subset DEF OneOut
  <2> QED  BY <1>8, <1>13, <2>1, TotalRenamed
<1>15. f[k] = ord[o].shares /\ f[k] \in Nat
  BY <1>3, <1>4, <1>5, <1>7 DEF Terms
<1> QED  BY <1>1, <1>7, <1>8, <1>11, <1>14, <1>15

(* ... a fill is seen once ...                                             *)
LEMMA SharesFill ==
  ASSUME NEW T, NEW queue \in Seq(T), IsInjective(queue), NEW ord, Shares(ord, T),
         NEW ord2, Shares(ord2, T), NEW o \in Range(queue),
         \A x \in T : x # o => ord2[x].shares = ord[x].shares
  PROVE  SharesIn(ord, queue) - ord[o].shares = SharesIn(ord2, queue) - ord2[o].shares
<1>1. PICK k \in DOMAIN queue : queue[k] = o
  BY DEF Range
<1>2. \A i \in DOMAIN queue : queue[i] \in T
  BY LenProperties, ElementOfSeq
<1>3. PICK f : Terms(f, ord, queue)
  BY DEF Terms
<1>4. PICK g : Terms(g, ord2, queue)
  BY DEF Terms
<1>5. /\ IsFiniteSet(DOMAIN queue) /\ f \in [DOMAIN queue -> Nat]
      /\ SharesIn(ord, queue) = Total(f)
  BY <1>3, SharesTerms
<1>6. g \in [DOMAIN queue -> Nat] /\ SharesIn(ord2, queue) = Total(g)
  BY <1>4, SharesTerms
<1>7. PICK e : OneOut(e, f, DOMAIN queue, k)
  BY DEF OneOut
<1>8. OneOut(e, g, DOMAIN queue, k)
  BY <1>1, <1>2, <1>3, <1>4, <1>7 DEF IsInjective, OneOut, Terms
<1>9. Total(e) \in Nat /\ Total(f) = f[k] + Total(e)
  BY <1>5, <1>7, TotalOneOut
<1>10. Total(g) = g[k] + Total(e)
  BY <1>5, <1>6, <1>8, TotalOneOut, SMTT(30)
<1>11. f[k] = ord[o].shares /\ g[k] = ord2[o].shares /\ f[k] \in Nat /\ g[k] \in Nat
  BY <1>1, <1>3, <1>4, <1>5, <1>6 DEF Terms
<1> QED  BY <1>5, <1>6, <1>9, <1>10, <1>11

(* ... and what becomes of other orders does not matter.                   *)
LEMMA SharesSame ==
  ASSUME NEW queue, NEW ord, NEW ord2, \A x \in Range(queue) : ord2[x].shares = ord[x].shares
  PROVE  SharesIn(ord2, queue) = SharesIn(ord, queue)
<1>1. [i \in DOMAIN queue |-> ord2[queue[i]].shares] = [i \in DOMAIN queue |-> ord[queue[i]].shares]
  BY DEF Range
<1> QED  BY <1>1 DEF SharesIn

-----------------------------------------------------------------------------
(* Sequences seen through a function.                                      *)

(* What a queue shows, if x shows f[x].                                    *)
Mapped(queue, f) == [i \in DOMAIN queue |-> f[queue[i]]]

(* A function on 1..n is a sequence.                                       *)
LEMMA SeqOfLen ==
    ASSUME NEW T, NEW n \in Nat, NEW f \in [1..n -> T]
    PROVE  f \in Seq(T) /\ Len(f) = n
<1>1. f \in Seq(T)
  BY SeqDef
<1> QED  BY <1>1, LenProperties

(* A queue at its back.                                                    *)
LEMMA MappedAppend ==
    ASSUME NEW T, NEW queue \in Seq(T), NEW x \in T, NEW f
    PROVE  Mapped(Append(queue, x), f) = Append(Mapped(queue, f), f[x])
<1>1. Len(queue) \in Nat /\ DOMAIN queue = 1..Len(queue)
  BY LenProperties
<1>2. PICK r : r = Append(queue, x)
  OBVIOUS
<1>3. /\ r \in Seq(T) /\ Len(r) = Len(queue) + 1 /\ r[Len(queue) + 1] = x
      /\ \A i \in 1..Len(queue) : r[i] = queue[i]
  BY <1>2, AppendProperties
<1>4. DOMAIN r = 1..Len(queue) + 1
  BY <1>3, LenProperties
<1>5. PICK a : a = Mapped(queue, f)
  OBVIOUS
<1>6. a \in Seq({f[y] : y \in T}) /\ Len(a) = Len(queue)
  <2>1. \A i \in 1..Len(queue) : queue[i] \in T
    BY ElementOfSeq
  <2>2. a \in [1..Len(queue) -> {f[y] : y \in T}]
    BY <1>1, <1>5, <2>1 DEF Mapped
  <2> QED  BY <1>1, <2>2, SeqOfLen
<1>7. PICK b : b = Append(a, f[x])
  OBVIOUS
<1>8. /\ b \in Seq({f[y] : y \in T}) /\ Len(b) = Len(queue) + 1 /\ b[Len(queue) + 1] = f[x]
      /\ \A i \in 1..Len(queue) : b[i] = a[i]
  BY <1>6, <1>7, AppendProperties
<1>9. DOMAIN b = 1..Len(queue) + 1 /\ b = [i \in DOMAIN b |-> b[i]]
  BY <1>8, LenProperties
<1>10. \A i \in 1..Len(queue) + 1 : b[i] = f[r[i]]
  BY <1>1, <1>3, <1>5, <1>8 DEF Mapped
<1>11. b = [i \in DOMAIN r |-> f[r[i]]]
  BY <1>4, <1>9, <1>10
<1> QED  BY <1>2, <1>5, <1>7, <1>11 DEF Mapped

(* A queue without one of its elements, if no two of them show the same.   *)
LEMMA MappedUnlink ==
    ASSUME NEW T, NEW queue \in Seq(T), IsInjective(queue), NEW x \in Range(queue), NEW f,
           \A y, z \in Range(queue) : f[y] = f[z] => y = z
    PROVE  Unlink(Mapped(queue, f), f[x]) = Mapped(Unlink(queue, x), f)
<1>1. Len(queue) \in Nat /\ DOMAIN queue = 1..Len(queue)
  BY LenProperties
<1>2. PICK a : a = Mapped(queue, f)
  OBVIOUS
<1>3. a \in Seq({f[y] : y \in T}) /\ Len(a) = Len(queue) /\ DOMAIN a = DOMAIN queue
  <2>1. \A i \in 1..Len(queue) : queue[i] \in T
    BY ElementOfSeq
  <2>2. a \in [1..Len(queue) -> {f[y] : y \in T}]
    BY <1>1, <1>2, <2>1 DEF Mapped
  <2> QED  BY <1>1, <2>2, SeqOfLen
<1>4. \A i \in DOMAIN queue : a[i] = f[queue[i]] /\ queue[i] \in Range(queue)
  BY <1>2 DEF Mapped, Range
<1>5. f[x] \in Range(a)
  <2>1. PICK i \in DOMAIN queue : queue[i] = x
    BY DEF Range
  <2>2. a[i] = f[x] /\ i \in DOMAIN a
    BY <1>3, <1>4, <2>1
  <2> QED  BY <2>2 DEF Range
<1>6. PICK r : r = Unlink(queue, x)
  OBVIOUS
<1>7. PICK b : b = Unlink(a, f[x])
  OBVIOUS
<1>8. /\ r \in Seq(T) /\ Len(r) = Len(queue) - 1
      /\ \E k \in 1..Len(queue) :
           /\ queue[k] = x
           /\ \A i \in 1..Len(queue) - 1 : r[i] = IF i < k THEN queue[i] ELSE queue[i + 1]
  BY <1>6, UnlinkIs
<1>9. /\ b \in Seq({f[y] : y \in T}) /\ Len(b) = Len(queue) - 1
      /\ \E k \in 1..Len(queue) :
           /\ a[k] = f[x]
           /\ \A i \in 1..Len(queue) - 1 : b[i] = IF i < k THEN a[i] ELSE a[i + 1]
  <2>1. PICK e : e = f[x]
    OBVIOUS
  <2>2. PICK U : U = {f[y] : y \in T}
    OBVIOUS
  <2>3. a \in Seq(U) /\ Len(a) = Len(queue) /\ e \in Range(a) /\ b = Unlink(a, e)
    BY <1>3, <1>5, <1>7, <2>1, <2>2
  <2>4. /\ b \in Seq(U) /\ Len(b) = Len(a) - 1
        /\ \E k \in 1..Len(a) :
             /\ a[k] = e
             /\ \A i \in 1..Len(a) - 1 : b[i] = IF i < k THEN a[i] ELSE a[i + 1]
    BY <2>3, UnlinkIs
  <2> QED  BY <2>1, <2>2, <2>3, <2>4
<1>10. PICK k \in 1..Len(queue) :
         /\ queue[k] = x
         /\ \A i \in 1..Len(queue) - 1 : r[i] = IF i < k THEN queue[i] ELSE queue[i + 1]
  BY <1>8
<1>11. PICK j \in 1..Len(queue) :
         /\ a[j] = f[x]
         /\ \A i \in 1..Len(queue) - 1 : b[i] = IF i < j THEN a[i] ELSE a[i + 1]
  BY <1>9
<1>12. j = k
  BY <1>1, <1>4, <1>10, <1>11 DEF IsInjective
<1>13. \A i \in 1..Len(queue) - 1 : b[i] = f[r[i]]
  BY <1>1, <1>4, <1>10, <1>11, <1>12
<1>14. /\ DOMAIN b = 1..Len(queue) - 1 /\ b = [i \in DOMAIN b |-> b[i]]
       /\ DOMAIN r = 1..Len(queue) - 1
  BY <1>8, <1>9, LenProperties
<1>15. b = [i \in DOMAIN r |-> f[r[i]]]
  BY <1>13, <1>14
<1> QED  BY <1>2, <1>6, <1>7, <1>15 DEF Mapped

=============================================================================
