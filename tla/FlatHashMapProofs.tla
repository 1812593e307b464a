------------------------- MODULE FlatHashMapProofs --------------------------
(***************************************************************************)
(* For any capacity, any set of keys and any hash function: a key has one  *)
(* cell, find finds what was inserted, and the table is a bounded map.     *)
(***************************************************************************)
EXTENDS FlatHashMap, FiniteSetTheorems, TLAPS

(* The types, and a value in every cell that has a key.                    *)
TableOK ==
    /\ home \in [Keys \cup {Empty} -> Cells]
    /\ keys \in [Cells -> Keys \cup {Empty}]
    /\ values \in [Cells -> Values \cup {Null}]
    /\ cursor \in Cells \cup {-1}
    /\ \A i \in Cells : keys[i] # Empty => values[i] \in Values

(* The invariant of linear probing.  Between the home of a key and its     *)
(* cell no cell is free, unless erase is repairing: then a free cell may   *)
(* lie before the cursor, for a key at or behind it.                       *)
ChainsWhole ==
    \A i, j \in Cells :
        keys[i] # Empty /\ keys[j] = Empty /\ Distance(keys[i], j) < Distance(keys[i], i)
            => /\ cursor # -1
               /\ Distance(keys[i], j) < Distance(keys[i], cursor)
               /\ Distance(keys[i], cursor) <= Distance(keys[i], i)

MapInv == TableOK /\ KeysUnique /\ ChainsWhole

-----------------------------------------------------------------------------
(* Arithmetic modulo the capacity.                                         *)

(* The remainder of a number below twice the capacity.                     *)
LEMMA ModIs ==
  ASSUME NEW x \in Nat, x < 2 * Capacity
  PROVE  x % Capacity = IF x < Capacity THEN x ELSE x - Capacity
<1>1. Capacity \in Nat /\ Capacity > 0
  BY CapacityPositive
<1>2. PICK q \in Int : q = x \div Capacity
  BY <1>1
<1>3. PICK r \in Int : r = x % Capacity
  BY <1>1
<1>4. PICK p \in Int : p = Capacity * q
  BY <1>1
<1>5. x = p + r /\ 0 <= r /\ r < Capacity
  BY <1>1, <1>2, <1>3, <1>4
<1>6. CASE q <= -1
  <2>1. p <= -Capacity
    BY <1>1, <1>4, <1>6
  <2>. QED  BY <1>1, <1>5, <2>1
<1>7. CASE q = 0
  <2>1. p = 0
    BY <1>1, <1>4, <1>7
  <2>. QED  BY <1>1, <1>3, <1>5, <2>1
<1>8. CASE q = 1
  <2>1. p = Capacity
    BY <1>1, <1>4, <1>8
  <2>. QED  BY <1>1, <1>3, <1>5, <2>1
<1>9. CASE q >= 2
  <2>1. p >= 2 * Capacity
    BY <1>1, <1>4, <1>9
  <2>. QED  BY <1>1, <1>5, <2>1
<1>. QED  BY <1>6, <1>7, <1>8, <1>9

(* How far i is behind the home of a key.                                  *)
LEMMA DistanceIs ==
  ASSUME TableOK, NEW k \in Keys \cup {Empty}, NEW i \in Cells
  PROVE  /\ home[k] \in Cells
         /\ Distance(k, i) = IF i >= home[k] THEN i - home[k] ELSE i - home[k] + Capacity
         /\ Distance(k, i) \in 0..(Capacity - 1)
<1>1. Capacity \in Nat /\ Capacity > 0
  BY CapacityPositive
<1>2. home[k] \in Cells
  BY DEF TableOK
<1>3. PICK h : h = home[k]
  OBVIOUS
<1>4. /\ h \in Nat /\ i \in Nat /\ h < Capacity /\ i < Capacity
      /\ i - h + Capacity \in Nat /\ i - h + Capacity < 2 * Capacity
  BY <1>1, <1>2, <1>3 DEF Cells
<1>5. PICK x \in Nat : x = i - h + Capacity
  BY <1>4
<1>6. x % Capacity = IF x < Capacity THEN x ELSE x - Capacity
  BY <1>4, <1>5, ModIs
<1>7. Distance(k, i) = x % Capacity
  BY <1>3, <1>5 DEF Distance
<1>8. Distance(k, i) = IF i >= h THEN i - h ELSE i - h + Capacity
  BY <1>1, <1>4, <1>5, <1>6, <1>7
<1>. QED  BY <1>1, <1>2, <1>3, <1>4, <1>8

(* The cell behind i.                                                      *)
LEMMA AfterIs ==
  ASSUME NEW i \in Cells
  PROVE  /\ After(i) \in Cells
         /\ After(i) = IF i = Capacity - 1 THEN 0 ELSE i + 1
<1>1. Capacity \in Nat /\ Capacity > 0 /\ i \in Nat /\ i < Capacity
  BY CapacityPositive DEF Cells
<1>2. PICK x \in Nat : x = i + 1
  BY <1>1
<1>3. x % Capacity = IF x < Capacity THEN x ELSE x - Capacity
  BY <1>1, <1>2, ModIs
<1>4. After(i) = x % Capacity
  BY <1>2 DEF After
<1>5. After(i) = IF i = Capacity - 1 THEN 0 ELSE i + 1
  <2>1. CASE i = Capacity - 1
    BY <1>1, <1>2, <1>3, <1>4, <2>1
  <2>2. CASE i # Capacity - 1
    <3>1. x < Capacity
      BY <1>1, <1>2, <2>2
    <3>. QED  BY <1>2, <1>3, <1>4, <2>2, <3>1
  <2>. QED  BY <2>1, <2>2
<1>. QED  BY <1>1, <1>5 DEF Cells

(* Cells at the same distance are the same.                                *)
LEMMA DistanceOnce ==
  ASSUME TableOK, NEW k \in Keys \cup {Empty}, NEW i \in Cells, NEW j \in Cells,
         Distance(k, i) = Distance(k, j)
  PROVE  i = j
<1>1. PICK h \in Cells : h = home[k]
  BY DistanceIs
<1>2. /\ Distance(k, i) = IF i >= h THEN i - h ELSE i - h + Capacity
      /\ Distance(k, j) = IF j >= h THEN j - h ELSE j - h + Capacity
  BY <1>1, DistanceIs
<1>3. /\ Capacity \in Nat /\ h \in Nat /\ h < Capacity
      /\ i \in Nat /\ i < Capacity /\ j \in Nat /\ j < Capacity
  BY CapacityPositive DEF Cells
<1>4. (IF i >= h THEN i - h ELSE i - h + Capacity) = (IF j >= h THEN j - h ELSE j - h + Capacity)
  BY <1>2
<1>. QED  BY <1>3, <1>4

(* One cell on, unless i is the last that is probed.                       *)
LEMMA DistanceAfter ==
  ASSUME TableOK, NEW k \in Keys \cup {Empty}, NEW i \in Cells, NEW j \in Cells,
         Distance(k, i) < Distance(k, j)
  PROVE  Distance(k, After(i)) = Distance(k, i) + 1
<1>1. PICK h \in Cells : h = home[k]
  BY DistanceIs
<1>2. PICK a \in Cells : a = After(i)
  BY AfterIs
<1>3. a = IF i = Capacity - 1 THEN 0 ELSE i + 1
  BY <1>2, AfterIs
<1>4. /\ Distance(k, i) = IF i >= h THEN i - h ELSE i - h + Capacity
      /\ Distance(k, a) = IF a >= h THEN a - h ELSE a - h + Capacity
      /\ Distance(k, j) < Capacity /\ Distance(k, j) \in Nat
  BY <1>1, DistanceIs, CapacityPositive
<1>5. Capacity \in Nat /\ \A c \in Cells : c \in Nat /\ c < Capacity
  BY CapacityPositive DEF Cells
<1>. QED  BY <1>2, <1>3, <1>4, <1>5

-----------------------------------------------------------------------------
(* Tables.  Parts of the invariant, of a table t and a cursor c.           *)
Tables == [Cells -> Keys \cup {Empty}]

Once(t) == \A i, j \in Cells : t[i] = t[j] /\ t[i] # Empty => i = j

Whole(t, c) ==
    \A i, j \in Cells :
        t[i] # Empty /\ t[j] = Empty /\ Distance(t[i], j) < Distance(t[i], i)
            => /\ c # -1
               /\ Distance(t[i], j) < Distance(t[i], c)
               /\ Distance(t[i], c) <= Distance(t[i], i)

(* Where a probe stops.                                                    *)
LEMMA StopsIs ==
  ASSUME NEW t, NEW k, NEW i \in Stops(t, k)
  PROVE  /\ i \in Cells /\ t[i] \in {Empty, k}
         /\ \A j \in Cells : t[j] \in {Empty, k} => Distance(k, i) <= Distance(k, j)
BY DEF Stops

(* An entry is taken out of the cell x: by erase, from a whole table, or   *)
(* by a turn of the repair loop at its cursor.                             *)
LEMMA TakeOutKeeps ==
  ASSUME TableOK, NEW t \in Tables, Once(t), NEW x \in Cells, t[x] # Empty,
         NEW c \in {-1, x}, Whole(t, c), NEW u, u = [t EXCEPT ![x] = Empty]
  PROVE  /\ u \in Tables /\ Once(u) /\ Whole(u, After(x))
         /\ \A y \in Cells : u[y] # t[x]
<1>1. /\ u \in Tables /\ u[x] = Empty
      /\ \A y \in Cells : y # x => u[y] = t[y]
  BY DEF Tables
<1>2. Once(u) /\ \A y \in Cells : u[y] # t[x]
  BY <1>1 DEF Once
<1>3. ASSUME NEW i \in Cells, NEW j \in Cells, u[i] # Empty, u[j] = Empty,
             Distance(u[i], j) < Distance(u[i], i)
      PROVE  /\ After(x) # -1
             /\ Distance(u[i], j) < Distance(u[i], After(x))
             /\ Distance(u[i], After(x)) <= Distance(u[i], i)
  <2>1. After(x) \in Nat
    BY AfterIs DEF Cells
  <2>2. PICK k \in Keys \cup {Empty} : k = u[i]
    BY <1>1 DEF Tables
  <2>3. i # x /\ t[i] = k /\ k # Empty
    BY <1>1, <1>3, <2>2
  <2>4. /\ Distance(k, i) \in Nat /\ Distance(k, j) \in Nat /\ Distance(k, x) \in Nat
        /\ Distance(k, j) < Distance(k, i)
    BY <1>3, <2>2, DistanceIs
  <2>5. Distance(k, x) < Distance(k, i) /\ Distance(k, j) <= Distance(k, x)
    <3>1. CASE j = x
      BY <2>4, <3>1
    <3>2. CASE j # x
      <4>1. t[j] = Empty
        BY <1>1, <1>3, <3>2
      <4>2. c # -1 /\ Distance(k, j) < Distance(k, c) /\ Distance(k, c) <= Distance(k, i)
        BY <2>3, <2>4, <4>1 DEF Whole
      <4>3. c = x
        BY <4>2
      <4>4. Distance(k, x) # Distance(k, i)
        BY <2>3, DistanceOnce
      <4>. QED  BY <2>4, <4>2, <4>3, <4>4
    <3>. QED  BY <3>1, <3>2
  <2>6. Distance(k, After(x)) = Distance(k, x) + 1
    BY <2>5, DistanceAfter
  <2>. QED  BY <2>1, <2>2, <2>4, <2>5, <2>6
<1>4. Whole(u, After(x))
  BY <1>3 DEF Whole
<1>. QED  BY <1>1, <1>2, <1>4

(* A key that the table does not have is put where its probe stops.        *)
LEMMA PlaceKeeps ==
  ASSUME TableOK, NEW t \in Tables, Once(t), NEW k \in Keys, \A y \in Cells : t[y] # k,
         NEW i \in Stops(t, k), NEW c, Whole(t, c), NEW u, u = [t EXCEPT ![i] = k]
  PROVE  u \in Tables /\ Once(u) /\ Whole(u, c) /\ t[i] = Empty
<1>1. /\ i \in Cells /\ t[i] = Empty
      /\ \A j \in Cells : t[j] \in {Empty, k} => Distance(k, i) <= Distance(k, j)
  BY StopsIs
<1>2. /\ u \in Tables /\ u[i] = k /\ k # Empty
      /\ \A y \in Cells : y # i => u[y] = t[y]
  BY <1>1, EmptyIsNoKey DEF Tables
<1>3. Once(u)
  BY <1>2 DEF Once
<1>4. ASSUME NEW e \in Cells, NEW j \in Cells, u[e] # Empty, u[j] = Empty,
             Distance(u[e], j) < Distance(u[e], e)
      PROVE  /\ c # -1
             /\ Distance(u[e], j) < Distance(u[e], c)
             /\ Distance(u[e], c) <= Distance(u[e], e)
  <2>1. j # i /\ t[j] = Empty
    BY <1>2, <1>4
  <2>2. Distance(k, i) <= Distance(k, j)
    BY <1>1, <2>1
  <2>3. Distance(k, i) \in Nat /\ Distance(k, j) \in Nat
    BY <1>1, DistanceIs
  <2>4. e # i
    BY <1>2, <1>4, <2>2, <2>3
  <2>5. u[e] = t[e]
    BY <1>2, <2>4
  <2>. QED  BY <1>4, <2>1, <2>5 DEF Whole
<1>5. Whole(u, c)
  BY <1>4 DEF Whole
<1>. QED  BY <1>1, <1>2, <1>3, <1>5

(* A repair that has come to a free cell has nothing left to do.           *)
LEMMA RepairDone ==
  ASSUME TableOK, NEW t \in Tables, NEW c \in Cells, t[c] = Empty, Whole(t, c)
  PROVE  Whole(t, -1)
<1>1. ASSUME NEW i \in Cells, NEW j \in Cells, t[i] # Empty, t[j] = Empty,
             Distance(t[i], j) < Distance(t[i], i)
      PROVE  FALSE
  <2>1. PICK k \in Keys \cup {Empty} : k = t[i]
    BY DEF Tables
  <2>2. Distance(k, c) <= Distance(k, i)
    BY <1>1, <2>1 DEF Whole
  <2>3. i # c
    BY <1>1
  <2>4. Distance(k, c) # Distance(k, i)
    BY <2>3, DistanceOnce
  <2>5. Distance(k, c) \in Nat /\ Distance(k, i) \in Nat
    BY DistanceIs
  <2>6. Distance(k, c) < Distance(k, i)
    BY <2>2, <2>4, <2>5
  <2>7. Distance(k, c) < Distance(k, c)
    BY <1>1, <2>1, <2>6 DEF Whole
  <2>. QED  BY <2>5, <2>7
<1>. QED  BY <1>1 DEF Whole

(* In a whole table a probe for a key that is there stops at the key.      *)
LEMMA ProbeFinds ==
  ASSUME TableOK, NEW t \in Tables, Once(t), Whole(t, -1), NEW k \in Keys,
         NEW i \in Stops(t, k), NEW e \in Cells, t[e] = k
  PROVE  i = e
<1>1. /\ i \in Cells /\ t[i] \in {Empty, k}
      /\ Distance(k, i) <= Distance(k, e)
  BY StopsIs
<1>2. k # Empty
  BY EmptyIsNoKey
<1>3. CASE t[i] = k
  BY <1>1, <1>2, <1>3 DEF Once
<1>4. CASE t[i] = Empty
  <2>1. i # e
    BY <1>2, <1>4
  <2>2. Distance(k, i) # Distance(k, e)
    BY <1>1, <2>1, DistanceOnce
  <2>3. Distance(k, i) \in Nat /\ Distance(k, e) \in Nat
    BY <1>1, DistanceIs
  <2>4. Distance(k, i) < Distance(k, e)
    BY <1>1, <2>2, <2>3
  <2>. QED  BY <1>1, <1>2, <1>4, <2>4 DEF Whole
<1>. QED  BY <1>1, <1>3, <1>4

-----------------------------------------------------------------------------
(* The invariant.                                                          *)

(* The next table, while the hash function stays the same.                 *)
LEMMA MapInvNext ==
  ASSUME home' = home, TableOK', Once(keys'), Whole(keys', cursor')
  PROVE  MapInv'
<1>1. KeysUnique'
  BY DEF Once, KeysUnique
<1>2. ChainsWhole'
  BY DEF ChainsWhole, Whole, Distance
<1>. QED  BY <1>1, <1>2 DEF MapInv

(* The parts of the invariant.                                             *)
LEMMA MapInvParts ==
  ASSUME MapInv
  PROVE  /\ TableOK /\ keys \in Tables /\ Once(keys) /\ Whole(keys, cursor)
BY DEF MapInv, TableOK, Tables, KeysUnique, Once, ChainsWhole, Whole

(* An empty table.                                                         *)
LEMMA MapInitially == Init => MapInv
<1>. SUFFICES ASSUME Init PROVE MapInv
  OBVIOUS
<1>1. TableOK
  BY DEF Init, TableOK
<1>2. KeysUnique /\ ChainsWhole
  BY DEF Init, KeysUnique, ChainsWhole
<1>. QED  BY <1>1, <1>2 DEF MapInv

(* insert: the key is there already, or there is a free cell for it; the   *)
(* empty key leaves its value in a free cell.                              *)
LEMMA InsertKeeps ==
  ASSUME MapInv, NEW k \in Keys \cup {Empty}, NEW v \in Values, Insert(k, v)
  PROVE  MapInv'
<1>1. TableOK /\ keys \in Tables /\ Once(keys) /\ Whole(keys, cursor)
  BY MapInvParts
<1>2. PICK i \in Stops(keys, k) :
         /\ keys' = [keys EXCEPT ![i] = k]
         /\ values' = [values EXCEPT ![i] = v]
  BY DEF Insert
<1>3. home' = home /\ cursor' = cursor /\ cursor = -1
  BY DEF Insert
<1>4. i \in Cells /\ keys[i] \in {Empty, k}
  BY StopsIs
<1>5. TableOK'
  BY <1>1, <1>2, <1>3, <1>4 DEF TableOK
<1>6. CASE keys[i] = k
  <2>1. keys' = keys
    BY <1>1, <1>2, <1>4, <1>6 DEF Tables
  <2>. QED  BY <1>1, <1>3, <1>5, <2>1, MapInvNext
<1>7. CASE keys[i] = Empty /\ k # Empty
  <2>1. k \in Keys
    BY <1>7
  <2>2. \A y \in Cells : keys[y] # k
    BY <1>1, <1>3, <1>7, <2>1, ProbeFinds
  <2>3. Once(keys') /\ Whole(keys', -1)
    BY <1>1, <1>2, <1>3, <2>1, <2>2, PlaceKeeps
  <2>. QED  BY <1>3, <1>5, <2>3, MapInvNext
<1>. QED  BY <1>4, <1>6, <1>7

(* erase leaves a hole, with the cursor behind it.                         *)
LEMMA EraseKeeps ==
  ASSUME MapInv, NEW k \in Keys \cup {Empty}, Erase(k)
  PROVE  MapInv'
<1>1. TableOK /\ keys \in Tables /\ Once(keys) /\ Whole(keys, cursor)
  BY MapInvParts
<1>2. PICK i \in Stops(keys, k) :
         /\ keys[i] = k /\ k # Empty
         /\ keys' = [keys EXCEPT ![i] = Empty]
         /\ values' = [values EXCEPT ![i] = Null]
         /\ cursor' = After(i)
  BY DEF Erase
<1>3. home' = home /\ cursor = -1
  BY DEF Erase
<1>4. i \in Cells /\ After(i) \in Cells
  BY StopsIs, AfterIs
<1>5. TableOK'
  BY <1>1, <1>2, <1>3, <1>4 DEF TableOK
<1>6. Once(keys') /\ Whole(keys', After(i))
  BY <1>1, <1>2, <1>3, <1>4, TakeOutKeeps
<1>. QED  BY <1>2, <1>3, <1>5, <1>6, MapInvNext

(* A turn of the repair loop closes the hole before the cursor, or moves   *)
(* it under the cursor and the cursor on.                                  *)
LEMMA RepairKeeps ==
  ASSUME MapInv, Repair
  PROVE  MapInv'
<1>1. TableOK /\ keys \in Tables /\ Once(keys) /\ Whole(keys, cursor)
  BY MapInvParts
<1>2. home' = home /\ cursor \in Cells
  BY <1>1 DEF Repair, TableOK
<1>3. CASE keys[cursor] = Empty
  <2>1. cursor' = -1 /\ keys' = keys /\ values' = values
    BY <1>3 DEF Repair
  <2>2. Whole(keys, -1)
    BY <1>1, <1>2, <1>3, RepairDone
  <2>3. TableOK'
    BY <1>1, <1>2, <2>1 DEF TableOK
  <2>. QED  BY <1>1, <1>2, <2>1, <2>2, <2>3, MapInvNext
<1>4. CASE keys[cursor] # Empty
  <2>1. PICK taken : taken = [keys EXCEPT ![cursor] = Empty]
    OBVIOUS
  <2>2. PICK k \in Keys : k = keys[cursor]
    BY <1>1, <1>2, <1>4 DEF Tables
  <2>3. PICK i \in Stops(taken, k) :
           /\ keys' = [taken EXCEPT ![i] = k]
           /\ values' = [values EXCEPT ![cursor] = Null, ![i] = values[cursor]]
           /\ cursor' = After(cursor)
    BY <1>4, <2>1, <2>2 DEF Repair
  <2>4. /\ taken \in Tables /\ Once(taken) /\ Whole(taken, After(cursor))
        /\ \A y \in Cells : taken[y] # k
    <3>1. PICK x \in Cells : x = cursor
      BY <1>2
    <3>2. taken = [keys EXCEPT ![x] = Empty] /\ Whole(keys, x) /\ keys[x] # Empty
          /\ k = keys[x]
      BY <1>1, <1>4, <2>1, <2>2, <3>1
    <3>3. /\ taken \in Tables /\ Once(taken) /\ Whole(taken, After(x))
          /\ \A y \in Cells : taken[y] # keys[x]
      BY <1>1, <3>2, TakeOutKeeps
    <3>. QED  BY <3>1, <3>2, <3>3
  <2>5. Once(keys') /\ Whole(keys', After(cursor))
    BY <1>1, <2>3, <2>4, PlaceKeeps
  <2>6. i \in Cells /\ After(cursor) \in Cells
    BY <1>2, StopsIs, AfterIs
  <2>7. values[cursor] \in Values
    BY <1>1, <1>2, <1>4 DEF TableOK
  <2>8. TableOK'
    <3>1. keys' \in [Cells -> Keys \cup {Empty}]
      BY <2>3, <2>4, <2>6 DEF Tables
    <3>2. values' \in [Cells -> Values \cup {Null}]
      BY <1>1, <1>2, <2>3, <2>6, <2>7 DEF TableOK
    <3>3. ASSUME NEW e \in Cells, keys'[e] # Empty PROVE values'[e] \in Values
      <4>1. CASE e = i
        BY <1>1, <1>2, <2>3, <2>6, <2>7, <4>1 DEF TableOK
      <4>2. CASE e # i
        <5>1. keys'[e] = taken[e]
          BY <2>3, <2>4, <2>6, <4>2 DEF Tables
        <5>2. e # cursor /\ keys[e] # Empty
          BY <1>1, <1>2, <2>1, <3>3, <5>1 DEF Tables
        <5>3. values'[e] = values[e]
          BY <1>1, <2>3, <4>2, <5>2 DEF TableOK
        <5>. QED  BY <1>1, <5>2, <5>3 DEF TableOK
      <4>. QED  BY <4>1, <4>2
    <3>. QED  BY <1>1, <1>2, <2>3, <2>6, <3>1, <3>2, <3>3 DEF TableOK
  <2>. QED  BY <1>2, <2>3, <2>5, <2>8, MapInvNext
<1>. QED  BY <1>3, <1>4

(* clear                                                                   *)
LEMMA ClearKeeps ==
  ASSUME MapInv, Clear
  PROVE  MapInv'
<1>1. TableOK
  BY MapInvParts
<1>2. /\ keys' = [i \in Cells |-> Empty] /\ values' = [i \in Cells |-> Null]
      /\ home' = home /\ cursor' = cursor
  BY DEF Clear
<1>3. TableOK'
  BY <1>1, <1>2 DEF TableOK
<1>4. Once(keys') /\ Whole(keys', cursor')
  BY <1>2 DEF Once, Whole
<1>. QED  BY <1>2, <1>3, <1>4, MapInvNext

(* The invariant of linear probing holds, in the middle of a repair too.   *)
THEOREM MapIsSound == Spec => []MapInv
<1>1. MapInv /\ [Next]_vars => MapInv'
  <2>. SUFFICES ASSUME MapInv, [Next]_vars PROVE MapInv'
    OBVIOUS
  <2>1. CASE Next
    BY <2>1, RepairKeeps, ClearKeeps, EraseKeeps, InsertKeeps DEF Next
  <2>2. CASE UNCHANGED vars
    BY <2>2 DEF vars, MapInv, TableOK, KeysUnique, ChainsWhole, Distance
  <2>. QED  BY <2>1, <2>2
<1>. QED  BY <1>1, MapInitially, PTL DEF Spec

(* For any capacity and any hash function, no key ever has two cells: not  *)
(* after an insert that stops at a free cell, and not while erase takes    *)
(* entries out and puts them back.                                         *)
THEOREM KeysHaveOneCell == Spec => []KeysUnique
<1>1. MapInv => KeysUnique
  BY DEF MapInv
<1>. QED  BY <1>1, MapIsSound, PTL

-----------------------------------------------------------------------------
(* What the table means.                                                   *)

(* The one cell of a key.                                                  *)
LEMMA CellOf ==
  ASSUME NEW t, Once(t), NEW k \in Keys, NEW e \in Cells, t[e] = k
  PROVE  (CHOOSE i \in Cells : t[i] = k) = e
<1>1. \A i \in Cells : t[i] = k => i = e
  BY EmptyIsNoKey DEF Once
<1>. QED  BY <1>1

(* In a whole table a probe for a key that is there stops at it and        *)
(* nowhere else.                                                           *)
LEMMA StopsAtKey ==
  ASSUME TableOK, NEW t \in Tables, Once(t), Whole(t, -1), NEW k \in Keys,
         NEW e \in Cells, t[e] = k
  PROVE  Stops(t, k) = {e}
<1>1. \A i \in Stops(t, k) : i = e
  BY ProbeFinds
<1>2. ASSUME NEW j \in Cells, t[j] \in {Empty, k}
      PROVE  Distance(k, e) <= Distance(k, j)
  <2>1. Distance(k, e) \in Nat /\ Distance(k, j) \in Nat /\ k # Empty
    BY DistanceIs, EmptyIsNoKey
  <2>2. CASE t[j] = k
    <3>1. j = e
      BY <2>1, <2>2 DEF Once
    <3>. QED  BY <2>1, <3>1
  <2>3. CASE t[j] = Empty
    <3>1. ~(Distance(k, j) < Distance(k, e))
      BY <2>1, <2>3 DEF Whole
    <3>. QED  BY <2>1, <3>1
  <2>. QED  BY <1>2, <2>2, <2>3
<1>3. e \in Stops(t, k)
  BY <1>2 DEF Stops
<1>. QED  BY <1>1, <1>3

(* Between calls, find returns the value last inserted for the key and not *)
(* erased since, however the keys collide: no repair leaves a free cell in *)
(* the way of a probe.                                                     *)
THEOREM FindNeverMisses == Spec => []FindIsLookup
<1>1. MapInv => FindIsLookup
  <2>. SUFFICES ASSUME MapInv, cursor = -1, NEW k \in Keys
                PROVE  Find(k) = Contents[k]
    BY DEF FindIsLookup
  <2>1. TableOK /\ keys \in Tables /\ Once(keys) /\ Whole(keys, -1) /\ k # Empty
    BY MapInvParts, EmptyIsNoKey
  <2>2. CASE \E e \in Cells : keys[e] = k
    <3>1. PICK e \in Cells : keys[e] = k
      BY <2>2
    <3>2. Stops(keys, k) = {e}
      BY <2>1, <3>1, StopsAtKey
    <3>3. (CHOOSE i \in Stops(keys, k) : TRUE) = e
      BY <3>2
    <3>4. Find(k) = values[e]
      BY <2>1, <3>1, <3>2, <3>3 DEF Find
    <3>5. (CHOOSE i \in Cells : keys[i] = k) = e
      BY <2>1, <3>1, CellOf
    <3>6. Contents[k] = values[e]
      BY <2>2, <3>5 DEF Contents
    <3>. QED  BY <3>4, <3>6
  <2>3. CASE ~\E e \in Cells : keys[e] = k
    <3>1. \A i \in Stops(keys, k) : keys[i] # k
      BY <2>3 DEF Stops
    <3>. QED  BY <2>3, <3>1 DEF Find, Contents
  <2>. QED  BY <2>2, <2>3
<1>. QED  BY <1>1, MapIsSound, PTL

-----------------------------------------------------------------------------
(* The refinement: the abstract map of a table t with values v.            *)
MapOf(t, v) ==
    [k \in Keys |-> IF \E i \in Cells : t[i] = k
                    THEN v[CHOOSE i \in Cells : t[i] = k] ELSE Null]

(* A key is mapped to the value in its cell.                               *)
LEMMA MapOfIs ==
  ASSUME NEW t, Once(t), NEW v, NEW k \in Keys
  PROVE  /\ \A e \in Cells : t[e] = k => MapOf(t, v)[k] = v[e]
         /\ (\A e \in Cells : t[e] # k) => MapOf(t, v)[k] = Null
<1>1. ASSUME NEW e \in Cells, t[e] = k PROVE MapOf(t, v)[k] = v[e]
  <2>1. (CHOOSE i \in Cells : t[i] = k) = e
    BY <1>1, CellOf
  <2>. QED  BY <1>1, <2>1 DEF MapOf
<1>2. (\A e \in Cells : t[e] # k) => MapOf(t, v)[k] = Null
  BY DEF MapOf
<1>. QED  BY <1>1, <1>2

(* Tables with the same entries are the same map.                          *)
LEMMA MapOfSame ==
  ASSUME NEW t, Once(t), NEW v, NEW u, Once(u), NEW w,
         \A k \in Keys : (\E e \in Cells : t[e] = k) <=> (\E e \in Cells : u[e] = k),
         \A d, e \in Cells : t[d] = u[e] /\ t[d] \in Keys => v[d] = w[e]
  PROVE  MapOf(t, v) = MapOf(u, w)
<1>1. ASSUME NEW k \in Keys PROVE MapOf(t, v)[k] = MapOf(u, w)[k]
  <2>1. CASE \E e \in Cells : t[e] = k
    <3>1. PICK d \in Cells : t[d] = k
      BY <2>1
    <3>2. PICK e \in Cells : u[e] = k
      BY <2>1
    <3>3. MapOf(t, v)[k] = v[d] /\ MapOf(u, w)[k] = w[e]
      BY <3>1, <3>2, MapOfIs
    <3>. QED  BY <3>1, <3>2, <3>3
  <2>2. CASE ~\E e \in Cells : t[e] = k
    <3>1. MapOf(t, v)[k] = Null /\ MapOf(u, w)[k] = Null
      BY <2>2, MapOfIs
    <3>. QED  BY <3>1
  <2>. QED  BY <2>1, <2>2
<1>2. MapOf(t, v) = [k \in Keys |-> MapOf(t, v)[k]]
  BY DEF MapOf
<1>3. MapOf(u, w) = [k \in Keys |-> MapOf(u, w)[k]]
  BY DEF MapOf
<1>. QED  BY <1>1, <1>2, <1>3

(* One key gets another value.                                             *)
LEMMA MapOfUpdate ==
  ASSUME NEW t, Once(t), NEW v, NEW u, Once(u), NEW w, NEW k \in Keys, NEW x,
         MapOf(u, w)[k] = x,
         \A l \in Keys : l # k => MapOf(u, w)[l] = MapOf(t, v)[l]
  PROVE  MapOf(u, w) = [MapOf(t, v) EXCEPT ![k] = x]
<1>1. PICK f, g : f = MapOf(t, v) /\ g = MapOf(u, w)
  OBVIOUS
<1>2. DOMAIN f = Keys /\ g = [l \in Keys |-> g[l]] /\ f = [l \in Keys |-> f[l]]
  BY <1>1 DEF MapOf
<1>3. g = [f EXCEPT ![k] = x]
  BY <1>1, <1>2
<1>. QED  BY <1>1, <1>3

(* While a cell is free, fewer keys than cells have a value.               *)
LEMMA RoomLeft ==
  ASSUME NEW t \in Tables, NEW i \in Cells, t[i] = Empty,
         NEW U \in SUBSET Keys, \A k \in U : \E e \in Cells : t[e] = k
  PROVE  Cardinality(U) < Capacity
<1>1. PICK f : f = [k \in U |-> CHOOSE e \in Cells : t[e] = k]
  OBVIOUS
<1>2. \A k \in U : f[k] \in Cells /\ t[f[k]] = k
  BY <1>1
<1>3. PICK C : C = Cells \ {i}
  OBVIOUS
<1>4. \A k \in U : f[k] \in C
  BY <1>2, <1>3, EmptyIsNoKey
<1>5. f \in [U -> C]
  BY <1>1, <1>4
<1>6. \A k, l \in U : f[k] = f[l] => k = l
  BY <1>2
<1>7. f \in Injection(U, C)
  BY <1>5, <1>6 DEF Injection, IsInjective
<1>8. Capacity \in Nat /\ Capacity > 0
  BY CapacityPositive
<1>9. IsFiniteSet(Cells) /\ Cardinality(Cells) = Capacity
  BY <1>8, FS_Interval DEF Cells
<1>10. IsFiniteSet(C) /\ Cardinality(C) = Capacity - 1
  BY <1>3, <1>9, FS_RemoveElement
<1>11. IsFiniteSet(U) /\ Cardinality(U) <= Cardinality(C)
  BY <1>7, <1>10, FS_Injection
<1>12. Cardinality(U) \in Nat
  BY <1>11, FS_CardinalityType
<1>. QED  BY <1>8, <1>10, <1>11, <1>12

(* The map has a value for exactly the keys of the table.                  *)
LEMMA MappedIs ==
  ASSUME MapInv, NEW k \in Keys
  PROVE  Contents[k] # Null <=> \E e \in Cells : keys[e] = k
<1>1. TableOK /\ Once(keys) /\ k # Empty
  BY MapInvParts, EmptyIsNoKey
<1>2. Contents = MapOf(keys, values)
  BY DEF Contents, MapOf
<1>3. ASSUME NEW e \in Cells, keys[e] = k PROVE Contents[k] = values[e] /\ values[e] # Null
  BY <1>1, <1>2, <1>3, MapOfIs, NullIsNoValue DEF TableOK
<1>4. (\A e \in Cells : keys[e] # k) => Contents[k] = Null
  BY <1>1, <1>2, MapOfIs
<1>. QED  BY <1>3, <1>4

(* Both modules count alike.                                               *)
LEMMA SameCardinality == \A S : KV!Cardinality(S) = Cardinality(S)
BY DEF KV!Cardinality, Cardinality

(* insert is Put, Overwrite or, for the empty key, PutEmptyKey.            *)
LEMMA InsertRefines ==
  ASSUME MapInv, Once(keys'), NEW k \in Keys \cup {Empty}, NEW v \in Values, Insert(k, v)
  PROVE  KV!Next
<1>1. TableOK /\ keys \in Tables /\ Once(keys) /\ Whole(keys, -1)
  BY MapInvParts DEF Insert
<1>2. PICK i \in Stops(keys, k) :
         /\ keys' = [keys EXCEPT ![i] = k]
         /\ values' = [values EXCEPT ![i] = v]
         /\ size' = IF keys[i] = Empty THEN size + 1 ELSE size
  BY DEF Insert
<1>3. i \in Cells /\ keys[i] \in {Empty, k}
  BY StopsIs
<1>4. /\ keys'[i] = k /\ values'[i] = v
      /\ \A e \in Cells : e # i => keys'[e] = keys[e] /\ values'[e] = values[e]
  BY <1>1, <1>2, <1>3 DEF TableOK
<1>5. Contents = MapOf(keys, values) /\ Contents' = MapOf(keys', values')
  BY DEF Contents, MapOf
<1>6. keys[i] = Empty => KV!Cardinality(KV!Used) < Capacity
  <2>1. ASSUME keys[i] = Empty PROVE KV!Cardinality(KV!Used) < Capacity
    <3>1. KV!Used \in SUBSET Keys /\ \A l \in KV!Used : \E e \in Cells : keys[e] = l
      BY MappedIs DEF KV!Used
    <3>2. Cardinality(KV!Used) < Capacity
      BY <1>1, <1>3, <2>1, <3>1, RoomLeft
    <3>. QED  BY <3>2, SameCardinality
  <2>. QED  BY <2>1
<1>7. CASE k = Empty
  <2>1. keys[i] = Empty /\ keys' = keys
    BY <1>1, <1>2, <1>3, <1>7 DEF Tables
  <2>2. \A d, e \in Cells : keys'[d] = keys[e] /\ keys'[d] \in Keys => values'[d] = values[e]
    BY <1>1, <1>4, <2>1, EmptyIsNoKey DEF Once
  <2>3. Contents' = Contents
    BY <1>1, <1>5, <2>1, <2>2, MapOfSame
  <2>. QED  BY <1>2, <1>6, <2>1, <2>3 DEF KV!Next, KV!PutEmptyKey
<1>8. CASE k \in Keys
  <2>1. k # Empty
    BY <1>8, EmptyIsNoKey
  <2>2. MapOf(keys', values')[k] = v
    BY <1>3, <1>4, <1>8, MapOfIs
  <2>3. ASSUME NEW l \in Keys, l # k PROVE MapOf(keys', values')[l] = MapOf(keys, values)[l]
    <3>1. keys[i] # l /\ keys'[i] # l
      BY <1>3, <1>4, <2>3, EmptyIsNoKey
    <3>2. CASE \E e \in Cells : keys[e] = l
      <4>1. PICK e \in Cells : keys[e] = l
        BY <3>2
      <4>2. keys'[e] = l /\ values'[e] = values[e]
        BY <1>4, <3>1, <4>1
      <4>. QED  BY <1>1, <4>1, <4>2, MapOfIs
    <3>3. CASE ~\E e \in Cells : keys[e] = l
      <4>1. \A e \in Cells : keys'[e] # l
        BY <1>4, <3>1, <3>3
      <4>. QED  BY <1>1, <3>3, <4>1, MapOfIs
    <3>. QED  BY <3>2, <3>3
  <2>4. Contents' = [Contents EXCEPT ![k] = v]
    BY <1>1, <1>5, <1>8, <2>2, <2>3, MapOfUpdate
  <2>5. CASE keys[i] = Empty
    <3>1. \A e \in Cells : keys[e] # k
      BY <1>1, <1>8, <2>1, <2>5, ProbeFinds
    <3>2. Contents[k] = Null
      BY <1>8, <3>1, MappedIs
    <3>. QED  BY <1>2, <1>6, <1>8, <2>4, <2>5, <3>2 DEF KV!Next, KV!Put
  <2>6. CASE keys[i] = k
    <3>1. Contents[k] # Null
      BY <1>3, <1>8, <2>6, MappedIs
    <3>. QED  BY <1>2, <1>8, <2>1, <2>4, <2>6, <3>1 DEF KV!Next, KV!Overwrite
  <2>. QED  BY <1>3, <2>5, <2>6
<1>. QED  BY <1>7, <1>8

(* erase is Take, at its first step.                                       *)
LEMMA EraseRefines ==
  ASSUME MapInv, Once(keys'), NEW k \in Keys \cup {Empty}, Erase(k)
  PROVE  KV!Next
<1>1. TableOK /\ keys \in Tables /\ Once(keys)
  BY MapInvParts
<1>2. PICK i \in Stops(keys, k) :
         /\ keys[i] = k /\ k # Empty
         /\ keys' = [keys EXCEPT ![i] = Empty]
         /\ values' = [values EXCEPT ![i] = Null]
  BY DEF Erase
<1>3. i \in Cells /\ k \in Keys /\ size' = size - 1
  BY <1>2, StopsIs DEF Erase
<1>4. /\ keys'[i] = Empty
      /\ \A e \in Cells : e # i => keys'[e] = keys[e] /\ values'[e] = values[e]
  BY <1>1, <1>2, <1>3 DEF TableOK
<1>5. Contents = MapOf(keys, values) /\ Contents' = MapOf(keys', values')
  BY DEF Contents, MapOf
<1>6. Contents[k] # Null
  BY <1>2, <1>3, MappedIs
<1>7. MapOf(keys', values')[k] = Null
  <2>1. \A e \in Cells : keys'[e] # k
    BY <1>1, <1>2, <1>3, <1>4 DEF Once
  <2>. QED  BY <1>3, <2>1, MapOfIs
<1>8. ASSUME NEW l \in Keys, l # k PROVE MapOf(keys', values')[l] = MapOf(keys, values)[l]
  <2>1. keys[i] # l /\ keys'[i] # l
    BY <1>2, <1>4, <1>8, EmptyIsNoKey
  <2>2. CASE \E e \in Cells : keys[e] = l
    <3>1. PICK e \in Cells : keys[e] = l
      BY <2>2
    <3>2. keys'[e] = l /\ values'[e] = values[e]
      BY <1>4, <2>1, <3>1
    <3>. QED  BY <1>1, <3>1, <3>2, MapOfIs
  <2>3. CASE ~\E e \in Cells : keys[e] = l
    <3>1. \A e \in Cells : keys'[e] # l
      BY <1>4, <2>1, <2>3
    <3>. QED  BY <1>1, <2>3, <3>1, MapOfIs
  <2>. QED  BY <2>2, <2>3
<1>9. Contents' = [Contents EXCEPT ![k] = Null]
  BY <1>1, <1>3, <1>5, <1>7, <1>8, MapOfUpdate
<1>. QED  BY <1>3, <1>6, <1>9 DEF KV!Next, KV!Take

(* A turn of the repair loop is invisible.                                 *)
LEMMA RepairRefines ==
  ASSUME MapInv, Once(keys'), Repair
  PROVE  UNCHANGED <<Contents, size>>
<1>1. TableOK /\ keys \in Tables /\ Once(keys)
  BY MapInvParts
<1>2. size' = size /\ cursor \in Cells
  BY <1>1 DEF Repair, TableOK
<1>3. Contents = MapOf(keys, values) /\ Contents' = MapOf(keys', values')
  BY DEF Contents, MapOf
<1>4. CASE keys[cursor] = Empty
  <2>1. keys' = keys /\ values' = values
    BY <1>4 DEF Repair
  <2>. QED  BY <1>2, <1>3, <2>1
<1>5. CASE keys[cursor] # Empty
  <2>1. PICK c \in Cells : c = cursor
    BY <1>2
  <2>2. PICK taken : taken = [keys EXCEPT ![c] = Empty]
    OBVIOUS
  <2>3. PICK k \in Keys : k = keys[c]
    BY <1>1, <1>5, <2>1 DEF Tables
  <2>4. PICK i \in Stops(taken, k) :
           /\ keys' = [taken EXCEPT ![i] = k]
           /\ values' = [values EXCEPT ![c] = Null, ![i] = values[c]]
    BY <1>5, <2>1, <2>2, <2>3 DEF Repair
  <2>5. i \in Cells /\ taken[i] \in {Empty, k}
    BY StopsIs
  <2>6. taken \in Tables /\ taken[c] = Empty /\ \A e \in Cells : e # c => taken[e] = keys[e]
    BY <1>1, <2>2 DEF Tables
  <2>7. k # Empty /\ \A e \in Cells : taken[e] # k
    BY <1>1, <2>3, <2>6, EmptyIsNoKey DEF Once
  <2>8. taken[i] = Empty
    BY <2>5, <2>7
  <2>9. /\ keys'[i] = k /\ \A e \in Cells : e # i => keys'[e] = taken[e]
        /\ values'[i] = values[c]
        /\ \A e \in Cells : e # i /\ e # c => values'[e] = values[e]
    BY <1>1, <2>4, <2>5, <2>6 DEF Tables, TableOK
  <2>10. ASSUME NEW l \in Keys
         PROVE  (\E e \in Cells : keys'[e] = l) <=> (\E e \in Cells : keys[e] = l)
    <3>1. CASE l = k
      BY <2>3, <2>5, <2>9, <3>1
    <3>2. CASE l # k
      <4>1. ASSUME NEW e \in Cells PROVE keys'[e] = l <=> keys[e] = l
        <5>1. l # Empty
          BY EmptyIsNoKey
        <5>. QED  BY <2>3, <2>6, <2>8, <2>9, <3>2, <5>1
      <4>. QED  BY <4>1
    <3>. QED  BY <3>1, <3>2
  <2>11. ASSUME NEW d \in Cells, NEW e \in Cells, keys'[d] = keys[e], keys'[d] \in Keys
         PROVE  values'[d] = values[e]
    <3>1. CASE d = i
      <4>1. e = c
        BY <1>1, <2>3, <2>7, <2>9, <2>11, <3>1 DEF Once
      <4>. QED  BY <2>9, <3>1, <4>1
    <3>2. CASE d # i
      <4>1. d # c /\ keys[d] = keys[e] /\ keys[d] # Empty
        BY <2>6, <2>9, <2>11, <3>2, EmptyIsNoKey
      <4>2. d = e
        BY <1>1, <4>1 DEF Once
      <4>. QED  BY <2>9, <3>2, <4>1, <4>2
    <3>. QED  BY <3>1, <3>2
  <2>12. MapOf(keys', values') = MapOf(keys, values)
    BY <1>1, <2>10, <2>11, MapOfSame
  <2>. QED  BY <1>2, <1>3, <2>12
<1>. QED  BY <1>4, <1>5

(* For any capacity, keys and hash function: the table implements a        *)
(* bounded map, and the repair loop of erase changes nothing that a user   *)
(* can see.                                                                *)
THEOREM TableIsAMap == Spec => ImplementsKeyValueMap
<1>1. Init => KV!Init
  BY EmptyIsNoKey DEF Init, KV!Init, Contents
<1>2. MapInv /\ MapInv' /\ [Next]_vars => [KV!Next]_<<Contents, size>>
  <2>. SUFFICES ASSUME MapInv, MapInv', [Next]_vars
                PROVE  [KV!Next]_<<Contents, size>>
    OBVIOUS
  <2>1. Once(keys')
    BY DEF MapInv, KeysUnique, Once
  <2>2. ASSUME NEW k \in Keys \cup {Empty}, NEW v \in Values, Insert(k, v) PROVE KV!Next
    BY <2>1, <2>2, InsertRefines
  <2>3. ASSUME NEW k \in Keys \cup {Empty}, Erase(k) PROVE KV!Next
    BY <2>1, <2>3, EraseRefines
  <2>4. CASE Repair
    BY <2>1, <2>4, RepairRefines
  <2>5. CASE Clear
    <3>1. keys' = [i \in Cells |-> Empty] /\ size' = 0
      BY <2>5 DEF Clear
    <3>2. \A k \in Keys : ~\E i \in Cells : keys'[i] = k
      BY <3>1, EmptyIsNoKey
    <3>3. Contents' = [k \in Keys |-> Null]
      BY <3>2 DEF Contents
    <3>. QED  BY <3>1, <3>3 DEF KV!Next, KV!Clear
  <2>6. CASE UNCHANGED vars
    BY <2>6 DEF vars, Contents
  <2>. QED  BY <2>2, <2>3, <2>4, <2>5, <2>6 DEF Next
<1>. QED  BY <1>1, <1>2, MapIsSound, PTL DEF Spec, ImplementsKeyValueMap, KV!Spec

=============================================================================
