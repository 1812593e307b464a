------------------------- MODULE ITCHProcessorProofs ------------------------
(***************************************************************************)
(* Theorems about ITCHProcessor, MMapFile and InstrumentMap, for every     *)
(* number of files, objects, descriptors and messages.                     *)
(***************************************************************************)
EXTENDS ITCHProcessor, FiniteSetTheorems, SequenceTheorems, WellFoundedInduction, TLAPS

-----------------------------------------------------------------------------
(* The smallest number of a set of numbers.                                *)

(* There is one.                                                           *)
LEMMA MinIs ==
    ASSUME NEW S \in SUBSET Nat, S # {}
    PROVE  Min(S) \in S /\ \A y \in S : Min(S) <= y
<1>1. IsWellFoundedOn(OpToRel(<, Nat), Nat)
  BY NatLessThanWellFounded
<1>2. \E x \in S : \A y \in S : ~(<<y, x>> \in OpToRel(<, Nat))
  BY <1>1, WFMin
<1>3. PICK x \in S : \A y \in S : ~(<<y, x>> \in OpToRel(<, Nat))
  BY <1>2
<1>4. \A y \in S : x <= y
  <2>1. TAKE y \in S
  <2>2. x \in Nat /\ y \in Nat
    OBVIOUS
  <2>3. ~(y < x)
    BY <1>3, <2>2 DEF OpToRel
  <2> QED  BY <2>2, <2>3
<1> QED  BY <1>4 DEF Min

(* Nothing else is.                                                        *)
LEMMA MinUnique ==
    ASSUME NEW S \in SUBSET Nat, NEW x \in S, \A y \in S : x <= y
    PROVE  Min(S) = x
<1>1. Min(S) \in S /\ \A y \in S : Min(S) <= y
  BY MinIs
<1>2. Min(S) <= x /\ x <= Min(S) /\ Min(S) \in Nat /\ x \in Nat
  BY <1>1
<1> QED  BY <1>2

(* The number above all others is the largest.                             *)
LEMMA MaxUnique ==
    ASSUME NEW S \in SUBSET Nat, NEW x \in S, \A y \in S : x >= y
    PROVE  Max(S) = x
<1>1. Max(S) \in S /\ \A y \in S : Max(S) >= y
  BY DEF Max
<1>2. Max(S) >= x /\ x >= Max(S) /\ Max(S) \in Nat /\ x \in Nat
  BY <1>1
<1> QED  BY <1>2

(* There is a largest number below a bound.                                *)
LEMMA MaxIs ==
    ASSUME NEW S \in SUBSET Nat, S # {}, NEW n \in Nat, \A y \in S : y <= n
    PROVE  Max(S) \in S
<1>1. PICK B : B = {b \in Nat : \A y \in S : y <= b}
  OBVIOUS
<1>2. B \in SUBSET Nat /\ n \in B
  BY <1>1
<1>3. PICK b : b = Min(B)
  OBVIOUS
<1>4. b \in B /\ \A c \in B : b <= c
  BY <1>2, <1>3, MinIs
<1>5. b \in Nat /\ \A y \in S : y <= b
  BY <1>1, <1>4
<1>6. b \in S
  <2>1. SUFFICES ASSUME b \notin S PROVE FALSE
    OBVIOUS
  <2>2. PICK z \in S : TRUE
    OBVIOUS
  <2>3. z < b /\ b - 1 \in Nat
    BY <1>5, <2>1
  <2>4. \A y \in S : y <= b - 1
    BY <1>5, <2>1
  <2>5. b - 1 \in B
    BY <1>1, <2>3, <2>4
  <2> QED  BY <1>4, <1>5, <2>5
<1> QED  BY <1>5, <1>6, MaxUnique

(* open(2) returns a descriptor that is not open.                          *)
LEMMA LowestFreeIs ==
    ASSUME NEW open, ~(Descriptors \subseteq open)
    PROVE  LowestFree(open) \in Descriptors /\ LowestFree(open) \notin open
<1>1. Descriptors \ open \in SUBSET Nat /\ Descriptors \ open # {}
  BY DescriptorsAreNat
<1>2. Min(Descriptors \ open) \in Descriptors \ open
  BY <1>1, MinIs
<1> QED  BY <1>2 DEF LowestFree

-----------------------------------------------------------------------------
(* Who owns what.  X names the objects that live, lg is the descriptor of  *)
(* the logger.                                                             *)
Objects == [data : Addresses \cup {Null}, size : Nat, fd : Descriptors \cup {-1}]
Worlds(X) == [objs : [X -> Objects], fds : SUBSET Descriptors, maps : [Addresses -> Nat]]

OwnFds(w, X, lg) ==
    /\ \A x \in X : w.objs[x].fd # -1 => w.objs[x].fd \in w.fds /\ w.objs[x].fd # lg
    /\ \A x, y \in X : w.objs[x].fd = w.objs[y].fd /\ w.objs[x].fd # -1 => x = y
    /\ lg # -1 => lg \in w.fds
    /\ \A d \in w.fds : d = lg \/ \E x \in X : w.objs[x].fd = d

OwnMaps(w, X) ==
    /\ \A x \in X : w.objs[x].data # Null =>
          w.objs[x].size > 0 /\ w.maps[w.objs[x].data] = w.objs[x].size
    /\ \A x, y \in X : w.objs[x].data = w.objs[y].data /\ w.objs[x].data # Null => x = y
    /\ \A a \in Addresses : w.maps[a] # 0 => \E x \in X : w.objs[x].data = a

Own(w, X, lg) ==
    /\ w \in Worlds(X)
    /\ OwnFds(w, X, lg)
    /\ OwnMaps(w, X)

(* The parts of a world.                                                   *)
LEMMA WorldParts ==
    ASSUME NEW X, NEW w \in Worlds(X)
    PROVE  /\ w.objs \in [X -> Objects] /\ w.fds \in SUBSET Descriptors
           /\ w.maps \in [Addresses -> Nat]
           /\ \A x \in X : /\ w.objs[x].data \in Addresses \cup {Null}
                           /\ w.objs[x].size \in Nat
                           /\ w.objs[x].fd \in Descriptors \cup {-1}
BY DEF Worlds, Objects

(* An object without anything.                                             *)
LEMMA VacantIs == /\ Vacant \in Objects
                  /\ Vacant.data = Null /\ Vacant.size = 0 /\ Vacant.fd = -1
BY DEF Vacant, Objects

(* A world with two of its parts replaced.                                 *)
LEMMA Updates ==
    ASSUME NEW a, NEW b, NEW c, NEW d, NEW e, NEW w, w = [objs |-> a, fds |-> b, maps |-> c],
           NEW v
    PROVE  /\ v = [w EXCEPT !.fds = d, !.objs = e] => v = [objs |-> e, fds |-> d, maps |-> c]
           /\ v = [w EXCEPT !.objs = d, !.maps = e] => v = [objs |-> d, fds |-> b, maps |-> e]
<1>1. v = [w EXCEPT !.fds = d, !.objs = e] => v = [objs |-> e, fds |-> d, maps |-> c]
  OBVIOUS
<1>2. v = [w EXCEPT !.objs = d, !.maps = e] => v = [objs |-> d, fds |-> b, maps |-> e]
  OBVIOUS
<1> QED  BY <1>1, <1>2

(* A new object.                                                           *)
LEMMA ConstructOwns ==
    ASSUME NEW w, NEW X, NEW lg, Own(w, X, lg), NEW x, x \notin X,
           NEW v, v = Construct(w, x, Vacant)
    PROVE  /\ Own(v, X \cup {x}, lg)
           /\ v.objs[x] = Vacant /\ \A y \in X : v.objs[y] = w.objs[y]
<1>1. w \in Worlds(X) /\ OwnFds(w, X, lg) /\ OwnMaps(w, X)
  BY DEF Own
<1>2. w.objs \in [X -> Objects]
  BY <1>1, WorldParts
<1>3. PICK obj : obj = [y \in X \cup {x} |-> IF y = x THEN Vacant ELSE w.objs[y]]
  OBVIOUS
<1>4. obj \in [X \cup {x} -> Objects]
  BY <1>2, <1>3, VacantIs
<1>5. v = [w EXCEPT !.objs = obj]
  BY <1>2, <1>3 DEF Construct
<1>6. v \in Worlds(X \cup {x}) /\ v.objs = obj /\ v.fds = w.fds /\ v.maps = w.maps
  BY <1>1, <1>4, <1>5 DEF Worlds
<1>7. v.objs[x] = Vacant /\ \A y \in X : v.objs[y] = w.objs[y]
  BY <1>3, <1>6
<1>8. OwnFds(v, X \cup {x}, lg)
  BY <1>1, <1>6, <1>7, VacantIs DEF OwnFds
<1>9. OwnMaps(v, X \cup {x})
  BY <1>1, <1>6, <1>7, VacantIs DEF OwnMaps
<1> QED  BY <1>6, <1>7, <1>8, <1>9 DEF Own

(* release leaves an object that owns nothing.                             *)
LEMMA ReleaseOwns ==
    ASSUME NEW w, NEW X, NEW lg, Own(w, X, lg), NEW x \in X, NEW v, v = Release(w, x)
    PROVE  /\ Own(v, X, lg)
           /\ v.objs[x] = Vacant /\ \A y \in X : y # x => v.objs[y] = w.objs[y]
<1>1. w \in Worlds(X) /\ OwnFds(w, X, lg) /\ OwnMaps(w, X)
  BY DEF Own
<1>2. /\ w.objs \in [X -> Objects] /\ w.fds \in SUBSET Descriptors
      /\ w.maps \in [Addresses -> Nat]
  BY <1>1, WorldParts
<1>3. PICK o : o = w.objs[x]
  OBVIOUS
<1>4. o.data \in Addresses \cup {Null} /\ o.size \in Nat /\ o.fd \in Descriptors \cup {-1}
  BY <1>1, <1>3, WorldParts
<1>5. PICK m : m = [a \in Addresses |-> IF a = o.data THEN w.maps[a] - o.size ELSE w.maps[a]]
  OBVIOUS
<1>6. \A a \in Addresses : m[a] = IF a = o.data THEN 0 ELSE w.maps[a]
  BY <1>1, <1>2, <1>3, <1>4, <1>5, NullIsNoAddress DEF OwnMaps
<1>7. m \in [Addresses -> Nat]
  <2>1. DOMAIN m = Addresses /\ m = [a \in Addresses |-> m[a]]
    BY <1>5
  <2>2. \A a \in Addresses : m[a] \in Nat
    BY <1>2, <1>6
  <2> QED  BY <2>1, <2>2
<1>8. PICK u : u = [w EXCEPT !.maps = m]
  OBVIOUS
<1>9. u \in Worlds(X) /\ u.objs = w.objs /\ u.fds = w.fds /\ u.maps = m
  BY <1>1, <1>7, <1>8 DEF Worlds
<1>10. PICK obj : obj = [w.objs EXCEPT ![x] = Vacant]
  OBVIOUS
<1>11. obj \in [X -> Objects] /\ obj[x] = Vacant /\ \A y \in X : y # x => obj[y] = w.objs[y]
  BY <1>2, <1>10, VacantIs
<1>12. v = [CloseFd(u, x) EXCEPT !.objs[x] = Vacant]
  BY <1>2, <1>3, <1>5, <1>8 DEF Release
<1>13. /\ v.objs = obj /\ v.fds = w.fds \ {o.fd} /\ v.maps = m
       /\ v = [objs |-> obj, fds |-> w.fds \ {o.fd}, maps |-> m]
  <2>1. u = [objs |-> w.objs, fds |-> w.fds, maps |-> m]
    BY <1>9 DEF Worlds
  <2>2. CloseFd(u, x) = [objs |-> [w.objs EXCEPT ![x].fd = -1], fds |-> w.fds \ {o.fd}, maps |-> m]
    <3>1. PICK k : k = [w.objs EXCEPT ![x].fd = -1]
      OBVIOUS
    <3>2. CloseFd(u, x) = [u EXCEPT !.fds = u.fds \ {o.fd}, !.objs = k]
      BY <1>3, <1>9, <3>1 DEF CloseFd
    <3> QED  BY <1>9, <2>1, <3>1, <3>2
  <2>3. v = [objs |-> [[w.objs EXCEPT ![x].fd = -1] EXCEPT ![x] = Vacant],
             fds |-> w.fds \ {o.fd}, maps |-> m]
    BY <1>12, <2>2
  <2>4. [[w.objs EXCEPT ![x].fd = -1] EXCEPT ![x] = Vacant] = obj
    BY <1>2, <1>10
  <2> QED  BY <2>3, <2>4
<1>14. v \in Worlds(X)
  BY <1>2, <1>7, <1>11, <1>13 DEF Worlds
<1>15. v.objs[x] = Vacant /\ \A y \in X : y # x => v.objs[y] = w.objs[y]
  BY <1>11, <1>13
<1>16. OwnFds(v, X, lg)
  BY <1>1, <1>3, <1>13, <1>15, VacantIs DEF OwnFds
<1>17. OwnMaps(v, X)
  BY <1>1, <1>3, <1>6, <1>13, <1>14, <1>15, VacantIs, WorldParts DEF OwnMaps
<1> QED  BY <1>14, <1>15, <1>16, <1>17 DEF Own

(* An object dies.                                                         *)
LEMMA DestroyOwns ==
    ASSUME NEW w, NEW X, NEW lg, Own(w, X, lg), NEW x \in X, NEW v, v = Destroy(w, x)
    PROVE  /\ Own(v, X \ {x}, lg)
           /\ \A y \in X \ {x} : v.objs[y] = w.objs[y]
<1>1. PICK u : u = Release(w, x)
  OBVIOUS
<1>2. /\ Own(u, X, lg)
      /\ u.objs[x] = Vacant /\ \A y \in X : y # x => u.objs[y] = w.objs[y]
  BY <1>1, ReleaseOwns
<1>3. u \in Worlds(X) /\ OwnFds(u, X, lg) /\ OwnMaps(u, X)
  BY <1>2 DEF Own
<1>4. u.objs \in [X -> Objects]
  BY <1>3, WorldParts
<1>5. PICK obj : obj = [y \in X \ {x} |-> u.objs[y]]
  OBVIOUS
<1>6. obj \in [X \ {x} -> Objects]
  BY <1>4, <1>5
<1>7. v = [u EXCEPT !.objs = obj]
  BY <1>1, <1>4, <1>5 DEF Destroy
<1>8. v \in Worlds(X \ {x}) /\ v.objs = obj /\ v.fds = u.fds /\ v.maps = u.maps
  BY <1>3, <1>6, <1>7 DEF Worlds
<1>9. \A y \in X \ {x} : v.objs[y] = u.objs[y]
  BY <1>5, <1>8
<1>10. OwnFds(v, X \ {x}, lg)
  <2>1. \A d \in v.fds : d # -1
    BY <1>8, WorldParts, DescriptorsAreNat
  <2> QED  BY <1>2, <1>3, <1>8, <1>9, <2>1, VacantIs DEF OwnFds
<1>11. OwnMaps(v, X \ {x})
  BY <1>2, <1>3, <1>8, <1>9, VacantIs, NullIsNoAddress DEF OwnMaps
<1> QED  BY <1>2, <1>8, <1>9, <1>10, <1>11 DEF Own

(* An object that owns nothing takes over what another owns.               *)
LEMMA TakeOwns ==
    ASSUME NEW w, NEW X, NEW lg, Own(w, X, lg), NEW x \in X, NEW y \in X, x # y,
           w.objs[x] = Vacant, NEW v, v = Take(w, x, y)
    PROVE  /\ Own(v, X, lg)
           /\ v.objs[x] = w.objs[y] /\ v.objs[y] = Vacant
           /\ \A z \in X : z # x /\ z # y => v.objs[z] = w.objs[z]
<1>1. w \in Worlds(X) /\ OwnFds(w, X, lg) /\ OwnMaps(w, X)
  BY DEF Own
<1>2. w.objs \in [X -> Objects]
  BY <1>1, WorldParts
<1>3. PICK obj : obj = [w.objs EXCEPT ![x] = w.objs[y], ![y] = Vacant]
  OBVIOUS
<1>4. /\ obj \in [X -> Objects] /\ obj[x] = w.objs[y] /\ obj[y] = Vacant
      /\ \A z \in X : z # x /\ z # y => obj[z] = w.objs[z]
  BY <1>2, <1>3, VacantIs
<1>5. v = [w EXCEPT !.objs = obj]
  BY <1>3 DEF Take
<1>6. v \in Worlds(X) /\ v.objs = obj /\ v.fds = w.fds /\ v.maps = w.maps
  BY <1>1, <1>4, <1>5 DEF Worlds
<1>7. OwnFds(v, X, lg)
  <2>1. \A d \in v.fds : d # -1
    BY <1>6, WorldParts, DescriptorsAreNat
  <2> QED  BY <1>1, <1>4, <1>6, <2>1, VacantIs DEF OwnFds
<1>8. OwnMaps(v, X)
  BY <1>1, <1>4, <1>6, VacantIs, NullIsNoAddress DEF OwnMaps
<1> QED  BY <1>4, <1>6, <1>7, <1>8 DEF Own

(* Move construction.                                                      *)
LEMMA MoveOwns ==
    ASSUME NEW w, NEW X, NEW lg, Own(w, X, lg), NEW x, x \notin X, NEW y \in X,
           NEW v, v = MoveConstruct(w, x, y)
    PROVE  /\ Own(v, X \cup {x}, lg)
           /\ v.objs[x] = w.objs[y] /\ v.objs[y] = Vacant
<1>1. PICK Y : Y = X \cup {x}
  OBVIOUS
<1>2. PICK u : u = Construct(w, x, Vacant)
  OBVIOUS
<1>3. Own(u, Y, lg) /\ u.objs[x] = Vacant /\ u.objs[y] = w.objs[y]
  BY <1>1, <1>2, ConstructOwns
<1>4. x \in Y /\ y \in Y /\ x # y /\ v = Take(u, x, y)
  BY <1>1, <1>2 DEF MoveConstruct
<1>5. Own(v, Y, lg) /\ v.objs[x] = u.objs[y] /\ v.objs[y] = Vacant
  BY <1>3, <1>4, TakeOwns
<1> QED  BY <1>1, <1>3, <1>5

(* Move assignment, of an object to itself too.                            *)
LEMMA AssignOwns ==
    ASSUME NEW w, NEW X, NEW lg, Own(w, X, lg), NEW x \in X, NEW y \in X,
           NEW v, v = MoveAssign(w, x, y)
    PROVE  Own(v, X, lg)
<1>1. CASE x = y
  BY <1>1 DEF MoveAssign
<1>2. CASE x # y
  <2>1. PICK u : u = Release(w, x)
    OBVIOUS
  <2>2. Own(u, X, lg) /\ u.objs[x] = Vacant
    BY <2>1, ReleaseOwns
  <2>3. v = Take(u, x, y)
    BY <1>2, <2>1 DEF MoveAssign
  <2> QED  BY <1>2, <2>2, <2>3, TakeOwns
<1> QED  BY <1>1, <1>2

(* open_into on an object that owns nothing: it owns a descriptor and a    *)
(* mapping afterwards, or still nothing.                                   *)
LEMMA OpenIntoOwns ==
    ASSUME NEW w, NEW X, NEW lg, Own(w, X, lg), NEW x \in X, w.objs[x] = Vacant,
           NEW size \in Sizes, NEW r \in OpenInto(w, x, size)
    PROVE  /\ r.ok \in BOOLEAN /\ Own(r.world, X, lg)
           /\ r.ok => Valid(r.world.objs[x])
<1>1. w \in Worlds(X) /\ OwnFds(w, X, lg) /\ OwnMaps(w, X)
  BY DEF Own
<1>2. /\ w.objs \in [X -> Objects] /\ w.fds \in SUBSET Descriptors
      /\ w.maps \in [Addresses -> Nat]
      /\ w = [objs |-> w.objs, fds |-> w.fds, maps |-> w.maps]
  <2>1. w = [objs |-> w.objs, fds |-> w.fds, maps |-> w.maps]
    BY <1>1 DEF Worlds
  <2> QED  BY <1>1, <2>1, WorldParts
<1>3. size \in Nat /\ size > 0
  BY SizesArePositive
<1>4. PICK fd : fd = LowestFree(w.fds)
  OBVIOUS
<1>5. PICK opened : opened = [w EXCEPT !.fds = w.fds \cup {fd}, !.objs[x].fd = fd]
  OBVIOUS
<1>6. PICK sized : sized = [opened EXCEPT !.objs[x].size = size]
  OBVIOUS
<1>7. \/ r = Outcome(FALSE, [w EXCEPT !.objs[x].fd = -1])
      \/ /\ ~(Descriptors \subseteq w.fds)
         /\ \/ r = Outcome(FALSE, CloseFd(opened, x))
            \/ r = Outcome(FALSE, CloseFd(sized, x))
            \/ \E a \in Addresses : /\ w.maps[a] = 0
                    /\ r = Outcome(TRUE, [sized EXCEPT !.objs[x].data = a, !.maps[a] = size])
  BY <1>4, <1>5, <1>6 DEF OpenInto
<1>8. \A d : [Vacant EXCEPT !.fd = d] = [data |-> Null, size |-> 0, fd |-> d]
  BY DEF Vacant
<1>9. /\ opened.objs = [w.objs EXCEPT ![x] = [data |-> Null, size |-> 0, fd |-> fd]]
      /\ opened = [objs |-> opened.objs, fds |-> w.fds \cup {fd}, maps |-> w.maps]
  <2>1. PICK k : k = [w.objs EXCEPT ![x].fd = fd]
    OBVIOUS
  <2>2. opened = [w EXCEPT !.fds = w.fds \cup {fd}, !.objs = k]
    BY <1>5, <2>1
  <2>3. opened = [objs |-> k, fds |-> w.fds \cup {fd}, maps |-> w.maps]
    BY <1>2, <2>2
  <2>4. k = [w.objs EXCEPT ![x] = [data |-> Null, size |-> 0, fd |-> fd]]
    BY <1>2, <1>8, <2>1
  <2> QED  BY <2>3, <2>4
<1>10. /\ sized.objs = [w.objs EXCEPT ![x] = [data |-> Null, size |-> size, fd |-> fd]]
       /\ sized = [objs |-> sized.objs, fds |-> w.fds \cup {fd}, maps |-> w.maps]
  <2>1. PICK k : k = [opened.objs EXCEPT ![x].size = size]
    OBVIOUS
  <2>2. sized = [opened EXCEPT !.objs = k]
    BY <1>6, <2>1
  <2>3. sized = [objs |-> k, fds |-> w.fds \cup {fd}, maps |-> w.maps]
    BY <1>9, <2>2
  <2>4. k = [w.objs EXCEPT ![x] = [data |-> Null, size |-> size, fd |-> fd]]
    BY <1>2, <1>9, <2>1
  <2> QED  BY <2>3, <2>4
<1>11. ASSUME NEW n \in Nat, NEW v,
              v = [objs |-> [w.objs EXCEPT ![x] = [data |-> Null, size |-> n, fd |-> -1]],
                   fds |-> w.fds, maps |-> w.maps]
       PROVE  Own(v, X, lg)
  <2>1. PICK obj : obj = [w.objs EXCEPT ![x] = [data |-> Null, size |-> n, fd |-> -1]]
    OBVIOUS
  <2>2. [data |-> Null, size |-> n, fd |-> -1] \in Objects
    BY DEF Objects
  <2>3. obj \in [X -> Objects]
    BY <1>2, <2>1, <2>2
  <2>4. v.objs = obj /\ v.fds = w.fds /\ v.maps = w.maps
    BY <1>11, <2>1
  <2>5. v \in Worlds(X)
    BY <1>2, <1>11, <2>1, <2>3 DEF Worlds
  <2>6. /\ v.objs[x].data = Null /\ v.objs[x].fd = -1
        /\ \A y \in X : y # x => v.objs[y] = w.objs[y]
    BY <1>2, <2>1, <2>4
  <2>7. OwnFds(v, X, lg)
    BY <1>1, <2>4, <2>6, VacantIs DEF OwnFds
  <2>8. OwnMaps(v, X)
    BY <1>1, <2>4, <2>6, VacantIs DEF OwnMaps
  <2> QED  BY <2>5, <2>7, <2>8 DEF Own
<1>12. CASE r = Outcome(FALSE, [w EXCEPT !.objs[x].fd = -1])
  <2>1. [w EXCEPT !.objs[x].fd = -1] =
          [objs |-> [w.objs EXCEPT ![x] = [data |-> Null, size |-> 0, fd |-> -1]],
           fds |-> w.fds, maps |-> w.maps]
    <3>1. PICK k : k = [w.objs EXCEPT ![x].fd = -1]
      OBVIOUS
    <3>2. k = [w.objs EXCEPT ![x] = [data |-> Null, size |-> 0, fd |-> -1]]
      BY <1>2, <1>8, <3>1
    <3>3. [w EXCEPT !.objs[x].fd = -1] = [w EXCEPT !.objs = k]
      BY <3>1
    <3> QED  BY <1>2, <3>2, <3>3
  <2> QED  BY <1>11, <1>12, <2>1 DEF Outcome
<1>13. ASSUME ~(Descriptors \subseteq w.fds), NEW u, NEW n \in Nat,
              u.objs = [w.objs EXCEPT ![x] = [data |-> Null, size |-> n, fd |-> fd]],
              u = [objs |-> u.objs, fds |-> w.fds \cup {fd}, maps |-> w.maps],
              r = Outcome(FALSE, CloseFd(u, x))
       PROVE  r.ok = FALSE /\ Own(r.world, X, lg)
  <2>1. fd \in Descriptors /\ fd \notin w.fds
    BY <1>4, <1>13, LowestFreeIs
  <2>2. PICK k : k = [u.objs EXCEPT ![x].fd = -1]
    OBVIOUS
  <2>3. k = [w.objs EXCEPT ![x] = [data |-> Null, size |-> n, fd |-> -1]]
    BY <1>2, <1>13, <2>2
  <2>4. u.objs[x].fd = fd
    BY <1>2, <1>13
  <2>5. CloseFd(u, x) = [u EXCEPT !.fds = u.fds \ {fd}, !.objs = k]
    BY <2>2, <2>4 DEF CloseFd
  <2>6. u.fds \ {fd} = w.fds
    <3>1. u.fds = w.fds \cup {fd}
      BY <1>13
    <3> QED  BY <2>1, <3>1
  <2>7. CloseFd(u, x) = [objs |-> k, fds |-> w.fds, maps |-> w.maps]
    <3>1. PICK g : g = w.fds
      OBVIOUS
    <3>2. CloseFd(u, x) = [u EXCEPT !.fds = g, !.objs = k]
      BY <2>5, <2>6, <3>1
    <3>3. PICK c, d, f : u = [objs |-> c, fds |-> d, maps |-> f] /\ f = w.maps
      BY <1>13
    <3>4. PICK z : z = CloseFd(u, x)
      OBVIOUS
    <3>5. z = [u EXCEPT !.fds = g, !.objs = k]
      BY <3>2, <3>4
    <3>6. z = [objs |-> k, fds |-> g, maps |-> f]
      BY <3>3, <3>5, Updates
    <3> QED  BY <3>1, <3>3, <3>4, <3>6
  <2>8. Own(CloseFd(u, x), X, lg)
    BY <1>11, <2>3, <2>7
  <2> QED  BY <1>13, <2>8 DEF Outcome
<1>14. ASSUME ~(Descriptors \subseteq w.fds), NEW a \in Addresses, w.maps[a] = 0,
              r = Outcome(TRUE, [sized EXCEPT !.objs[x].data = a, !.maps[a] = size])
       PROVE  r.ok = TRUE /\ Own(r.world, X, lg) /\ Valid(r.world.objs[x])
  <2>1. fd \in Descriptors /\ fd \notin w.fds
    BY <1>4, <1>14, LowestFreeIs
  <2>2. PICK v : v = [sized EXCEPT !.objs[x].data = a, !.maps[a] = size]
    OBVIOUS
  <2>3. PICK o : o = [data |-> a, size |-> size, fd |-> fd]
    OBVIOUS
  <2>4. PICK k : k = [w.objs EXCEPT ![x] = o]
    OBVIOUS
  <2>5. PICK m : m = [w.maps EXCEPT ![a] = size]
    OBVIOUS
  <2>6. v = [objs |-> k, fds |-> w.fds \cup {fd}, maps |-> m]
    <3>1. [sized.objs EXCEPT ![x].data = a] = k
      BY <1>2, <1>10, <2>3, <2>4
    <3>2. sized.maps = w.maps
      BY <1>10
    <3>3. v = [sized EXCEPT !.objs = k, !.maps = m]
      BY <2>2, <2>5, <3>1, <3>2
    <3>4. PICK c, d, f : sized = [objs |-> c, fds |-> d, maps |-> f] /\ d = w.fds \cup {fd}
      BY <1>10
    <3>5. v = [objs |-> k, fds |-> d, maps |-> m]
      BY <3>3, <3>4, Updates
    <3> QED  BY <3>4, <3>5
  <2>7. v.objs = k /\ v.fds = w.fds \cup {fd} /\ v.maps = m
    BY <2>6
  <2>8. o \in Objects /\ o.data = a /\ o.size = size /\ o.fd = fd
    BY <1>3, <2>1, <2>3 DEF Objects
  <2>9. /\ k \in [X -> Objects] /\ k[x] = o /\ \A y \in X : y # x => k[y] = w.objs[y]
        /\ m \in [Addresses -> Nat] /\ m[a] = size
        /\ \A b \in Addresses : b # a => m[b] = w.maps[b]
    BY <1>2, <1>3, <2>4, <2>5, <2>8
  <2>10. v \in Worlds(X)
    BY <1>2, <2>1, <2>6, <2>9 DEF Worlds
  <2>11. OwnFds(v, X, lg)
    <3>1. \A y \in X : y # x => v.objs[y] = w.objs[y]
      BY <2>7, <2>9
    <3>2. v.objs[x].fd = fd /\ fd # -1
      BY <2>1, <2>7, <2>8, <2>9, DescriptorsAreNat
    <3>3. fd # lg
      BY <1>1, <2>1, <3>2 DEF OwnFds
    <3>4. \A d \in w.fds : d # -1
      BY <1>2, DescriptorsAreNat
    <3> QED  BY <1>1, <2>1, <2>7, <3>1, <3>2, <3>3, <3>4, VacantIs DEF OwnFds
  <2>12. OwnMaps(v, X)
    <3>1. \A y \in X : y # x => v.objs[y] = w.objs[y]
      BY <2>7, <2>9
    <3>2. v.objs[x].data = a /\ v.objs[x].size = size /\ a # Null
      BY <2>7, <2>8, <2>9, NullIsNoAddress
    <3>3. \A y \in X : y # x => w.objs[y].data # a
      BY <1>1, <1>2, <1>14, <3>2 DEF OwnMaps, Objects
    <3>4. \A y \in X : w.objs[y].data \in Addresses \cup {Null}
      BY <1>1, WorldParts
    <3> QED  BY <1>1, <1>3, <2>7, <2>9, <3>1, <3>2, <3>3, <3>4, VacantIs, NullIsNoAddress
             DEF OwnMaps
  <2>13. Valid(v.objs[x])
    BY <2>7, <2>8, <2>9, NullIsNoAddress DEF Valid
  <2> QED  BY <1>14, <2>2, <2>10, <2>11, <2>12, <2>13 DEF Own, Outcome
<1> QED
  <2>1. 0 \in Nat
    OBVIOUS
  <2>2. CASE ~(Descriptors \subseteq w.fds) /\ r = Outcome(FALSE, CloseFd(opened, x))
    BY <1>9, <1>13, <2>1, <2>2
  <2>3. CASE ~(Descriptors \subseteq w.fds) /\ r = Outcome(FALSE, CloseFd(sized, x))
    BY <1>3, <1>10, <1>13, <2>3
  <2>4. CASE r = Outcome(FALSE, [w EXCEPT !.objs[x].fd = -1])
    BY <1>12, <2>4 DEF Outcome
  <2> QED  BY <1>7, <1>14, <2>2, <2>3, <2>4

(* MMapFile::open: x owns a file afterwards, or there is no x; the local   *)
(* object leaves nothing.                                                  *)
LEMMA OpenOwns ==
    ASSUME NEW w, NEW X, NEW lg, Own(w, X, lg), NEW x, x \notin X, "m" \notin X, x # "m",
           NEW size \in Sizes, NEW r \in Open(w, x, size)
    PROVE  /\ r.ok \in BOOLEAN
           /\ r.ok => Own(r.world, X \cup {x}, lg) /\ Valid(r.world.objs[x])
           /\ ~r.ok => Own(r.world, X, lg)
<1>1. PICK u : u = Construct(w, "m", Vacant)
  OBVIOUS
<1>2. PICK Y : Y = X \cup {"m"}
  OBVIOUS
<1>3. Own(u, Y, lg) /\ u.objs["m"] = Vacant /\ "m" \in Y /\ x \notin Y
  BY <1>1, <1>2, ConstructOwns
<1>4. PICK q \in OpenInto(u, "m", size) :
         r = Outcome(q.ok, Destroy(IF q.ok THEN MoveConstruct(q.world, x, "m") ELSE q.world, "m"))
  BY <1>1 DEF Open
<1>5. /\ q.ok \in BOOLEAN /\ Own(q.world, Y, lg)
      /\ q.ok => Valid(q.world.objs["m"])
  BY <1>3, OpenIntoOwns
<1>6. CASE q.ok
  <2>1. PICK v : v = MoveConstruct(q.world, x, "m")
    OBVIOUS
  <2>2. PICK Z : Z = Y \cup {x}
    OBVIOUS
  <2>3. /\ Own(v, Z, lg)
        /\ v.objs[x] = q.world.objs["m"] /\ v.objs["m"] = Vacant
    BY <1>3, <1>5, <2>1, <2>2, MoveOwns
  <2>4. PICK d : d = Destroy(v, "m")
    OBVIOUS
  <2>5. "m" \in Z /\ x \in Z \ {"m"}
    BY <1>3, <2>2
  <2>6. Own(d, Z \ {"m"}, lg) /\ d.objs[x] = v.objs[x]
    BY <2>3, <2>4, <2>5, DestroyOwns
  <2>7. Z \ {"m"} = X \cup {x}
    BY <1>2, <2>2
  <2>8. r = Outcome(q.ok, d)
    BY <1>4, <1>6, <2>1, <2>4
  <2> QED  BY <1>5, <1>6, <2>3, <2>6, <2>7, <2>8 DEF Outcome, Valid
<1>7. CASE ~q.ok
  <2>1. PICK d : d = Destroy(q.world, "m")
    OBVIOUS
  <2>2. Own(d, Y \ {"m"}, lg)
    BY <1>3, <1>5, <2>1, DestroyOwns
  <2>3. Y \ {"m"} = X
    BY <1>2
  <2>4. r = Outcome(q.ok, d)
    BY <1>4, <1>7, <2>1
  <2> QED  BY <1>5, <1>7, <2>2, <2>3, <2>4 DEF Outcome
<1> QED  BY <1>5, <1>6, <1>7

(* The logger is started, or it runs already, or its file cannot be        *)
(* opened.                                                                 *)
LEMMA LoggerStartOwns ==
    ASSUME NEW w, NEW X, Own(w, X, logFd), NEW s \in LoggerStart(w.fds),
           NEW v, v = [w EXCEPT !.fds = s[1]]
    PROVE  Own(v, X, s[2]) /\ v.objs = w.objs
<1>1. w \in Worlds(X) /\ OwnFds(w, X, logFd) /\ OwnMaps(w, X)
  BY DEF Own
<1>2. /\ w.objs \in [X -> Objects] /\ w.fds \in SUBSET Descriptors
      /\ w.maps \in [Addresses -> Nat]
  BY <1>1, WorldParts
<1>3. PICK fd : fd = LowestFree(w.fds)
  OBVIOUS
<1>4. \/ s = <<w.fds, logFd>>
      \/ logFd = -1 /\ ~(Descriptors \subseteq w.fds) /\ s = <<w.fds \cup {fd}, fd>>
  BY <1>3 DEF LoggerStart
<1>5. CASE s = <<w.fds, logFd>>
  <2>1. s[1] = w.fds /\ s[2] = logFd
    BY <1>5
  <2>2. v \in Worlds(X) /\ v.objs = w.objs /\ v.fds = w.fds /\ v.maps = w.maps
    BY <1>1, <1>2, <2>1 DEF Worlds
  <2>3. OwnFds(v, X, logFd) /\ OwnMaps(v, X)
    BY <1>1, <2>2 DEF OwnFds, OwnMaps
  <2> QED  BY <2>1, <2>2, <2>3 DEF Own
<1>6. CASE logFd = -1 /\ ~(Descriptors \subseteq w.fds) /\ s = <<w.fds \cup {fd}, fd>>
  <2>1. s[1] = w.fds \cup {fd} /\ s[2] = fd
    BY <1>6
  <2>2. fd \in Descriptors /\ fd \notin w.fds
    BY <1>3, <1>6, LowestFreeIs
  <2>3. s[1] \in SUBSET Descriptors
    BY <1>2, <2>1, <2>2
  <2>4. v \in Worlds(X) /\ v.objs = w.objs /\ v.fds = w.fds \cup {fd} /\ v.maps = w.maps
    BY <1>1, <2>1, <2>3 DEF Worlds
  <2>5. OwnMaps(v, X)
    BY <1>1, <2>4 DEF OwnMaps
  <2>6. OwnFds(v, X, fd)
    <3>1. \A d \in w.fds : d # -1
      BY <1>2, DescriptorsAreNat
    <3> QED  BY <1>1, <1>6, <2>2, <2>4, <3>1 DEF OwnFds
  <2> QED  BY <2>1, <2>4, <2>5, <2>6 DEF Own
<1> QED  BY <1>4, <1>5, <1>6

(* The logger is stopped.                                                  *)
LEMMA LoggerStopOwns ==
    ASSUME NEW w, NEW X, NEW lg, Own(w, X, lg), NEW v, v = [w EXCEPT !.fds = w.fds \ {lg}]
    PROVE  Own(v, X, -1)
<1>1. w \in Worlds(X) /\ OwnFds(w, X, lg) /\ OwnMaps(w, X)
  BY DEF Own
<1>2. w.fds \in SUBSET Descriptors
  BY <1>1, WorldParts
<1>3. PICK f : f = w.fds \ {lg}
  OBVIOUS
<1>4. v \in Worlds(X) /\ v.objs = w.objs /\ v.fds = f /\ v.maps = w.maps
  BY <1>1, <1>2, <1>3 DEF Worlds
<1>5. OwnMaps(v, X)
  BY <1>1, <1>4 DEF OwnMaps
<1>6. OwnFds(v, X, -1)
  BY <1>1, <1>3, <1>4 DEF OwnFds
<1> QED  BY <1>4, <1>5, <1>6 DEF Own

-----------------------------------------------------------------------------
(* The inductive invariant: who owns what, and what a call of run has got  *)
(* in each of its phases.                                                  *)
InRun ==
    /\ DOMAIN objs \subseteq Users \cup {"mapped", "mmap"}
    /\ {"mapped", "mmap"} \subseteq DOMAIN objs
    /\ Valid(objs["mmap"]) /\ objs["mapped"] = Vacant

HasOpened ==
    /\ DOMAIN objs \subseteq Users \cup {"mapped"}
    /\ "mapped" \in DOMAIN objs
    /\ Valid(objs["mapped"])

ProcessorInv ==
    /\ Own(World, DOMAIN objs, logFd)
    /\ phase \in {"idle", "opened", "parsing", "reporting", "gone"}
    /\ phase \in {"idle", "gone"} => DOMAIN objs \subseteq Users
    /\ phase = "opened" => HasOpened
    /\ phase \in {"parsing", "reporting"} => InRun
    /\ phase = "parsing" => stats = pos
    /\ phase = "reporting" => stats = objs["mmap"].size
    /\ phase \in {"reporting", "gone"} => logFd = -1

(* The next world.                                                         *)
LEMMA Settled ==
    ASSUME NEW w, NEW X, w \in Worlds(X), Settle(w)
    PROVE  World' = w /\ DOMAIN objs' = X /\ objs' = w.objs
<1>1. w = [objs |-> w.objs, fds |-> w.fds, maps |-> w.maps] /\ w.objs \in [X -> Objects]
  BY DEF Worlds
<1> QED  BY <1>1 DEF Settle, World

(* A step that leaves files and descriptors alone.                         *)
LEMMA WorldStays ==
    ASSUME UNCHANGED mmapVars, UNCHANGED logFd, Own(World, DOMAIN objs, logFd)
    PROVE  Own(World, DOMAIN objs, logFd)'
<1>1. World' = World /\ (DOMAIN objs)' = DOMAIN objs /\ logFd' = logFd
  BY DEF World, mmapVars
<1> QED  BY <1>1

(* At the start there is nothing.                                          *)
LEMMA InitProcessor == Init => ProcessorInv
<1> SUFFICES ASSUME Init PROVE ProcessorInv
  OBVIOUS
<1>1. objs = [x \in {} |-> Vacant] /\ fds = {} /\ maps = [a \in Addresses |-> 0]
  BY DEF Init, InitFiles
<1>2. phase = "idle" /\ logFd = -1
  BY DEF Init
<1>3. DOMAIN objs = {} /\ objs \in [{} -> Objects]
  BY <1>1
<1>4. World \in Worlds({})
  BY <1>1, <1>3 DEF World, Worlds
<1>5. World.fds = {} /\ World.maps = [a \in Addresses |-> 0]
  BY <1>1 DEF World
<1>6. OwnFds(World, {}, -1)
  BY <1>5 DEF OwnFds
<1>7. OwnMaps(World, {})
  BY <1>5 DEF OwnMaps
<1> QED  BY <1>2, <1>3, <1>4, <1>6, <1>7 DEF ProcessorInv, Own

(* What the program does with its own objects.                             *)
LEMMA UserOwns ==
    ASSUME Own(World, DOMAIN objs, logFd), DOMAIN objs \subseteq Users,
           NEW x \in Users, UserStep(x)
    PROVE  \E w, X : X \subseteq Users /\ Own(w, X, logFd) /\ Settle(w)
<1>1. PICK v : v = World
  OBVIOUS
<1>2. PICK X : X = DOMAIN objs
  OBVIOUS
<1>3. Own(v, X, logFd) /\ X \subseteq Users /\ "m" \notin X /\ x # "m" /\ X \cup {x} \subseteq Users
  BY <1>1, <1>2, UsersAreOthers
<1>4. CASE UserConstruct(x)
  <2>1. PICK w : w = Construct(v, x, Vacant)
    OBVIOUS
  <2>2. x \notin X /\ Settle(w)
    BY <1>1, <1>2, <1>4, <2>1 DEF UserConstruct
  <2>3. Own(w, X \cup {x}, logFd)
    BY <1>3, <2>1, <2>2, ConstructOwns
  <2> QED  BY <1>3, <2>2, <2>3
<1>5. ASSUME NEW size \in Sizes, UserConstructFrom(x, size)
      PROVE  \E w, Y : Y \subseteq Users /\ Own(w, Y, logFd) /\ Settle(w)
  <2>1. PICK u : u = Construct(v, x, Vacant)
    OBVIOUS
  <2>2. PICK Y : Y = X \cup {x}
    OBVIOUS
  <2>3. x \notin X
    BY <1>2, <1>5 DEF UserConstructFrom
  <2>4. PICK r \in OpenInto(u, x, size) : Settle(r.world)
    BY <1>1, <1>5, <2>1 DEF UserConstructFrom
  <2>5. Own(u, Y, logFd) /\ u.objs[x] = Vacant /\ x \in Y
    BY <1>3, <2>1, <2>2, <2>3, ConstructOwns
  <2>6. Own(r.world, Y, logFd)
    BY <2>5, OpenIntoOwns
  <2> QED  BY <1>3, <2>2, <2>4, <2>6
<1>6. ASSUME NEW size \in Sizes, UserOpen(x, size)
      PROVE  \E w, Y : Y \subseteq Users /\ Own(w, Y, logFd) /\ Settle(w)
  <2>1. x \notin X
    BY <1>2, <1>6 DEF UserOpen
  <2>2. PICK r \in Open(v, x, size) : Settle(r.world)
    BY <1>1, <1>6 DEF UserOpen
  <2>3. /\ r.ok \in BOOLEAN
        /\ r.ok => Own(r.world, X \cup {x}, logFd)
        /\ ~r.ok => Own(r.world, X, logFd)
    BY <1>3, <2>1, OpenOwns
  <2> QED  BY <1>3, <2>2, <2>3
<1>7. ASSUME NEW y \in Users, UserMove(x, y)
      PROVE  \E w, Y : Y \subseteq Users /\ Own(w, Y, logFd) /\ Settle(w)
  <2>1. PICK w : w = MoveConstruct(v, x, y)
    OBVIOUS
  <2>2. x \notin X /\ y \in X /\ Settle(w)
    BY <1>1, <1>2, <1>7, <2>1 DEF UserMove
  <2>3. Own(w, X \cup {x}, logFd)
    BY <1>3, <2>1, <2>2, MoveOwns
  <2> QED  BY <1>3, <2>2, <2>3
<1>8. ASSUME NEW y \in Users, UserAssign(x, y)
      PROVE  \E w, Y : Y \subseteq Users /\ Own(w, Y, logFd) /\ Settle(w)
  <2>1. PICK w : w = MoveAssign(v, x, y)
    OBVIOUS
  <2>2. x \in X /\ y \in X /\ Settle(w)
    BY <1>1, <1>2, <1>8, <2>1 DEF UserAssign
  <2>3. Own(w, X, logFd)
    BY <1>3, <2>1, <2>2, AssignOwns
  <2> QED  BY <1>3, <2>2, <2>3
<1>9. CASE UserDestroy(x)
  <2>1. PICK w : w = Destroy(v, x)
    OBVIOUS
  <2>2. x \in X /\ Settle(w)
    BY <1>1, <1>2, <1>9, <2>1 DEF UserDestroy
  <2>3. Own(w, X \ {x}, logFd) /\ X \ {x} \subseteq Users
    BY <1>3, <2>1, <2>2, DestroyOwns
  <2> QED  BY <2>2, <2>3
<1> QED  BY <1>4, <1>5, <1>6, <1>7, <1>8, <1>9 DEF UserStep

(* Each step of the processor keeps the invariant.                         *)
LEMMA NextProcessor ==
    ASSUME ProcessorInv, [Next]_vars
    PROVE  ProcessorInv'
<1>1. /\ Own(World, DOMAIN objs, logFd)
      /\ phase \in {"idle", "opened", "parsing", "reporting", "gone"}
  BY DEF ProcessorInv
<1>2. PICK v : v = World
  OBVIOUS
<1>3. PICK X : X = DOMAIN objs
  OBVIOUS
<1>4. Own(v, X, logFd) /\ v.objs = objs /\ v.fds = fds
      /\ v = [objs |-> objs, fds |-> fds, maps |-> maps]
  BY <1>1, <1>2, <1>3 DEF World
<1>5. ASSUME NEW w, NEW Y, Own(w, Y, logFd'), Settle(w)
      PROVE  Own(World, DOMAIN objs, logFd)' /\ DOMAIN objs' = Y /\ objs' = w.objs
  BY <1>5, Settled DEF Own
<1>6. ASSUME NEW size \in Sizes, RunOpen(size) PROVE ProcessorInv'
  <2>1. X \subseteq Users /\ "m" \notin X /\ "mapped" \notin X /\ phase = "idle"
    BY <1>3, <1>6, UsersAreOthers DEF ProcessorInv, RunOpen
  <2>2. PICK r \in Open(v, "mapped", size) :
          Settle(r.world) /\ phase' = IF r.ok THEN "opened" ELSE "idle"
    BY <1>2, <1>6 DEF RunOpen
  <2>3. logFd' = logFd
    BY <1>6 DEF RunOpen
  <2>4. /\ r.ok \in BOOLEAN
        /\ r.ok => Own(r.world, X \cup {"mapped"}, logFd) /\ Valid(r.world.objs["mapped"])
        /\ ~r.ok => Own(r.world, X, logFd)
    BY <1>4, <2>1, OpenOwns
  <2>5. CASE r.ok
    <3>1. /\ Own(World, DOMAIN objs, logFd)' /\ DOMAIN objs' = X \cup {"mapped"}
          /\ objs' = r.world.objs
      BY <1>5, <2>2, <2>3, <2>4, <2>5
    <3>2. HasOpened'
      BY <2>1, <2>4, <2>5, <3>1 DEF HasOpened
    <3> QED  BY <2>2, <2>5, <3>1, <3>2 DEF ProcessorInv
  <2>6. CASE ~r.ok
    <3>1. Own(World, DOMAIN objs, logFd)' /\ DOMAIN objs' = X
      BY <1>5, <2>2, <2>3, <2>4, <2>6
    <3> QED  BY <2>1, <2>2, <2>6, <3>1 DEF ProcessorInv
  <2> QED  BY <2>4, <2>5, <2>6
<1>7. CASE RunStart
  <2>1. HasOpened /\ "mmap" \notin X /\ "mapped" \in X
    BY <1>3, <1>7, UsersAreOthers DEF ProcessorInv, RunStart, HasOpened
  <2>2. PICK u : u = MoveConstruct(v, "mmap", "mapped")
    OBVIOUS
  <2>3. PICK Y : Y = X \cup {"mmap"}
    OBVIOUS
  <2>4. /\ Own(u, Y, logFd)
        /\ u.objs["mmap"] = objs["mapped"] /\ u.objs["mapped"] = Vacant
    BY <1>4, <2>1, <2>2, <2>3, MoveOwns
  <2>5. PICK s \in LoggerStart(u.fds) :
           Settle([u EXCEPT !.fds = s[1]]) /\ logFd' = s[2]
    BY <1>2, <1>7, <2>2 DEF RunStart
  <2>6. PICK w : w = [u EXCEPT !.fds = s[1]]
    OBVIOUS
  <2>7. Own(w, Y, logFd') /\ w.objs = u.objs
    BY <2>4, <2>5, <2>6, LoggerStartOwns
  <2>8. Own(World, DOMAIN objs, logFd)' /\ DOMAIN objs' = Y /\ objs' = u.objs
    BY <1>5, <2>5, <2>6, <2>7
  <2>9. InRun'
    BY <1>3, <2>1, <2>3, <2>4, <2>8 DEF InRun, HasOpened
  <2>10. phase' = "parsing" /\ stats' = pos'
    BY <1>7 DEF RunStart
  <2> QED  BY <2>8, <2>9, <2>10 DEF ProcessorInv
<1>8. ASSUME NEW m \in Messages, RunParse(m) PROVE ProcessorInv'
  <2>1. /\ phase = "parsing" /\ phase' = phase /\ UNCHANGED mmapVars /\ UNCHANGED logFd
        /\ stats' = stats + 1 /\ pos' = pos + 1
    BY <1>8 DEF RunParse
  <2>2. Own(World, DOMAIN objs, logFd)'
    BY <1>1, <2>1, WorldStays
  <2>3. InRun'
    BY <2>1 DEF ProcessorInv, InRun, mmapVars
  <2>4. stats' = pos'
    BY <2>1 DEF ProcessorInv
  <2> QED  BY <2>1, <2>2, <2>3, <2>4 DEF ProcessorInv
<1>9. ASSUME fds' = fds \ {logFd}, logFd' = -1, UNCHANGED <<objs, maps>>
      PROVE  Own(World, DOMAIN objs, logFd)' /\ DOMAIN objs' = X
  <2>1. PICK w : w = [v EXCEPT !.fds = v.fds \ {logFd}]
    OBVIOUS
  <2>2. Own(w, X, -1)
    BY <1>4, <2>1, LoggerStopOwns
  <2>3. PICK f : f = fds \ {logFd}
    OBVIOUS
  <2>4. w = [v EXCEPT !.fds = f]
    BY <1>4, <2>1, <2>3
  <2>5. w = [objs |-> objs, fds |-> f, maps |-> maps]
    BY <1>4, <2>4
  <2>6. Settle(w)
    BY <1>9, <2>3, <2>5 DEF Settle
  <2> QED  BY <1>5, <1>9, <2>2, <2>6
<1>10. CASE RunStop
  <2>1. Own(World, DOMAIN objs, logFd)' /\ DOMAIN objs' = X
    BY <1>9, <1>10 DEF RunStop
  <2>2. /\ phase = "parsing" /\ phase' = "reporting" /\ pos = objs["mmap"].size
        /\ objs' = objs /\ stats' = stats /\ logFd' = -1
    BY <1>10 DEF RunStop
  <2>3. InRun' /\ stats' = objs'["mmap"].size
    BY <2>2 DEF ProcessorInv, InRun
  <2> QED  BY <2>1, <2>2, <2>3 DEF ProcessorInv
<1>11. CASE RunReturn
  <2>1. InRun /\ phase' = "idle" /\ logFd' = logFd
    BY <1>11 DEF RunReturn, ProcessorInv
  <2>2. "mmap" \in X /\ "mapped" \in X /\ X \subseteq Users \cup {"mapped", "mmap"}
    BY <1>3, <2>1 DEF InRun
  <2>3. PICK u : u = Destroy(v, "mmap")
    OBVIOUS
  <2>4. PICK Y : Y = X \ {"mmap"}
    OBVIOUS
  <2>5. Own(u, Y, logFd) /\ "mapped" \in Y
    BY <1>4, <2>2, <2>3, <2>4, DestroyOwns
  <2>6. PICK w : w = Destroy(u, "mapped")
    OBVIOUS
  <2>7. Own(w, Y \ {"mapped"}, logFd)
    BY <2>5, <2>6, DestroyOwns
  <2>8. Settle(w)
    BY <1>2, <1>11, <2>3, <2>6 DEF RunReturn
  <2>9. Own(World, DOMAIN objs, logFd)' /\ DOMAIN objs' = Y \ {"mapped"}
    BY <1>5, <2>1, <2>7, <2>8
  <2>10. Y \ {"mapped"} \subseteq Users
    BY <2>2, <2>4
  <2> QED  BY <2>1, <2>9, <2>10 DEF ProcessorInv
<1>12. CASE StartLogger
  <2>1. PICK s \in LoggerStart(v.fds) : fds' = s[1] /\ logFd' = s[2]
    BY <1>4, <1>12 DEF StartLogger
  <2>2. PICK w : w = [v EXCEPT !.fds = s[1]]
    OBVIOUS
  <2>3. Own(w, X, logFd')
    BY <1>4, <2>1, <2>2, LoggerStartOwns
  <2>4. w = [objs |-> objs, fds |-> s[1], maps |-> maps]
    BY <1>4, <2>2
  <2>5. Settle(w)
    BY <1>12, <2>1, <2>4 DEF Settle, StartLogger
  <2>6. Own(World, DOMAIN objs, logFd)' /\ DOMAIN objs' = X
    BY <1>5, <2>3, <2>5
  <2>7. phase = "idle" /\ phase' = "idle"
    BY <1>12 DEF StartLogger
  <2> QED  BY <1>3, <2>6, <2>7 DEF ProcessorInv
<1>13. CASE EndProcessor
  <2>1. Own(World, DOMAIN objs, logFd)' /\ DOMAIN objs' = X
    BY <1>9, <1>13 DEF EndProcessor
  <2>2. phase = "idle" /\ phase' = "gone" /\ logFd' = -1
    BY <1>13 DEF EndProcessor
  <2> QED  BY <1>3, <2>1, <2>2 DEF ProcessorInv
<1>14. CASE UseFile
  <2>1. PICK x \in Users : UserStep(x)
    BY <1>14 DEF UseFile
  <2>2. phase \in {"idle", "gone"} /\ phase' = phase /\ logFd' = logFd
    BY <1>14 DEF UseFile, processorVars
  <2>3. X \subseteq Users
    BY <1>3, <2>2 DEF ProcessorInv
  <2>4. PICK w, Y : Y \subseteq Users /\ Own(w, Y, logFd) /\ Settle(w)
    BY <1>1, <1>3, <2>1, <2>3, UserOwns
  <2>5. Own(World, DOMAIN objs, logFd)' /\ DOMAIN objs' = Y
    BY <1>5, <2>2, <2>4
  <2> QED  BY <2>2, <2>4, <2>5 DEF ProcessorInv
<1>15. CASE UNCHANGED vars
  <2>1. UNCHANGED mmapVars /\ UNCHANGED <<phase, logFd, stats, pos>>
    BY <1>15 DEF vars, processorVars
  <2>2. Own(World, DOMAIN objs, logFd)'
    BY <1>1, <2>1, WorldStays
  <2> QED  BY <2>1, <2>2 DEF ProcessorInv, InRun, HasOpened, mmapVars
<1> QED  BY <1>6, <1>7, <1>8, <1>10, <1>11, <1>12, <1>13, <1>14, <1>15 DEF Next

(* The invariant holds: in each phase of a call of run, and before, after  *)
(* and between calls, every descriptor and every mapping has its owner.    *)
THEOREM ProcessorSound == Spec => []ProcessorInv
<1>1. Init => ProcessorInv
  BY InitProcessor
<1>2. ProcessorInv /\ [Next]_vars => ProcessorInv'
  BY NextProcessor
<1> QED  BY <1>1, <1>2, PTL DEF Spec

(* For any number of objects, descriptors and addresses: no descriptor and *)
(* no mapping is leaked, held twice or held after it is closed, through    *)
(* ~MMapFile, moves, an open that fails half-way, and the logger.          *)
THEOREM FilesOwnedOnce == Spec => []OwnedOnce
<1>1. ProcessorInv => OwnedOnce
  <2> SUFFICES ASSUME ProcessorInv PROVE OwnedOnce
    OBVIOUS
  <2>1. PICK X : X = DOMAIN objs
    OBVIOUS
  <2>2. Own(World, X, logFd) /\ World.objs = objs /\ World.fds = fds /\ World.maps = maps
    BY <2>1 DEF ProcessorInv, World
  <2>3. /\ \A x \in X : objs[x].fd # -1 => objs[x].fd \in fds /\ objs[x].fd # logFd
        /\ \A x, y \in X : objs[x].fd = objs[y].fd /\ objs[x].fd # -1 => x = y
        /\ logFd # -1 => logFd \in fds
        /\ \A d \in fds : d = logFd \/ \E x \in X : objs[x].fd = d
    BY <2>2 DEF Own, OwnFds
  <2>4. /\ \A x \in X : objs[x].data # Null =>
              objs[x].size > 0 /\ maps[objs[x].data] = objs[x].size
        /\ \A x, y \in X : objs[x].data = objs[y].data /\ objs[x].data # Null => x = y
        /\ \A a \in Addresses : maps[a] # 0 => \E x \in X : objs[x].data = a
    BY <2>2 DEF Own, OwnMaps
  <2>5. ASSUME NEW d \in Descriptors
        PROVE  (d \in fds <=> Holders(d) # {}) /\ \A x, y \in Holders(d) : x = y
    <3>1. d # -1
      BY DescriptorsAreNat
    <3>2. \A x : x \in Holders(d) <=> (x \in X /\ objs[x].fd = d) \/ (logFd = d /\ x = "logger")
      BY <2>1 DEF Holders
    <3> QED  BY <2>3, <3>1, <3>2
  <2>6. ASSUME NEW a \in Addresses
        PROVE  /\ maps[a] # 0 <=> Mappers(a) # {}
               /\ \A x, y \in Mappers(a) : x = y /\ maps[a] = objs[x].size
    <3>1. a # Null
      BY NullIsNoAddress
    <3>2. \A x : x \in Mappers(a) <=> x \in X /\ objs[x].data = a
      BY <2>1 DEF Mappers
    <3>3. \A x \in X : objs[x].size \in Nat
      BY <2>2, WorldParts DEF Own
    <3> QED  BY <2>4, <3>1, <3>2, <3>3
  <2> QED  BY <2>5, <2>6 DEF OwnedOnce
<1> QED  BY <1>1, ProcessorSound, PTL

(* A call of ITCHProcessor::run leaves no object and no running logger     *)
(* behind, and has its file while it parses.                               *)
THEOREM RunsCleanUp == Spec => []RunCleansUp
<1>1. ProcessorInv => RunCleansUp
  BY DEF ProcessorInv, InRun, RunCleansUp
<1> QED  BY <1>1, ProcessorSound, PTL

(* stats_ counts, when run reports it, the messages of the file that this  *)
(* call was given.  Nothing is said of the counters of the engine.         *)
THEOREM ReportsOwnRun == Spec => []ReportIsOfThisRun
<1>1. ProcessorInv => ReportIsOfThisRun
  BY DEF ProcessorInv, ReportIsOfThisRun
<1> QED  BY <1>1, ProcessorSound, PTL

-----------------------------------------------------------------------------
(* Instruments and the feed.  f is a sequence of messages.                 *)
AboutIn(f, l) == {i \in DOMAIN f : f[i].locate = l}
CreatingIn(f, l) == {i \in AboutIn(f, l) : f[i].type \in {"R", "A"}}
SinceIn(f, l, type) == {i \in AboutIn(f, l) : f[i].type = type /\ Min(CreatingIn(f, l)) <= i}
LatestIn(f, l, type, default) ==
    IF SinceIn(f, l, type) = {} THEN default ELSE f[Max(SinceIn(f, l, type))].value

Known(f) == {l \in Locates : CreatingIn(f, l) # {}}
ListedFirst(f) == {l \in Known(f) : f[Min(CreatingIn(f, l))].type = "R"}
HasBook(f, l) == \E i \in AboutIn(f, l) : f[i].type = "A"

InstrumentOf(f, l) ==
    [attributes   |-> LatestIn(f, l, "R", NoAttributes),
     tradingState |-> LatestIn(f, l, "H", Halted),
     regSHOAction |-> LatestIn(f, l, "Y", NoPriceTest),
     book         |-> HasBook(f, l)]

(* g is f with one more message, m, which is the n-th.                     *)
Extends(g, f, m, n) ==
    /\ n \in Nat /\ DOMAIN f \subseteq Nat
    /\ DOMAIN g = DOMAIN f \cup {n} /\ n \notin DOMAIN f
    /\ g[n] = m /\ \A i \in DOMAIN f : g[i] = f[i] /\ i < n

(* A message is delivered.                                                 *)
LEMMA AppendExtends ==
    ASSUME NEW f \in Seq(Messages), NEW m \in Messages, NEW g, g = Append(f, m)
    PROVE  g \in Seq(Messages) /\ \E n : Extends(g, f, m, n)
<1>1. PICK k : k = Len(f)
  OBVIOUS
<1>2. k \in Nat /\ DOMAIN f = 1..k
  BY <1>1
<1>3. /\ g \in Seq(Messages) /\ Len(g) = k + 1
      /\ \A i \in 1..k : g[i] = f[i]
      /\ g[k + 1] = m
  BY <1>1, AppendProperties
<1>4. DOMAIN g = 1..k + 1
  BY <1>3
<1>5. Extends(g, f, m, k + 1)
  BY <1>2, <1>3, <1>4 DEF Extends
<1> QED  BY <1>3, <1>5

(* What they say of an instrument.                                         *)
LEMMA ExtendsAbout ==
    ASSUME NEW f, NEW m, NEW g, NEW n, Extends(g, f, m, n), NEW l
    PROVE  /\ AboutIn(g, l) = AboutIn(f, l) \cup (IF m.locate = l THEN {n} ELSE {})
           /\ CreatingIn(g, l) = CreatingIn(f, l) \cup
                (IF m.locate = l /\ m.type \in {"R", "A"} THEN {n} ELSE {})
           /\ CreatingIn(f, l) \in SUBSET Nat /\ AboutIn(f, l) \in SUBSET Nat
<1>1. /\ n \in Nat /\ DOMAIN f \subseteq Nat
      /\ DOMAIN g = DOMAIN f \cup {n} /\ n \notin DOMAIN f
      /\ g[n] = m /\ \A i \in DOMAIN f : g[i] = f[i] /\ i < n
  BY DEF Extends
<1>2. AboutIn(g, l) = AboutIn(f, l) \cup (IF m.locate = l THEN {n} ELSE {})
  BY <1>1 DEF AboutIn
<1>3. AboutIn(f, l) \subseteq DOMAIN f
  BY DEF AboutIn
<1>4. CreatingIn(g, l) = CreatingIn(f, l) \cup
                (IF m.locate = l /\ m.type \in {"R", "A"} THEN {n} ELSE {})
  BY <1>1, <1>2, <1>3 DEF CreatingIn
<1> QED  BY <1>1, <1>2, <1>3, <1>4 DEF CreatingIn

(* The message that created an instrument stays the same; without one      *)
(* before, it is the new one.                                              *)
LEMMA ExtendsFirst ==
    ASSUME NEW f, NEW m, NEW g, NEW n, Extends(g, f, m, n), NEW l,
           CreatingIn(g, l) # {}
    PROVE  /\ CreatingIn(f, l) # {} =>
                 /\ Min(CreatingIn(g, l)) = Min(CreatingIn(f, l))
                 /\ Min(CreatingIn(f, l)) \in CreatingIn(f, l)
                 /\ Min(CreatingIn(f, l)) \in DOMAIN f
           /\ CreatingIn(f, l) = {} => Min(CreatingIn(g, l)) = n
<1>1. PICK C : C = CreatingIn(f, l)
  OBVIOUS
<1>2. PICK D : D = CreatingIn(g, l)
  OBVIOUS
<1>3. C \in SUBSET Nat /\ C \subseteq DOMAIN f /\ D \subseteq C \cup {n} /\ C \subseteq D
  BY <1>1, <1>2, ExtendsAbout DEF CreatingIn, AboutIn
<1>4. n \in Nat /\ \A i \in DOMAIN f : i < n
  BY DEF Extends
<1>5. D \in SUBSET Nat
  BY <1>3, <1>4
<1>6. ASSUME C # {} PROVE Min(D) = Min(C) /\ Min(C) \in C
  <2>1. PICK c : c = Min(C)
    OBVIOUS
  <2>2. c \in C /\ \A y \in C : c <= y
    BY <1>3, <1>6, <2>1, MinIs
  <2>3. \A y \in D : c <= y
    BY <1>3, <1>4, <2>2
  <2>4. c \in D
    BY <1>3, <2>2
  <2> QED  BY <1>5, <2>1, <2>2, <2>3, <2>4, MinUnique
<1>7. ASSUME C = {} PROVE Min(D) = n
  <2>1. D = {n}
    BY <1>2, <1>3, <1>7
  <2> QED  BY <1>4, <1>5, <2>1, MinUnique
<1> QED  BY <1>1, <1>2, <1>3, <1>6, <1>7

(* The value that counts: that of the new message, if it is about this     *)
(* instrument and of this type; otherwise the one before.                  *)
LEMMA ExtendsLatest ==
    ASSUME NEW f, NEW m, NEW g, NEW n, Extends(g, f, m, n), NEW l, NEW type, NEW default,
           CreatingIn(f, l) # {}
    PROVE  LatestIn(g, l, type, default) =
              IF m.locate = l /\ m.type = type THEN m.value ELSE LatestIn(f, l, type, default)
<1>2. /\ n \in Nat /\ DOMAIN f \subseteq Nat
      /\ g[n] = m /\ \A i \in DOMAIN f : g[i] = f[i] /\ i < n
  BY DEF Extends
<1>3. AboutIn(g, l) = AboutIn(f, l) \cup (IF m.locate = l THEN {n} ELSE {})
  BY ExtendsAbout
<1>4. CreatingIn(g, l) # {}
  BY ExtendsAbout
<1>5. PICK c : c = Min(CreatingIn(f, l))
  OBVIOUS
<1>6. Min(CreatingIn(g, l)) = c /\ c \in DOMAIN f
  BY <1>4, <1>5, ExtendsFirst
<1>7. PICK S : S = SinceIn(f, l, type)
  OBVIOUS
<1>8. S = {i \in AboutIn(f, l) : f[i].type = type /\ c <= i}
  BY <1>5, <1>7 DEF SinceIn
<1>9. SinceIn(g, l, type) = {i \in AboutIn(g, l) : g[i].type = type /\ c <= i}
  BY <1>6 DEF SinceIn
<1>10. AboutIn(f, l) \subseteq DOMAIN f
  BY DEF AboutIn
<1>11. CASE m.locate = l /\ m.type = type
  <2>1. PICK T : T = S \cup {n}
    OBVIOUS
  <2>2. SinceIn(g, l, type) = T
    BY <1>2, <1>3, <1>6, <1>8, <1>9, <1>10, <1>11, <2>1
  <2>3. T \in SUBSET Nat /\ n \in T /\ \A y \in T : n >= y
    BY <1>2, <1>8, <1>10, <2>1
  <2>4. Max(T) = n
    BY <2>3, MaxUnique
  <2> QED  BY <1>2, <1>11, <2>2, <2>3, <2>4 DEF LatestIn
<1>12. CASE ~(m.locate = l /\ m.type = type)
  <2>1. SinceIn(g, l, type) = S
    BY <1>2, <1>3, <1>6, <1>8, <1>9, <1>10, <1>12
  <2>2. S # {} => Max(S) \in DOMAIN f
    <3>1. ASSUME S # {} PROVE Max(S) \in DOMAIN f
      <4>1. S \in SUBSET Nat /\ \A y \in S : y <= n
        BY <1>2, <1>8, <1>10
      <4>2. Max(S) \in S
        BY <1>2, <3>1, <4>1, MaxIs
      <4> QED  BY <1>8, <1>10, <4>2
    <3> QED  BY <3>1
  <2> QED  BY <1>2, <1>7, <1>12, <2>1, <2>2 DEF LatestIn
<1> QED  BY <1>11, <1>12

(* The message that creates an instrument is the only one that counts.     *)
LEMMA ExtendsFresh ==
    ASSUME NEW f, NEW m, NEW g, NEW n, Extends(g, f, m, n), NEW l, NEW type, NEW default,
           CreatingIn(f, l) = {}, CreatingIn(g, l) # {}
    PROVE  LatestIn(g, l, type, default) = IF m.type = type THEN m.value ELSE default
<1>1. /\ n \in Nat /\ DOMAIN f \subseteq Nat
      /\ g[n] = m /\ \A i \in DOMAIN f : g[i] = f[i] /\ i < n
  BY DEF Extends
<1>2. m.locate = l /\ AboutIn(g, l) = AboutIn(f, l) \cup {n}
  BY ExtendsAbout
<1>3. Min(CreatingIn(g, l)) = n
  BY ExtendsFirst
<1>4. AboutIn(f, l) \subseteq DOMAIN f
  BY DEF AboutIn
<1>5. SinceIn(g, l, type) = {i \in AboutIn(g, l) : g[i].type = type /\ n <= i}
  BY <1>3 DEF SinceIn
<1>6. CASE m.type = type
  <2>1. SinceIn(g, l, type) = {n}
    BY <1>1, <1>2, <1>4, <1>5, <1>6
  <2>2. Max({n}) = n
    BY <1>1, MaxUnique
  <2> QED  BY <1>1, <1>6, <2>1, <2>2 DEF LatestIn
<1>7. CASE m.type # type
  <2>1. SinceIn(g, l, type) = {}
    BY <1>1, <1>2, <1>4, <1>5, <1>7
  <2> QED  BY <1>7, <2>1 DEF LatestIn
<1> QED  BY <1>6, <1>7

(* Whether there is a book.                                                *)
LEMMA ExtendsBook ==
    ASSUME NEW f, NEW m, NEW g, NEW n, Extends(g, f, m, n), NEW l
    PROVE  HasBook(g, l) <=> HasBook(f, l) \/ (m.locate = l /\ m.type = "A")
<1>1. AboutIn(g, l) = AboutIn(f, l) \cup (IF m.locate = l THEN {n} ELSE {})
  BY ExtendsAbout
<1>2. g[n] = m /\ \A i \in AboutIn(f, l) : g[i] = f[i]
  BY DEF Extends, AboutIn
<1> QED  BY <1>1, <1>2 DEF HasBook

(* What becomes of an instrument that exists.                              *)
LEMMA InstrumentExtends ==
    ASSUME NEW f, NEW m, NEW g, NEW n, Extends(g, f, m, n), NEW l, CreatingIn(f, l) # {},
           NEW o, o = InstrumentOf(f, l)
    PROVE  /\ m.locate # l \/ m.type = "other" => InstrumentOf(g, l) = o
           /\ m.locate = l /\ m.type = "R" => InstrumentOf(g, l) = [o EXCEPT !.attributes = m.value]
           /\ m.locate = l /\ m.type = "H" => InstrumentOf(g, l) = [o EXCEPT !.tradingState = m.value]
           /\ m.locate = l /\ m.type = "Y" => InstrumentOf(g, l) = [o EXCEPT !.regSHOAction = m.value]
           /\ m.locate = l /\ m.type = "A" => InstrumentOf(g, l) = [o EXCEPT !.book = TRUE]
<1>1. PICK a, s, r, b : /\ a = LatestIn(f, l, "R", NoAttributes)
                        /\ s = LatestIn(f, l, "H", Halted)
                        /\ r = LatestIn(f, l, "Y", NoPriceTest)
                        /\ b = HasBook(f, l)
  OBVIOUS
<1>2. o = [attributes |-> a, tradingState |-> s, regSHOAction |-> r, book |-> b]
  BY <1>1 DEF InstrumentOf
<1>3. PICK c, t, q, d : /\ c = LatestIn(g, l, "R", NoAttributes)
                        /\ t = LatestIn(g, l, "H", Halted)
                        /\ q = LatestIn(g, l, "Y", NoPriceTest)
                        /\ d = HasBook(g, l)
  OBVIOUS
<1>4. PICK e : e = InstrumentOf(g, l)
  OBVIOUS
<1>5. e = [attributes |-> c, tradingState |-> t, regSHOAction |-> q, book |-> d]
  BY <1>3, <1>4 DEF InstrumentOf
<1>6. /\ c = IF m.locate = l /\ m.type = "R" THEN m.value ELSE a
      /\ t = IF m.locate = l /\ m.type = "H" THEN m.value ELSE s
      /\ q = IF m.locate = l /\ m.type = "Y" THEN m.value ELSE r
  BY <1>1, <1>3, ExtendsLatest
<1>7. d = (b \/ (m.locate = l /\ m.type = "A")) /\ b \in BOOLEAN
  <2>1. d <=> b \/ (m.locate = l /\ m.type = "A")
    BY <1>1, <1>3, ExtendsBook
  <2>2. b \in BOOLEAN /\ d \in BOOLEAN
    BY <1>1, <1>3 DEF HasBook
  <2> QED  BY <2>1, <2>2
<1>8. CASE m.locate # l \/ m.type = "other"
  <2>1. c = a /\ t = s /\ q = r
    BY <1>6, <1>8
  <2>2. d = b
    BY <1>7, <1>8
  <2> QED  BY <1>2, <1>4, <1>5, <1>8, <2>1, <2>2
<1>9. CASE m.locate = l /\ m.type = "R"
  <2>1. c = m.value /\ t = s /\ q = r /\ d = b
    BY <1>6, <1>7, <1>9
  <2>2. e = [o EXCEPT !.attributes = m.value]
    BY <1>2, <1>5, <2>1
  <2> QED  BY <1>4, <1>9, <2>2
<1>10. CASE m.locate = l /\ m.type = "H"
  <2>1. c = a /\ t = m.value /\ q = r /\ d = b
    BY <1>6, <1>7, <1>10
  <2>2. e = [o EXCEPT !.tradingState = m.value]
    BY <1>2, <1>5, <2>1
  <2> QED  BY <1>4, <1>10, <2>2
<1>11. CASE m.locate = l /\ m.type = "Y"
  <2>1. c = a /\ t = s /\ q = m.value /\ d = b
    BY <1>6, <1>7, <1>11
  <2>2. e = [o EXCEPT !.regSHOAction = m.value]
    BY <1>2, <1>5, <2>1
  <2> QED  BY <1>4, <1>11, <2>2
<1>12. CASE m.locate = l /\ m.type = "A"
  <2>1. c = a /\ t = s /\ q = r
    BY <1>6, <1>12
  <2>2. d = TRUE
    BY <1>7, <1>12
  <2>3. e = [o EXCEPT !.book = d]
    BY <1>2, <1>5, <2>1
  <2>4. e = [o EXCEPT !.book = TRUE]
    BY <2>2, <2>3
  <2> QED  BY <1>4, <1>12, <2>4
<1> QED  BY <1>8, <1>9, <1>10, <1>11, <1>12

(* What a new instrument is.                                               *)
LEMMA InstrumentFresh ==
    ASSUME NEW f, NEW m, NEW g, NEW n, Extends(g, f, m, n), NEW l,
           CreatingIn(f, l) = {}, CreatingIn(g, l) # {}
    PROVE  /\ m.locate = l /\ m.type \in {"R", "A"}
           /\ m.type = "R" => InstrumentOf(g, l) = [NewInstrument EXCEPT !.attributes = m.value]
           /\ m.type = "A" => InstrumentOf(g, l) = [NewInstrument EXCEPT !.book = TRUE]
<1>1. m.locate = l /\ m.type \in {"R", "A"}
  BY ExtendsAbout
<1>2. PICK c, t, q, d : /\ c = LatestIn(g, l, "R", NoAttributes)
                        /\ t = LatestIn(g, l, "H", Halted)
                        /\ q = LatestIn(g, l, "Y", NoPriceTest)
                        /\ d = HasBook(g, l)
  OBVIOUS
<1>3. InstrumentOf(g, l) = [attributes |-> c, tradingState |-> t, regSHOAction |-> q, book |-> d]
  BY <1>2 DEF InstrumentOf
<1>4. /\ c = IF m.type = "R" THEN m.value ELSE NoAttributes
      /\ t = IF m.type = "H" THEN m.value ELSE Halted
      /\ q = IF m.type = "Y" THEN m.value ELSE NoPriceTest
  BY <1>2, ExtendsFresh
<1>5. d <=> m.type = "A"
  <2>1. ~HasBook(f, l)
    BY DEF HasBook, CreatingIn
  <2> QED  BY <1>1, <1>2, <2>1, ExtendsBook
<1>6. d \in BOOLEAN
  BY <1>2 DEF HasBook
<1>7. PICK e, o, b : /\ e = InstrumentOf(g, l) /\ o = NewInstrument /\ b = FALSE
                     /\ o = [attributes |-> NoAttributes, tradingState |-> Halted,
                             regSHOAction |-> NoPriceTest, book |-> b]
  BY DEF NewInstrument
<1>8. CASE m.type = "R"
  <2>1. c = m.value /\ t = Halted /\ q = NoPriceTest
    BY <1>4, <1>8
  <2>2. d = b
    BY <1>5, <1>6, <1>7, <1>8
  <2>3. e = [o EXCEPT !.attributes = m.value]
    BY <1>3, <1>7, <2>1, <2>2
  <2> QED  BY <1>1, <1>7, <1>8, <2>3
<1>9. CASE m.type = "A"
  <2>1. c = NoAttributes /\ t = Halted /\ q = NoPriceTest
    BY <1>4, <1>9
  <2>2. d = TRUE
    BY <1>5, <1>6, <1>9
  <2>3. e = [o EXCEPT !.book = d]
    BY <1>3, <1>7, <2>1
  <2>4. e = [o EXCEPT !.book = TRUE]
    BY <2>2, <2>3
  <2> QED  BY <1>1, <1>7, <1>9, <2>4
<1> QED  BY <1>1, <1>8, <1>9

(* The instruments that exist.                                             *)
LEMMA KnownExtends ==
    ASSUME NEW f, NEW m, NEW g, NEW n, Extends(g, f, m, n), m.locate \in Locates
    PROVE  /\ Known(g) = Known(f) \cup (IF m.type \in {"R", "A"} THEN {m.locate} ELSE {})
           /\ ListedFirst(g) = ListedFirst(f) \cup
                 (IF m.type = "R" /\ m.locate \notin Known(f) THEN {m.locate} ELSE {})
<1>1. \A l : CreatingIn(g, l) = CreatingIn(f, l) \cup
                (IF m.locate = l /\ m.type \in {"R", "A"} THEN {n} ELSE {})
  BY ExtendsAbout
<1>2. Known(g) = Known(f) \cup (IF m.type \in {"R", "A"} THEN {m.locate} ELSE {})
  BY <1>1 DEF Known
<1>3. ASSUME NEW l \in Known(f)
      PROVE  l \in Known(g) /\ (l \in ListedFirst(g) <=> l \in ListedFirst(f))
  <2>1. l \in Known(g) /\ CreatingIn(f, l) # {} /\ CreatingIn(g, l) # {}
    BY <1>1, <1>2 DEF Known
  <2>2. PICK c : c = Min(CreatingIn(f, l))
    OBVIOUS
  <2>3. Min(CreatingIn(g, l)) = c /\ c \in DOMAIN f
    BY <2>1, <2>2, ExtendsFirst
  <2>4. g[c] = f[c]
    BY <2>3 DEF Extends
  <2> QED  BY <2>1, <2>2, <2>3, <2>4 DEF ListedFirst
<1>4. ASSUME NEW l \in Known(g), l \notin Known(f)
      PROVE  /\ l = m.locate /\ m.type \in {"R", "A"}
             /\ l \in ListedFirst(g) <=> m.type = "R"
  <2>1. l = m.locate /\ m.type \in {"R", "A"}
    BY <1>2, <1>4
  <2>2. CreatingIn(f, l) = {} /\ CreatingIn(g, l) # {}
    BY <1>4 DEF Known
  <2>3. Min(CreatingIn(g, l)) = n
    BY <2>2, ExtendsFirst
  <2>4. g[n] = m
    BY DEF Extends
  <2> QED  BY <2>1, <2>3, <2>4 DEF ListedFirst
<1>5. ListedFirst(f) \subseteq Known(f) /\ ListedFirst(g) \subseteq Known(g)
  BY DEF ListedFirst
<1>6. m.type = "R" => m.locate \in Known(g)
  BY <1>2
<1>7. ListedFirst(g) = ListedFirst(f) \cup
         (IF m.type = "R" /\ m.locate \notin Known(f) THEN {m.locate} ELSE {})
  BY <1>3, <1>4, <1>5, <1>6
<1> QED  BY <1>2, <1>7

(* The inductive invariant: the instruments are those of the feed.         *)
FeedInv ==
    /\ fed \in Seq(Messages)
    /\ slots = [l \in Known(fed) |-> InstrumentOf(fed, l)]
    /\ count = Cardinality(Known(fed))
    /\ registered = Cardinality(ListedFirst(fed))

(* Every message is about a locate.                                        *)
LEMMA MessageParts ==
    ASSUME NEW m \in Messages
    PROVE  m.locate \in Locates
BY DEF Messages, Message

(* A set of locates with one more.                                         *)
LEMMA OneMore ==
    ASSUME NEW S \in SUBSET Locates, NEW l \in Locates
    PROVE  /\ Cardinality(S) \in Nat
           /\ l \in S => Cardinality(S \cup {l}) = Cardinality(S)
           /\ l \notin S => Cardinality(S \cup {l}) = Cardinality(S) + 1
<1>1. IsFiniteSet(S)
  BY LocatesAreFinite, FS_Subset
<1>2. Cardinality(S) \in Nat
  BY <1>1, FS_CardinalityType
<1>3. l \in S => S \cup {l} = S
  OBVIOUS
<1>4. l \notin S => Cardinality(S \cup {l}) = Cardinality(S) + 1
  BY <1>1, FS_AddElement
<1> QED  BY <1>2, <1>3, <1>4

InstrumentsOf(f) == [l \in Known(f) |-> InstrumentOf(f, l)]
Created(h, l, m) ==
    [h EXCEPT ![l] = IF m.type = "R" THEN [h[l] EXCEPT !.attributes = m.value]
                     ELSE [h[l] EXCEPT !.book = TRUE]]

(* A message that creates: the instrument is there afterwards, as it was   *)
(* or new.                                                                 *)
LEMMA CreateFollows ==
    ASSUME NEW f, NEW m, NEW g, NEW n, Extends(g, f, m, n), NEW l \in Locates, m.locate = l,
           m.type \in {"R", "A"},
           slots = InstrumentsOf(f), NEW h, h = GetOrCreate(l), NEW r, r = Created(h, l, m)
    PROVE  r = InstrumentsOf(g)
<1>1. Known(g) = Known(f) \cup {l}
  BY KnownExtends
<1>2. DOMAIN slots = Known(f) /\ slots = [k \in Known(f) |-> InstrumentOf(f, k)]
  BY DEF InstrumentsOf
<1>3. h = [k \in Known(g) |-> IF k \in Known(f) THEN InstrumentOf(f, k) ELSE NewInstrument]
  BY <1>1, <1>2 DEF GetOrCreate
<1>4. ASSUME NEW k \in Known(g), k # l PROVE h[k] = InstrumentOf(g, k)
  <2>1. k \in Known(f) /\ CreatingIn(f, k) # {}
    BY <1>1, <1>4 DEF Known
  <2>2. InstrumentOf(g, k) = InstrumentOf(f, k)
    BY <1>4, <2>1, InstrumentExtends
  <2> QED  BY <1>3, <2>1, <2>2
<1>5. PICK o : o = h[l]
  OBVIOUS
<1>6. PICK e : e = IF m.type = "R" THEN [o EXCEPT !.attributes = m.value]
                   ELSE [o EXCEPT !.book = TRUE]
  OBVIOUS
<1>7. e = InstrumentOf(g, l)
  <2>1. CASE l \in Known(f)
    <3>1. o = InstrumentOf(f, l) /\ CreatingIn(f, l) # {}
      BY <1>1, <1>3, <1>5, <2>1 DEF Known
    <3>2. /\ m.type = "R" => InstrumentOf(g, l) = [o EXCEPT !.attributes = m.value]
          /\ m.type = "A" => InstrumentOf(g, l) = [o EXCEPT !.book = TRUE]
      BY <3>1, InstrumentExtends
    <3> QED  BY <1>6, <3>2
  <2>2. CASE l \notin Known(f)
    <3>1. o = NewInstrument /\ CreatingIn(f, l) = {} /\ CreatingIn(g, l) # {}
      BY <1>1, <1>3, <1>5, <2>2 DEF Known
    <3>2. /\ m.type = "R" => InstrumentOf(g, l) = [o EXCEPT !.attributes = m.value]
          /\ m.type = "A" => InstrumentOf(g, l) = [o EXCEPT !.book = TRUE]
      BY <3>1, InstrumentFresh
    <3> QED  BY <1>6, <3>2
  <2> QED  BY <2>1, <2>2
<1>8. r = [h EXCEPT ![l] = e]
  BY <1>5, <1>6 DEF Created
<1>9. DOMAIN h = Known(g) /\ l \in Known(g)
  BY <1>1, <1>3
<1> QED  BY <1>3, <1>4, <1>7, <1>8, <1>9 DEF InstrumentsOf

(* A message that does not: it changes the instrument if there is one.     *)
LEMMA ChangeFollows ==
    ASSUME NEW f, NEW m, NEW g, NEW n, Extends(g, f, m, n), NEW l \in Locates, m.locate = l,
           m.type \in {"H", "Y", "other"},
           NEW h, h = [k \in Known(f) |-> InstrumentOf(f, k)],
           NEW r, r = IF l \in Known(f) /\ m.type # "other"
                      THEN [h EXCEPT ![l] = IF m.type = "H"
                                            THEN [h[l] EXCEPT !.tradingState = m.value]
                                            ELSE [h[l] EXCEPT !.regSHOAction = m.value]]
                      ELSE h
    PROVE  /\ r = [k \in Known(g) |-> InstrumentOf(g, k)]
           /\ Known(g) = Known(f) /\ ListedFirst(g) = ListedFirst(f)
<1>1. Known(g) = Known(f) /\ ListedFirst(g) = ListedFirst(f)
  BY KnownExtends
<1>2. \A k \in Known(f) : CreatingIn(f, k) # {}
  BY DEF Known
<1>3. \A k \in Known(f) : k # l \/ m.type = "other" => InstrumentOf(g, k) = h[k]
  BY <1>2, InstrumentExtends
<1>4. CASE l \in Known(f) /\ m.type # "other"
  <2>1. PICK o : o = h[l]
    OBVIOUS
  <2>2. PICK e : e = IF m.type = "H" THEN [o EXCEPT !.tradingState = m.value]
                     ELSE [o EXCEPT !.regSHOAction = m.value]
    OBVIOUS
  <2>3. o = InstrumentOf(f, l)
    BY <1>4, <2>1
  <2>4. /\ m.type = "H" => InstrumentOf(g, l) = [o EXCEPT !.tradingState = m.value]
        /\ m.type = "Y" => InstrumentOf(g, l) = [o EXCEPT !.regSHOAction = m.value]
    BY <1>2, <1>4, <2>3, InstrumentExtends
  <2>5. e = InstrumentOf(g, l)
    BY <1>4, <2>2, <2>4
  <2>6. r = [h EXCEPT ![l] = e]
    BY <1>4, <2>1, <2>2
  <2> QED  BY <1>1, <1>3, <2>5, <2>6
<1>5. CASE ~(l \in Known(f) /\ m.type # "other")
  <2>1. \A k \in Known(f) : InstrumentOf(g, k) = h[k]
    BY <1>3, <1>5
  <2> QED  BY <1>1, <1>5, <2>1
<1> QED  BY <1>4, <1>5

(* One message through the handlers.                                       *)
LEMMA HandleFollows ==
    ASSUME FeedInv, NEW m \in Messages, Handle(m), fed' = Append(fed, m)
    PROVE  FeedInv'
<1>1. PICK f : f = fed
  OBVIOUS
<1>2. PICK g : g = fed'
  OBVIOUS
<1>3. /\ f \in Seq(Messages) /\ slots = [l \in Known(f) |-> InstrumentOf(f, l)]
      /\ count = Cardinality(Known(f)) /\ registered = Cardinality(ListedFirst(f))
  BY <1>1 DEF FeedInv
<1>4. g \in Seq(Messages) /\ g = Append(f, m)
  BY <1>1, <1>2, <1>3, AppendExtends
<1>5. PICK n : Extends(g, f, m, n)
  BY <1>3, <1>4, AppendExtends
<1>6. PICK l : l = m.locate
  OBVIOUS
<1>7. l \in Locates /\ m.locate = l
  BY <1>6, MessageParts
<1>8. DOMAIN slots = Known(f)
  BY <1>3
<1>9. Known(f) \in SUBSET Locates /\ ListedFirst(f) \in SUBSET Known(f)
  BY DEF Known, ListedFirst
<1>10. SUFFICES /\ slots' = [k \in Known(g) |-> InstrumentOf(g, k)]
                /\ count' = Cardinality(Known(g))
                /\ registered' = Cardinality(ListedFirst(g))
  BY <1>2, <1>4 DEF FeedInv
<1>11. PICK h : h = GetOrCreate(l)
  OBVIOUS
<1>12. ASSUME m.type \in {"R", "A"}
       PROVE  CountWith(l) = Cardinality(Known(g))
  <2>1. Known(g) = Known(f) \cup {l}
    BY <1>5, <1>7, <1>12, KnownExtends
  <2> QED  BY <1>3, <1>7, <1>8, <1>9, <2>1, OneMore DEF CountWith
<1>13. CASE m.type = "R" /\ OnStockDirectory(l, m.value)
  <2>1. PICK r : r = slots'
    OBVIOUS
  <2>2. r = [h EXCEPT ![l].attributes = m.value]
    BY <1>11, <1>13, <2>1 DEF OnStockDirectory
  <2>3. r = Created(h, l, m) /\ slots = InstrumentsOf(f) /\ m.type \in {"R", "A"}
    BY <1>3, <1>13, <2>2 DEF Created, InstrumentsOf
  <2>4. slots' = [k \in Known(g) |-> InstrumentOf(g, k)]
    <3>1. r = InstrumentsOf(g)
      BY <1>5, <1>7, <1>11, <2>3, CreateFollows
    <3> QED  BY <2>1, <3>1 DEF InstrumentsOf
  <2>5. count' = Cardinality(Known(g))
    BY <1>12, <1>13 DEF OnStockDirectory
  <2>6. registered' = Cardinality(ListedFirst(g))
    <3>1. ListedFirst(g) = ListedFirst(f) \cup (IF l \notin Known(f) THEN {l} ELSE {})
      BY <1>5, <1>7, <1>13, KnownExtends
    <3>2. registered' = IF l \in Known(f) THEN registered ELSE registered + 1
      BY <1>8, <1>13 DEF OnStockDirectory
    <3>3. ListedFirst(f) \in SUBSET Locates /\ (l \notin Known(f) => l \notin ListedFirst(f))
      BY <1>9
    <3>4. l \notin Known(f) => Cardinality(ListedFirst(f) \cup {l}) = Cardinality(ListedFirst(f)) + 1
      BY <1>7, <3>3, OneMore
    <3>5. CASE l \in Known(f)
      <4>1. ListedFirst(g) = ListedFirst(f)
        BY <3>1, <3>5
      <4> QED  BY <1>3, <3>2, <3>5, <4>1
    <3>6. CASE l \notin Known(f)
      <4>1. ListedFirst(g) = ListedFirst(f) \cup {l}
        BY <3>1, <3>6
      <4> QED  BY <1>3, <3>2, <3>4, <3>6, <4>1
    <3> QED  BY <3>5, <3>6
  <2> QED  BY <2>4, <2>5, <2>6
<1>14. CASE m.type = "A" /\ OnAddOrder(l)
  <2>1. PICK r : r = slots'
    OBVIOUS
  <2>2. r = [h EXCEPT ![l] = [h[l] EXCEPT !.book = TRUE]]
    BY <1>11, <1>14, <2>1 DEF OnAddOrder, EnsureBook
  <2>3. r = Created(h, l, m) /\ slots = InstrumentsOf(f) /\ m.type \in {"R", "A"}
    BY <1>3, <1>14, <2>2 DEF Created, InstrumentsOf
  <2>4. slots' = [k \in Known(g) |-> InstrumentOf(g, k)]
    <3>1. r = InstrumentsOf(g)
      BY <1>5, <1>7, <1>11, <2>3, CreateFollows
    <3> QED  BY <2>1, <3>1 DEF InstrumentsOf
  <2>5. count' = Cardinality(Known(g)) /\ registered' = registered
    BY <1>12, <1>14 DEF OnAddOrder
  <2>6. ListedFirst(g) = ListedFirst(f)
    BY <1>5, <1>7, <1>14, KnownExtends
  <2> QED  BY <1>3, <2>4, <2>5, <2>6
<1>15. CASE \/ m.type = "H" /\ OnTradingAction(l, m.value)
            \/ m.type = "Y" /\ OnRegSho(l, m.value)
            \/ m.type = "other" /\ UNCHANGED instrumentVars
  <2>1. PICK o : o = slots
    OBVIOUS
  <2>2. PICK r : r = slots'
    OBVIOUS
  <2>3. r = IF l \in Known(f) /\ m.type # "other"
            THEN [o EXCEPT ![l] = IF m.type = "H"
                                  THEN [o[l] EXCEPT !.tradingState = m.value]
                                  ELSE [o[l] EXCEPT !.regSHOAction = m.value]]
            ELSE o
    <3>1. CASE m.type = "H" /\ OnTradingAction(l, m.value)
      BY <1>8, <2>1, <2>2, <3>1 DEF OnTradingAction
    <3>2. CASE m.type = "Y" /\ OnRegSho(l, m.value)
      BY <1>8, <2>1, <2>2, <3>2 DEF OnRegSho
    <3>3. CASE m.type = "other" /\ UNCHANGED instrumentVars
      BY <2>1, <2>2, <3>3 DEF instrumentVars
    <3> QED  BY <1>15, <3>1, <3>2, <3>3
  <2>4. count' = count /\ registered' = registered /\ m.type \in {"H", "Y", "other"}
    BY <1>15 DEF OnTradingAction, OnRegSho, instrumentVars
  <2>5. /\ r = [k \in Known(g) |-> InstrumentOf(g, k)]
        /\ Known(g) = Known(f) /\ ListedFirst(g) = ListedFirst(f)
    BY <1>3, <1>5, <1>7, <2>1, <2>3, <2>4, ChangeFollows
  <2> QED  BY <1>3, <2>2, <2>4, <2>5
<1> QED  BY <1>6, <1>13, <1>14, <1>15 DEF Handle

(* Only RunParse touches the instruments or the feed.                      *)
LEMMA NextFollows ==
    ASSUME FeedInv, [Next]_vars
    PROVE  FeedInv'
<1>1. ASSUME NEW m \in Messages, RunParse(m) PROVE FeedInv'
  BY <1>1, HandleFollows DEF RunParse
<1>2. ASSUME UNCHANGED instrumentVars, UNCHANGED fed PROVE FeedInv'
  BY <1>2 DEF FeedInv, instrumentVars
<1>3. CASE UNCHANGED vars
  BY <1>2, <1>3 DEF vars, processorVars
<1>4. ASSUME NEW size \in Sizes, RunOpen(size) PROVE FeedInv'
  BY <1>2, <1>4 DEF RunOpen
<1>5. CASE RunStart
  BY <1>2, <1>5 DEF RunStart
<1>6. CASE RunStop
  BY <1>2, <1>6 DEF RunStop
<1>7. CASE RunReturn
  BY <1>2, <1>7 DEF RunReturn
<1>8. CASE StartLogger
  BY <1>2, <1>8 DEF StartLogger
<1>9. CASE EndProcessor
  BY <1>2, <1>9 DEF EndProcessor
<1>10. CASE UseFile
  BY <1>2, <1>10 DEF UseFile, processorVars
<1> QED  BY <1>1, <1>3, <1>4, <1>5, <1>6, <1>7, <1>8, <1>9, <1>10 DEF Next

(* Before the first message there is no instrument.                        *)
LEMMA InitFollows == Init => FeedInv
<1> SUFFICES ASSUME Init PROVE FeedInv
  OBVIOUS
<1>1. /\ slots = [l \in {} |-> NewInstrument] /\ count = 0 /\ registered = 0
      /\ fed = <<>>
  BY DEF Init, InitInstruments
<1>2. fed \in Seq(Messages) /\ DOMAIN fed = {}
  BY <1>1
<1>3. Known(fed) = {}
  BY <1>2 DEF Known, CreatingIn, AboutIn
<1>4. ListedFirst(fed) = {}
  BY <1>3 DEF ListedFirst
<1>5. Cardinality({}) = 0
  BY FS_EmptySet
<1> QED  BY <1>1, <1>2, <1>3, <1>4, <1>5 DEF FeedInv

(* For any number of runs, messages and locates: slots_, count_ and        *)
(* instruments_registered are what the directory messages, orders, trading *)
(* actions and Reg SHO messages of all runs make them, in their order.     *)
THEOREM InstrumentsOfFeed == Spec => []InstrumentsFollowFeed
<1>1. FeedInv => InstrumentsFollowFeed
  <2> SUFFICES ASSUME FeedInv PROVE InstrumentsFollowFeed
    OBVIOUS
  <2>1. /\ slots = [l \in Known(fed) |-> InstrumentOf(fed, l)]
        /\ count = Cardinality(Known(fed))
        /\ registered = Cardinality(ListedFirst(fed))
        /\ DOMAIN slots = Known(fed)
    BY DEF FeedInv
  <2>2. \A l : About(l) = AboutIn(fed, l)
    BY DEF About, AboutIn
  <2>3. \A l : Creating(l) = CreatingIn(fed, l)
    BY <2>2 DEF Creating, CreatingIn
  <2>4. \A l, type, default : Latest(l, type, default) = LatestIn(fed, l, type, default)
    BY <2>2, <2>3 DEF Latest, LatestIn, SinceIn
  <2>5. Known(fed) = {l \in Locates : Creating(l) # {}}
    BY <2>3 DEF Known
  <2>6. \A l \in DOMAIN slots :
          slots[l] = [attributes   |-> Latest(l, "R", NoAttributes),
                      tradingState |-> Latest(l, "H", Halted),
                      regSHOAction |-> Latest(l, "Y", NoPriceTest),
                      book         |-> \E i \in About(l) : fed[i].type = "A"]
    <3>1. TAKE l \in DOMAIN slots
    <3>2. slots[l] = InstrumentOf(fed, l)
      BY <2>1
    <3> QED  BY <2>2, <2>4, <3>2 DEF InstrumentOf, HasBook
  <2>7. ListedFirst(fed) = {l \in DOMAIN slots : fed[Min(Creating(l))].type = "R"}
    BY <2>1, <2>3 DEF ListedFirst
  <2> QED  BY <2>1, <2>5, <2>6, <2>7 DEF InstrumentsFollowFeed
<1>2. FeedInv /\ [Next]_vars => FeedInv'
  BY NextFollows
<1> QED  BY <1>1, <1>2, InitFollows, PTL DEF Spec

=============================================================================
