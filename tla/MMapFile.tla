------------------------------ MODULE MMapFile ------------------------------
(***************************************************************************)
(* MMapFile: objects that own a mapping and a descriptor, handed around by *)
(* moves.  The kernel side is the table of descriptors of the process and  *)
(* its mappings; what any other part of the process opens is in the same   *)
(* table, and a number that was closed is given out again.                 *)
(*                                                                         *)
(* Abstractions.  A path is the size of the file behind it, and a path     *)
(* that cannot be opened, inspected or mapped is a call that fails; a      *)
(* directory or an empty file leaves what a failing fstat leaves.          *)
(* advise_sequential and prefault change nothing.                          *)
(***************************************************************************)
EXTENDS Integers, FiniteSets, FiniteSetsExt

CONSTANTS
    Users,       \* MMapFile objects in the hands of the program
    Descriptors, \* numbers that open may return
    Addresses,   \* where mmap may place a mapping
    Sizes,       \* sizes of files
    Null         \* nullptr

ASSUME DescriptorsAreNat == Descriptors \subseteq Nat /\ IsFiniteSet(Descriptors)
ASSUME SizesArePositive == Sizes \subseteq Nat \ {0}
ASSUME NullIsNoAddress == Null \notin Addresses

VARIABLES
    objs, \* the objects that live: a function on their names
    fds,  \* the descriptors that are open
    maps  \* the bytes mapped at each address

mmapVars == <<objs, fds, maps>>

World == [objs |-> objs, fds |-> fds, maps |-> maps]

Settle(w) == objs' = w.objs /\ fds' = w.fds /\ maps' = w.maps

(* An object that owns nothing.                                            *)
Vacant == [data |-> Null, size |-> 0, fd |-> -1]

InitFiles ==
    /\ objs = [x \in {} |-> Vacant]
    /\ fds = {}
    /\ maps = [a \in Addresses |-> 0]

Valid(o) == o.data # Null

-----------------------------------------------------------------------------
(* open(2) returns the lowest number that is free.                         *)
LowestFree(open) == Min(Descriptors \ open)

Construct(w, x, o) ==
    [w EXCEPT !.objs = [y \in DOMAIN @ \cup {x} |-> IF y = x THEN o ELSE @[y]]]

(* ::close(fd_); fd_ = -1                                                  *)
CloseFd(w, x) == [w EXCEPT !.fds = @ \ {w.objs[x].fd}, !.objs[x].fd = -1]

(* munmap of all that was mapped, then close; -1 is no open descriptor.    *)
Release(w, x) ==
    LET o == w.objs[x]
        unmapped == [w EXCEPT !.maps = [a \in Addresses |->
                                           IF a = o.data THEN @[a] - o.size ELSE @[a]]]
    IN  [CloseFd(unmapped, x) EXCEPT !.objs[x] = Vacant]

Destroy(w, x) ==
    [Release(w, x) EXCEPT !.objs = [y \in DOMAIN @ \ {x} |-> @[y]]]

Outcome(ok, w) == [ok |-> ok, world |-> w]

(* open_into: open, fstat and mmap, each of which may fail.  size_ stays   *)
(* set when it is mmap that fails.                                         *)
OpenInto(w, x, size) ==
    LET fd == LowestFree(w.fds)
        opened == [w EXCEPT !.fds = @ \cup {fd}, !.objs[x].fd = fd]
        sized == [opened EXCEPT !.objs[x].size = size]
    IN  {Outcome(FALSE, [w EXCEPT !.objs[x].fd = -1])} \cup
        IF Descriptors \subseteq w.fds THEN {}
        ELSE {Outcome(FALSE, CloseFd(opened, x)), Outcome(FALSE, CloseFd(sized, x))} \cup
             {Outcome(TRUE, [sized EXCEPT !.objs[x].data = a, !.maps[a] = size])
                : a \in {b \in Addresses : w.maps[b] = 0}}

\* MUTANT: the source keeps its descriptor.
TakeKeepsFd(w, x, y) ==
    [w EXCEPT !.objs[x] = w.objs[y], !.objs[y] = [Vacant EXCEPT !.fd = w.objs[y].fd]]

(* x takes over what y owns.                                               *)
Take(w, x, y) == [w EXCEPT !.objs[x] = w.objs[y], !.objs[y] = Vacant]

MoveConstruct(w, x, y) == Take(Construct(w, x, Vacant), x, y)

(* operator=(MMapFile&&)                                                   *)
MoveAssign(w, x, y) == IF x = y THEN w ELSE Take(Release(w, x), x, y)

(* MMapFile::open: the object m is moved into the expected<MMapFile> x if  *)
(* open_into succeeds, and dies either way.                                *)
Open(w, x, size) ==
    {Outcome(r.ok, Destroy(IF r.ok THEN MoveConstruct(r.world, x, "m") ELSE r.world, "m"))
        : r \in OpenInto(Construct(w, "m", Vacant), "m", size)}

-----------------------------------------------------------------------------
(* What a program may do with objects of its own.                          *)
UserConstruct(x) ==
    /\ x \notin DOMAIN objs
    /\ Settle(Construct(World, x, Vacant))

(* MMapFile(path); a failure leaves an object that is not valid.           *)
UserConstructFrom(x, size) ==
    /\ x \notin DOMAIN objs
    /\ \E r \in OpenInto(Construct(World, x, Vacant), x, size) : Settle(r.world)

UserOpen(x, size) ==
    /\ x \notin DOMAIN objs
    /\ \E r \in Open(World, x, size) : Settle(r.world)

UserMove(x, y) ==
    /\ x \notin DOMAIN objs /\ y \in DOMAIN objs
    /\ Settle(MoveConstruct(World, x, y))

UserAssign(x, y) ==
    /\ {x, y} \subseteq DOMAIN objs
    /\ Settle(MoveAssign(World, x, y))

UserDestroy(x) ==
    /\ x \in DOMAIN objs
    /\ Settle(Destroy(World, x))

UserStep(x) ==
    \/ UserConstruct(x)
    \/ \E size \in Sizes : UserConstructFrom(x, size) \/ UserOpen(x, size)
    \/ \E y \in Users : UserMove(x, y) \/ UserAssign(x, y)
    \/ UserDestroy(x)

=============================================================================
