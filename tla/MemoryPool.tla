----------------------------- MODULE MemoryPool -----------------------------
(***************************************************************************)
(* MemoryPool<T>: a block of slots and a free list that is threaded        *)
(* through the slots themselves.  FreeNode::next lies over the first       *)
(* member of T, so a pool is its head_ and the first word of every slot:   *)
(* that member while the slot is in use, a link while it is free.          *)
(***************************************************************************)
EXTENDS Integers, Sequences, FiniteSets

CONSTANT Null \* nullptr

(* The slots met from x on along link, a function from slots to slots or   *)
(* Null.  A walk that does not end is cut off one slot too late.           *)
Follow(link, x) ==
    LET walk[seen \in Seq(DOMAIN link)] ==
            LET at == IF seen = <<>> THEN x ELSE link[seen[Len(seen)]]
            IN  IF at \in DOMAIN link /\ Len(seen) <= Cardinality(DOMAIN link)
                THEN walk[Append(seen, at)] ELSE seen
    IN  walk[<<>>]

(* The constructor: each of the slots 0 .. capacity - 1 is linked to the   *)
(* one before.                                                             *)
NewPool(capacity) ==
    [head |-> IF capacity = 0 THEN Null ELSE capacity - 1,
     word |-> [i \in 0..(capacity - 1) |-> IF i = 0 THEN Null ELSE i - 1]]

(* acquire, of a pool that is not exhausted; the slot acquired is head.    *)
Exhausted(pool) == pool.head = Null
Acquire(pool) == [pool EXCEPT !.head = pool.word[pool.head]]

Release(pool, x) == [head |-> x, word |-> [pool.word EXCEPT ![x] = pool.head]]

(* Placement new: the first member takes the place of the link.            *)
Construct(pool, x, w) == [pool EXCEPT !.word[x] = w]

(* What free_count walks.                                                  *)
FreeList(pool) == Follow(pool.word, pool.head)

=============================================================================
