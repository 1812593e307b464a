----------------------------- MODULE MarketBook -----------------------------
(***************************************************************************)
(* What the parser's book rebuild promises, without any of its machinery:  *)
(* for every instrument, side and price, the resting orders in time        *)
(* priority.  Orders are known by a reference number that is unique while  *)
(* the order rests.  There are no pools, no levels and no hash maps here.  *)
(***************************************************************************)
EXTENDS Integers, Sequences, FiniteSets, Functions, Lists

CONSTANTS
    Locates,    \* instruments, known by their stock locate
    Sides,      \* buy and sell
    Prices,     \* prices at which an order can rest
    Ids,        \* order reference numbers
    Quantities  \* share counts a message may carry

VARIABLE market \* [Locates -> [Sides -> [Prices -> queue of entries]]]

Entries == [id : Ids, shares : Nat]

Empty == [s \in Sides |-> [p \in Prices |-> <<>>]]

Queue(l, s, p) == market[l][s][p]

Entry(id, q) == [id |-> id, shares |-> q]

(* Where the order with this reference number rests: at most one place.    *)
Places(id) ==
    {x \in Locates \X Sides \X Prices :
        \E e \in Range(market[x[1]][x[2]][x[3]]) : e.id = id}

Resting(id) == Places(id) # {}

Init == market = [l \in Locates |-> Empty]

(* One side of a book without an entry, and with a new one.                *)
Without(side, p, e) == [side EXCEPT ![p] = Unlink(@, e)]
WithNew(side, p, e) == [side EXCEPT ![p] = Append(@, e)]

(* A new order joins the back of its queue.                                *)
Join(l, s, p, id, q) ==
    /\ ~Resting(id)
    /\ market' = [market EXCEPT ![l][s] = WithNew(@, p, Entry(id, q))]

(* A resting order loses some shares and keeps its place.                  *)
Shrink(l, s, p, i, q) ==
    /\ i \in DOMAIN Queue(l, s, p)
    /\ q < Queue(l, s, p)[i].shares
    /\ market' = [market EXCEPT ![l][s][p][i].shares = @ - q]

(* A resting order goes: filled, cancelled, deleted, or lost.              *)
Leave(l, s, p, e) ==
    /\ e \in Range(Queue(l, s, p))
    /\ market' = [market EXCEPT ![l][s] = Without(@, p, e)]

(* A resting order goes and another joins, in the same book and on the     *)
(* same side, at the back of the queue of its price: priority is lost even *)
(* if the price is the same.                                               *)
Swap(l, s, p, e, id, q, p2) ==
    /\ e \in Range(Queue(l, s, p))
    /\ ~Resting(id)
    /\ market' = [market EXCEPT ![l][s] =
                    WithNew(Without(@, p, e), p2, Entry(id, q))]

(* The closing cross empties one book and no other.                        *)
Wipe(l) == market' = [market EXCEPT ![l] = Empty]

Next ==
    \E l \in Locates :
        \/ Wipe(l)
        \/ \E s \in Sides, p \in Prices :
              \/ \E id \in Ids, q \in Quantities : Join(l, s, p, id, q)
              \/ \E i \in DOMAIN Queue(l, s, p), q \in Quantities : Shrink(l, s, p, i, q)
              \/ \E e \in Range(Queue(l, s, p)) :
                    \/ Leave(l, s, p, e)
                    \/ \E id \in Ids, q \in Quantities, p2 \in Prices :
                          Swap(l, s, p, e, id, q, p2)

Spec == Init /\ [][Next]_market

=============================================================================
