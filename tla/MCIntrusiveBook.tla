--------------------------- MODULE MCIntrusiveBook --------------------------
(* Values for the constants of IntrusiveBook.                              *)
EXTENDS IntrusiveBook, TLC

(* Slots of orders carry no order and no definition chooses among them;    *)
(* slots of levels are numbers, and the pool hands them out in an order.   *)
Symmetry == Permutations(OrderSlots)

=============================================================================
