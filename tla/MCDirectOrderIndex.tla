------------------------- MODULE MCDirectOrderIndex -------------------------
(* Values for the constants of DirectOrderIndex.                           *)
EXTENDS DirectOrderIndex, TLC

Symmetry == Permutations(OrderSlots)

=============================================================================
