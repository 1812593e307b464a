-------------------------- MODULE MCMatchingEngine --------------------------
(* Values for the constants of MatchingEngine.                             *)
EXTENDS MatchingEngine, TLC

(* Slots and ids carry no order and no arithmetic, and no definition picks *)
(* one of them with CHOOSE.                                                *)
Symmetry == Permutations(OrderSlots) \cup Permutations(LevelSlots)
                \cup Permutations(Ids)

(* No step depends on which counters the last message incremented.         *)
StateView == <<orders, freeOrders, levels, freeLevels, book, instruments,
               index, live>>

=============================================================================
