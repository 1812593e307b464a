--------------------------- MODULE MCFlatHashMap ----------------------------
(* Values for the constants of FlatHashMap.                                *)
EXTENDS FlatHashMap, TLC

(* No definition orders keys or values.                                    *)
Symmetry == Permutations(Keys) \cup Permutations(Values)

=============================================================================
