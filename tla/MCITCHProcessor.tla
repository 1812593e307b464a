--------------------------- MODULE MCITCHProcessor --------------------------
(* Values for the constants of ITCHProcessor.                              *)
EXTENDS ITCHProcessor, TLC

(* Descriptors have an order, the lowest free one is next; the others are  *)
(* only compared.                                                          *)
Symmetry == Permutations(Users) \cup Permutations(Addresses) \cup Permutations(Locates)

=============================================================================
