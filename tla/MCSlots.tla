--------------------------------- MODULE MCSlots -------------------------------
(* Slots and connections are variables like each other: a permutation of     *)
(* them changes nothing.                                                     *)
EXTENDS Slots

MCSymmetry == Permutations(Slot) \cup Permutations(Connection)
===============================================================================
