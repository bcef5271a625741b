--------------------------------- MODULE MCUdev --------------------------------
(* The places of objects and of wrappers are like each other.                *)
EXTENDS Udev, TLC

MCSymmetry == Permutations(Object) \cup Permutations(Wrapper)
===============================================================================
