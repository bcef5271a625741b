------------------------------ MODULE MCIOBuffer ------------------------------
(* Bounds for IOBuffer: two byte values and an allocation of at most four. *)
EXTENDS IOBuffer

MCInitialSizes == {0, 1, 3}
MCRetakeAlways == Operations
MCRetakeDocumented == {"reserve", "fill"}
===============================================================================
