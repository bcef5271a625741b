-------------------------------- MODULE Selection ------------------------------
(***************************************************************************)
(* The elements of a sequence that are in a set, in their order.  This is  *)
(* SelectSeq, defined without recursion, by the positions that are kept,   *)
(* so that its facts can be proved.                                        *)
(***************************************************************************)
EXTENDS Naturals, Sequences, FiniteSets

Kept(s, T) == {i \in 1..Len(s) : s[i] \in T}

\* how many of the first i elements are kept
Rank(s, T, i) == Cardinality({j \in Kept(s, T) : j <= i})

Only(s, T) ==
    [n \in 1..Cardinality(Kept(s, T)) |->
        s[CHOOSE i \in Kept(s, T) : Rank(s, T, i) = n]]
===============================================================================
