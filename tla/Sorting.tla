-------------------------------- MODULE Sorting --------------------------------
(* Numbers in order, for the answers that come sorted.                      *)
EXTENDS Integers, FiniteSets

(* The finite set T of integers as a sequence, smallest first: the one in   *)
(* place i has i - 1 smaller ones.                                          *)
Ascending(T) ==
    [ i \in 1 .. Cardinality(T) |->
        CHOOSE t \in T : Cardinality({ u \in T : u < t }) = i - 1 ]
===============================================================================
