-------------------------------- MODULE MCRing --------------------------------
(* Ring with room for six readings of three sizes, and its charts.         *)
EXTENDS Chart

MCItem == 0 .. 2
===============================================================================
