----------------------------- MODULE MCAccounting -----------------------------
(* Values for the accounting run: clients c1 and c2 inside, w outside.      *)
EXTENDS Api, TLC

CONSTANTS c1, c2, w

MCIp == {c1, c2, w}
MCLan == {c1, c2}
MCPort == {1}
MCProto == {"tcp"}
MCGaps == {-1, 2}

(* The model treats all clients alike.                                      *)
MCSymmetry == Permutations(MCLan)
===============================================================================
