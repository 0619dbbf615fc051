------------------------------- MODULE MCDaemon -------------------------------
(* Daemon with two clients, and descriptors for one worker or for two.     *)
EXTENDS Daemon, TLC

CONSTANTS c1, c2

MCConn == {c1, c2}

MCLimits == {2, 4}
===============================================================================
