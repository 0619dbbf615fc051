-------------------------------- MODULE Ledger --------------------------------
(***************************************************************************)
(* What a path from RAM to the database promises for the things it counts  *)
(* (readings of the recorder, queries of the DNS window): each waits in    *)
(* RAM and is then saved or lost, a saved one may expire, and nothing is   *)
(* in two places, comes back, or vanishes otherwise.  A set of things may  *)
(* move at once: one INSERT, one process death, one prune.                 *)
(***************************************************************************)

VARIABLES waiting, saved, lost, gone

ledger == <<waiting, saved, lost, gone>>

Init == waiting = {} /\ saved = {} /\ lost = {} /\ gone = {}

(* From one account to another, and nothing else moves.                    *)
Moves(from, from2, to, to2) ==
    /\ from2 \subseteq from
    /\ to2 = to \cup (from \ from2)

Take ==
    /\ waiting \subseteq waiting'
    /\ (waiting' \ waiting) \cap (saved \cup lost \cup gone) = {}
    /\ UNCHANGED <<saved, lost, gone>>

Save == Moves(waiting, waiting', saved, saved') /\ UNCHANGED <<lost, gone>>

Lose == Moves(waiting, waiting', lost, lost') /\ UNCHANGED <<saved, gone>>

Expire == Moves(saved, saved', gone, gone') /\ UNCHANGED <<waiting, lost>>

Next == Take \/ Save \/ Lose \/ Expire

Spec == Init /\ [][Next]_ledger
===============================================================================
