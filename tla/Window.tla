-------------------------------- MODULE Window --------------------------------
(***************************************************************************)
(* What a bounded history promises its readers, apart from how it is       *)
(* stored: it is the newest Width items pushed so far, oldest first.  The  *)
(* charts read a RingBuffer (ring.rs) through to_vec and rely on exactly   *)
(* this.                                                                   *)
(***************************************************************************)
EXTENDS Naturals, Sequences

CONSTANTS Item,   \* what is pushed
          Width   \* how many items are remembered

VARIABLE window

(* The newest n items of s, in their order. *)
Newest(s, n) == SubSeq(s, IF Len(s) > n THEN Len(s) - n + 1 ELSE 1, Len(s))

Init == window = <<>>

Push(item) == window' = Newest(Append(window, item), Width)

Next == \E item \in Item : Push(item)

Spec == Init /\ [][Next]_window
===============================================================================
