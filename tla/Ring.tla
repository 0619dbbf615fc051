--------------------------------- MODULE Ring ---------------------------------
(***************************************************************************)
(* RingBuffer<T> of ring.rs: a vector that grows to cap and is then        *)
(* overwritten in place from its oldest slot, head.  Rust indexes from 0   *)
(* and TLA+ from 1: slot buf[i] of the code is buf[i + 1] here, and head   *)
(* keeps the code's value.                                                 *)
(***************************************************************************)
EXTENDS Naturals, Sequences

CONSTANTS Item,   \* the type T
          Cap     \* the capacity asked of RingBuffer::new, 0 included

ASSUME CapAssumption == Cap \in Nat

VARIABLES buf,    \* the backing vector
          head    \* index, from 0, of the oldest element once buf is full

vars == <<buf, head>>

(* cap.max(1) in RingBuffer::new: a ring always holds at least one item. *)
cap == IF Cap = 0 THEN 1 ELSE Cap

-------------------------------------------------------------------------------
(* iter and to_vec on the vector b with oldest slot h: split_at(h.min(len)), *)
(* then the second part before the first.                                  *)
IterUnrotated(b, h) == b

Iter(b, h) ==
    LET split == IF h < Len(b) THEN h ELSE Len(b)
    IN  SubSeq(b, split + 1, Len(b)) \o SubSeq(b, 1, split)

ToVec == Iter(buf, head)

Init == buf = <<>> /\ head = 0

Grow(item) ==
    /\ Len(buf) < cap
    /\ buf' = Append(buf, item)
    /\ UNCHANGED head

OverwriteNoWrap(item) ==
    /\ Len(buf) >= cap
    /\ buf' = [buf EXCEPT ![head + 1] = item]
    /\ head' = head + 1

Overwrite(item) ==
    /\ Len(buf) >= cap
    /\ buf' = [buf EXCEPT ![head + 1] = item]
    /\ head' = (head + 1) % cap

Push(item) == Grow(item) \/ Overwrite(item)

Next == \E item \in Item : Push(item)

Spec == Init /\ [][Next]_vars

-------------------------------------------------------------------------------
(* Type correctness and the bound that makes every index of push and iter  *)
(* legal: the vector never outgrows cap and head is always one of its      *)
(* slots (or 0 while it is empty), so buf[head] and split_at cannot panic. *)
TypeOK ==
    /\ buf \in Seq(Item)
    /\ Len(buf) <= cap
    /\ head \in 0 .. (cap - 1)

(* While push still appends, nothing has been rotated.  This is what makes *)
(* "head is the oldest" true at the moment the vector becomes full.        *)
HeadAtRest == Len(buf) < cap => head = 0

IInv == TypeOK /\ HeadAtRest

(* The refinement: what iter yields is the abstract window of cap items. *)
W == INSTANCE Window WITH window <- ToVec, Width <- cap

(* Readers of to_vec see the newest cap items, oldest first, after every   *)
(* push: the ring of ring.rs implements the bounded history of Window.     *)
IsWindow == W!Spec
===============================================================================
