------------------------------ MODULE Ring_proofs ------------------------------
(***************************************************************************)
(* Proofs about Ring for every item type and every capacity: the indices   *)
(* stay legal, the ring implements the abstract bounded history, and the   *)
(* charts drawn from it (Chart, Downsample) keep their shape and a spike,  *)
(* for every number of points and every rounding of the bucket edges.      *)
(*                                                                         *)
(* The charts follow from the edges of their buckets: these ascend         *)
(* strictly although each may be rounded down (EdgesFollow), so a bucket   *)
(* is never empty, and the point kept from a bucket is one of it whatever  *)
(* was kept before (KeptPlaces).                                           *)
(***************************************************************************)
EXTENDS Chart, Data_proofs

LEMMA CapPositive == cap \in Nat /\ cap > 0
  BY CapAssumption DEF cap

-------------------------------------------------------------------------------
(* The index invariant is inductive.                                       *)

LEMMA InitIInv == Init => IInv
  BY CapPositive DEF Init, IInv, TypeOK, HeadAtRest

LEMMA GrowIInv ==
  ASSUME IInv, NEW item \in Item, Grow(item)
  PROVE  IInv'
  BY CapPositive, AppendProperties DEF IInv, TypeOK, HeadAtRest, Grow, cap

LEMMA OverwriteIInv ==
  ASSUME IInv, NEW item \in Item, Overwrite(item)
  PROVE  IInv'
<1>1. Len(buf) = cap /\ head + 1 \in 1 .. Len(buf)
  BY CapPositive DEF IInv, TypeOK, Overwrite
<1>2. buf' \in Seq(Item) /\ Len(buf') = cap
  <2>1. buf \in Seq(Item)
    BY DEF IInv, TypeOK
  <2>2. buf' = [buf EXCEPT ![head + 1] = item]
    BY DEF Overwrite
  <2>3. /\ [buf EXCEPT ![head + 1] = item] \in Seq(Item)
        /\ Len([buf EXCEPT ![head + 1] = item]) = Len(buf)
    BY <1>1, <2>1, ExceptSeq
  <2> QED BY <1>1, <2>2, <2>3
<1>3. head' \in 0 .. (cap - 1)
  BY CapPositive DEF IInv, TypeOK, Overwrite
<1> QED BY <1>2, <1>3, CapPositive DEF IInv, TypeOK, HeadAtRest, cap

LEMMA NextIInv == IInv /\ [Next]_vars => IInv'
<1> SUFFICES ASSUME IInv, [Next]_vars PROVE IInv'
  OBVIOUS
<1>1. CASE Next
  <2>1. PICK item \in Item : Push(item)
    BY <1>1 DEF Next
  <2>2. CASE Grow(item)
    BY <2>2, GrowIInv
  <2>3. CASE Overwrite(item)
    BY <2>3, OverwriteIInv
  <2> QED BY <2>1, <2>2, <2>3 DEF Push
<1>2. CASE UNCHANGED vars
  BY <1>2 DEF vars, IInv, TypeOK, HeadAtRest, cap
<1> QED BY <1>1, <1>2

(* Every index RingBuffer computes is a slot of its vector, whatever is    *)
(* pushed and whatever capacity new was given, 0 included.                 *)
THEOREM IndicesLegal == Spec => []IInv
<1> QED BY InitIInv, NextIInv, PTL DEF Spec

-------------------------------------------------------------------------------
(* What iter yields, item by item.                                         *)

LEMMA IterShape ==
  ASSUME NEW b \in Seq(Item), NEW h \in Nat, h <= Len(b)
  PROVE  /\ Iter(b, h) \in Seq(Item)
         /\ Len(Iter(b, h)) = Len(b)
         /\ \A i \in 1 .. Len(b) :
              Iter(b, h)[i] = IF i <= Len(b) - h THEN b[h + i] ELSE b[i - (Len(b) - h)]
<1>1. Len(b) \in Nat
  BY LenProperties
<1>2. \A i \in 1 .. Len(b) : b[i] \in Item
  BY ElementOfSeq
<1> DEFINE newer == SubSeq(b, h + 1, Len(b))
           older == SubSeq(b, 1, h)
<1>3. /\ newer \in Seq(Item)
      /\ Len(newer) = Len(b) - h
      /\ \A i \in 1 .. Len(b) - h : newer[i] = b[h + i]
  <2>1. \A i \in h + 1 .. Len(b) : b[i] \in Item
    BY <1>1, <1>2
  <2>2. /\ newer \in Seq(Item)
        /\ Len(newer) = IF h + 1 <= Len(b) THEN Len(b) - (h + 1) + 1 ELSE 0
        /\ \A i \in 1 .. Len(b) - (h + 1) + 1 : newer[i] = b[(h + 1) + i - 1]
    BY <1>1, <2>1, SubSeqProperties
  <2> HIDE DEF newer
  <2> QED BY <1>1, <2>2
<1>4. /\ older \in Seq(Item)
      /\ Len(older) = h
      /\ \A i \in 1 .. h : older[i] = b[i]
  <2>1. \A i \in 1 .. h : b[i] \in Item
    BY <1>1, <1>2
  <2>2. /\ older \in Seq(Item)
        /\ Len(older) = IF 1 <= h THEN h - 1 + 1 ELSE 0
        /\ \A i \in 1 .. h - 1 + 1 : older[i] = b[1 + i - 1]
    BY <1>1, <2>1, SubSeqProperties
  <2> HIDE DEF older
  <2> QED BY <2>2
<1>5. Iter(b, h) = newer \o older
  <2>1. h = IF h < Len(b) THEN h ELSE Len(b)
    BY <1>1
  <2> QED BY <2>1 DEF Iter
<1> HIDE DEF newer, older
<1>6. /\ newer \o older \in Seq(Item)
      /\ Len(newer \o older) = Len(newer) + Len(older)
      /\ \A i \in 1 .. Len(newer) + Len(older) :
           (newer \o older)[i] = IF i <= Len(newer) THEN newer[i]
                                                    ELSE older[i - Len(newer)]
  BY <1>3, <1>4, ConcatProperties
<1> QED BY <1>1, <1>3, <1>4, <1>5, <1>6

(* The newest n items after one more is appended to a window that has room *)
(* (drop = 0) or is full (drop = 1), item by item.                         *)
LEMMA NewestShape ==
  ASSUME NEW s \in Seq(Item), NEW item \in Item, NEW n \in Nat, NEW drop \in {0, 1},
         Len(s) + 1 - drop <= n, drop = 1 => Len(s) = n
  PROVE  /\ W!Newest(Append(s, item), n) \in Seq(Item)
         /\ Len(W!Newest(Append(s, item), n)) = Len(s) + 1 - drop
         /\ \A i \in 1 .. Len(s) + 1 - drop :
              W!Newest(Append(s, item), n)[i] =
                 IF i + drop <= Len(s) THEN s[i + drop] ELSE item
<1> DEFINE a == Append(s, item)
           kept == SubSeq(a, drop + 1, Len(s) + 1)
<1>1. Len(s) \in Nat
  BY LenProperties
<1>2. /\ a \in Seq(Item)
      /\ Len(a) = Len(s) + 1
      /\ \A i \in 1 .. Len(s) + 1 : a[i] = IF i <= Len(s) THEN s[i] ELSE item
  BY <1>1, AppendProperties
<1>3. \A i \in 1 .. Len(s) + 1 : a[i] \in Item
  BY <1>2, ElementOfSeq
<1> HIDE DEF a
<1>4. W!Newest(a, n) = kept
  <2>1. drop + 1 = IF Len(a) > n THEN Len(a) - n + 1 ELSE 1
    BY <1>1, <1>2
  <2> QED BY <1>2, <2>1 DEF W!Newest
<1>5. /\ kept \in Seq(Item)
      /\ Len(kept) = IF drop + 1 <= Len(s) + 1 THEN Len(s) + 1 - (drop + 1) + 1 ELSE 0
      /\ \A i \in 1 .. Len(s) + 1 - (drop + 1) + 1 : kept[i] = a[(drop + 1) + i - 1]
  <2>1. drop + 1 \in Int /\ Len(s) + 1 \in Int
    BY <1>1
  <2>2. \A i \in drop + 1 .. Len(s) + 1 : a[i] \in Item
    BY <1>1, <1>3
  <2> QED BY <2>1, <2>2, SubSeqProperties
<1> HIDE DEF kept
<1>6. /\ kept \in Seq(Item)
      /\ Len(kept) = Len(s) + 1 - drop
      /\ \A i \in 1 .. Len(s) + 1 - drop :
            kept[i] = IF i + drop <= Len(s) THEN s[i + drop] ELSE item
  <2>1. CASE drop = 0
    BY <1>1, <1>2, <1>5, <2>1
  <2>2. CASE drop = 1
    BY <1>1, <1>2, <1>5, <2>2
  <2> QED BY <2>1, <2>2
<1> QED BY <1>4, <1>6 DEF a

-------------------------------------------------------------------------------
(* Each way push can go is a push on the abstract window.                  *)

LEMMA GrowRefines ==
  ASSUME IInv, NEW item \in Item, Grow(item)
  PROVE  ToVec' = W!Newest(Append(ToVec, item), cap)
<1>1. /\ buf \in Seq(Item) /\ Len(buf) \in Nat /\ Len(buf) < cap
      /\ head = 0 /\ head' = 0
  BY LenProperties DEF IInv, TypeOK, HeadAtRest, Grow
<1>2. /\ buf' \in Seq(Item)
      /\ Len(buf') = Len(buf) + 1
      /\ \A i \in 1 .. Len(buf) + 1 : buf'[i] = IF i <= Len(buf) THEN buf[i] ELSE item
  BY <1>1, AppendProperties DEF Grow
<1>3. /\ ToVec' \in Seq(Item)
      /\ Len(ToVec') = Len(buf')
      /\ \A i \in 1 .. Len(buf') : ToVec'[i] = buf'[i]
  BY <1>1, <1>2, IterShape DEF ToVec
<1>4. /\ ToVec \in Seq(Item)
      /\ Len(ToVec) = Len(buf)
      /\ \A i \in 1 .. Len(buf) : ToVec[i] = buf[i]
  BY <1>1, IterShape DEF ToVec
<1> DEFINE goal == W!Newest(Append(ToVec, item), cap)
<1>5. /\ goal \in Seq(Item)
      /\ Len(goal) = Len(ToVec) + 1 - 0
      /\ \A i \in 1 .. Len(ToVec) + 1 - 0 :
            goal[i] = IF i + 0 <= Len(ToVec) THEN ToVec[i + 0] ELSE item
  BY <1>1, <1>4, CapPositive, NewestShape
<1> HIDE DEF goal
<1>6. Len(ToVec') = Len(goal) /\ \A i \in 1 .. Len(ToVec') : ToVec'[i] = goal[i]
  BY <1>1, <1>2, <1>3, <1>4, <1>5
<1>7. ToVec' = goal
  BY <1>3, <1>5, <1>6, SeqEqual
<1> QED BY <1>7 DEF goal

LEMMA OverwriteRefines ==
  ASSUME IInv, NEW item \in Item, Overwrite(item)
  PROVE  ToVec' = W!Newest(Append(ToVec, item), cap)
<1>1. /\ buf \in Seq(Item)
      /\ Len(buf) = cap
      /\ cap \in Nat /\ cap > 0
      /\ head \in 0 .. (cap - 1)
  BY CapPositive, LenProperties DEF IInv, TypeOK, Overwrite
<1>2. /\ buf' \in Seq(Item)
      /\ Len(buf') = cap
      /\ \A j \in 1 .. cap : buf'[j] = IF j = head + 1 THEN item ELSE buf[j]
  <2>1. head + 1 \in 1 .. Len(buf)
    BY <1>1
  <2>2. buf' = [buf EXCEPT ![head + 1] = item]
    BY DEF Overwrite
  <2> QED BY <1>1, <2>1, <2>2, ExceptSeq
<1>3. head' \in Nat /\ head' = IF head + 1 = cap THEN 0 ELSE head + 1
  BY <1>1 DEF Overwrite
<1>4. /\ ToVec' \in Seq(Item)
      /\ Len(ToVec') = cap
      /\ \A i \in 1 .. cap : ToVec'[i] = IF i <= cap - head' THEN buf'[head' + i]
                                                             ELSE buf'[i - (cap - head')]
  <2>1. head' <= Len(buf')
    BY <1>1, <1>2, <1>3
  <2>2. /\ ToVec' \in Seq(Item)
        /\ Len(ToVec') = Len(buf')
        /\ \A i \in 1 .. Len(buf') :
              ToVec'[i] = IF i <= Len(buf') - head' THEN buf'[head' + i]
                                                    ELSE buf'[i - (Len(buf') - head')]
    BY <1>2, <1>3, <2>1, IterShape DEF ToVec
  <2> QED BY <1>2, <2>2
<1>5. /\ ToVec \in Seq(Item)
      /\ Len(ToVec) = cap
      /\ \A i \in 1 .. cap : ToVec[i] = IF i <= cap - head THEN buf[head + i]
                                                           ELSE buf[i - (cap - head)]
  <2>1. head \in Nat /\ head <= Len(buf)
    BY <1>1
  <2>2. /\ ToVec \in Seq(Item)
        /\ Len(ToVec) = Len(buf)
        /\ \A i \in 1 .. Len(buf) :
              ToVec[i] = IF i <= Len(buf) - head THEN buf[head + i]
                                                 ELSE buf[i - (Len(buf) - head)]
    BY <1>1, <2>1, IterShape DEF ToVec
  <2> QED BY <1>1, <2>2
<1> DEFINE goal == W!Newest(Append(ToVec, item), cap)
<1>6. /\ goal \in Seq(Item)
      /\ Len(goal) = cap
      /\ \A i \in 1 .. cap : goal[i] = IF i + 1 <= cap THEN ToVec[i + 1] ELSE item
  <2>1. /\ goal \in Seq(Item)
        /\ Len(goal) = Len(ToVec) + 1 - 1
        /\ \A i \in 1 .. Len(ToVec) + 1 - 1 :
              goal[i] = IF i + 1 <= Len(ToVec) THEN ToVec[i + 1] ELSE item
    <3>1. 1 \in {0, 1} /\ Len(ToVec) + 1 - 1 <= cap /\ Len(ToVec) = cap
      BY <1>1, <1>5
    <3> QED BY <1>1, <1>5, <3>1, NewestShape
  <2> HIDE DEF goal
  <2> QED BY <1>1, <1>5, <2>1
<1> HIDE DEF goal
<1>7. ASSUME NEW i \in 1 .. cap PROVE ToVec'[i] = goal[i]
  <2>1. CASE head + 1 = cap
    <3>1. ToVec'[i] = buf'[i]
      BY <2>1, <1>1, <1>3, <1>4
    <3>2. goal[i] = IF i + 1 <= cap THEN ToVec[i + 1] ELSE item
      BY <1>1, <1>6
    <3>3. CASE i = cap
      BY <3>1, <3>2, <3>3, <2>1, <1>1, <1>2
    <3>4. CASE i < cap
      <4>1. ToVec[i + 1] = buf[i]
        <5>1. i + 1 \in 1 .. cap /\ (i + 1) - (cap - head) = i
          BY <3>4, <2>1, <1>1
        <5>2. ToVec[i + 1] = IF i + 1 <= cap - head THEN buf[head + (i + 1)]
                                                    ELSE buf[(i + 1) - (cap - head)]
          BY <5>1, <1>5
        <5>3. (i + 1 <= cap - head) = FALSE
          BY <2>1, <1>1
        <5> QED BY <5>1, <5>2, <5>3
      <4> QED BY <4>1, <3>1, <3>2, <3>4, <2>1, <1>1, <1>2
    <3> QED BY <3>3, <3>4, <1>1
  <2>2. CASE head + 1 < cap
    <3>1. ToVec'[i] = IF i <= cap - (head + 1) THEN buf'[(head + 1) + i]
                                               ELSE buf'[i - (cap - (head + 1))]
      BY <2>2, <1>1, <1>3, <1>4
    <3>2. goal[i] = IF i + 1 <= cap THEN ToVec[i + 1] ELSE item
      BY <1>6
    <3>3. CASE i <= cap - (head + 1)
      <4>1. ToVec[i + 1] = buf[head + (i + 1)]
        BY <3>3, <2>2, <1>1, <1>5
      <4>2. buf'[(head + 1) + i] = buf[head + (i + 1)]
        BY <3>3, <2>2, <1>1, <1>2
      <4> QED BY <4>1, <4>2, <3>1, <3>2, <3>3, <1>1
    <3>4. CASE i > cap - (head + 1) /\ i < cap
      <4>1. ToVec[i + 1] = buf[(i + 1) - (cap - head)]
        BY <3>4, <2>2, <1>1, <1>5
      <4>2. /\ i - (cap - (head + 1)) \in 1 .. cap
            /\ i - (cap - (head + 1)) # head + 1
            /\ i - (cap - (head + 1)) = (i + 1) - (cap - head)
        BY <3>4, <2>2, <1>1
      <4>3. buf'[i - (cap - (head + 1))] = buf[(i + 1) - (cap - head)]
        BY <4>2, <1>2
      <4> QED BY <4>1, <4>3, <3>1, <3>2, <3>4, <1>1
    <3>5. CASE i = cap
      <4>1. i - (cap - (head + 1)) = head + 1 /\ head + 1 \in 1 .. cap
        BY <3>5, <1>1
      <4>2. buf'[head + 1] = item
        BY <4>1, <1>2
      <4>3. ~(i <= cap - (head + 1)) /\ ~(i + 1 <= cap)
        BY <3>5, <1>1
      <4> QED BY <4>1, <4>2, <4>3, <3>1, <3>2
    <3> QED BY <3>3, <3>4, <3>5, <1>1
  <2> QED BY <1>1, <2>1, <2>2
<1>8. ToVec' = goal
  <2>1. Len(ToVec') = Len(goal) /\ \A i \in 1 .. Len(ToVec') : ToVec'[i] = goal[i]
    BY <1>1, <1>4, <1>6, <1>7
  <2> QED BY <1>4, <1>6, <2>1, SeqEqual
<1> QED BY <1>8 DEF goal

-------------------------------------------------------------------------------
(* RingBuffer implements the bounded history: after any pushes, to_vec is  *)
(* the newest max(cap, 1) of them in the order they were pushed.           *)
THEOREM RingImplementsWindow == Spec => IsWindow
<1>1. Init => W!Init
  <2> SUFFICES ASSUME Init PROVE ToVec = <<>>
    BY DEF W!Init
  <2>1. buf = <<>> /\ head = 0 /\ buf \in Seq(Item) /\ Len(buf) = 0
    BY EmptySeq DEF Init
  <2>2. ToVec \in Seq(Item) /\ Len(ToVec) = 0
    <3>1. head \in Nat /\ head <= Len(buf)
      BY <2>1
    <3>2. Iter(buf, head) \in Seq(Item) /\ Len(Iter(buf, head)) = Len(buf)
      BY <2>1, <3>1, IterShape
    <3> QED BY <2>1, <3>2 DEF ToVec
  <2> QED BY <2>2, EmptySeq
<1>2. IInv /\ [Next]_vars => [W!Next]_ToVec
  <2> SUFFICES ASSUME IInv, [Next]_vars PROVE [W!Next]_ToVec
    OBVIOUS
  <2>1. CASE Next
    <3>1. PICK item \in Item : Push(item)
      BY <2>1 DEF Next
    <3>2. W!Push(item)
      BY <3>1, GrowRefines, OverwriteRefines DEF Push, W!Push
    <3> QED BY <3>2 DEF W!Next
  <2>2. CASE UNCHANGED vars
    BY <2>2 DEF vars, ToVec
  <2> QED BY <2>1, <2>2
<1> QED BY <1>1, <1>2, IndicesLegal, PTL DEF Spec, IsWindow, W!Spec

-------------------------------------------------------------------------------
(* Division, rounded down: what the edges of the buckets are made of.      *)

LEMMA Div ==
  ASSUME NEW x \in Int, NEW b \in Nat, b > 0
  PROVE  /\ x \div b \in Int /\ x % b \in Nat /\ x % b < b
         /\ x = b * (x \div b) + (x % b)
OBVIOUS

LEMMA DivNext ==
  ASSUME NEW x \in Nat, NEW a \in Nat, NEW b \in Nat, 0 < b, b < a
  PROVE  /\ x \div b < (x + a) \div b
         /\ (x + a) % b = 0 => x \div b + 1 < (x + a) \div b
<1> DEFINE q == x \div b
           r == x % b
           p == (x + a) \div b
           s == (x + a) % b
<1>1. q \in Int /\ r \in Nat /\ r < b /\ x = b * q + r
  BY Div
<1>2. p \in Int /\ s \in Nat /\ s < b /\ x + a = b * p + s
  <2>1. x + a \in Int
    OBVIOUS
  <2> DEFINE y == x + a
  <2> HIDE DEF y
  <2>2. y \div b \in Int /\ y % b \in Nat /\ y % b < b /\ y = b * (y \div b) + (y % b)
    BY <2>1, Div DEF y
  <2> QED BY <2>2 DEF y
<1> HIDE DEF q, r, p, s
<1>3. b * (p - q) = a + r - s
  BY <1>1, <1>2
<1>4. p - q >= 1
  <2>1. b * (p - q) > 0
    BY <1>1, <1>2, <1>3
  <2> QED BY <1>1, <1>2, <2>1
<1>5. s = 0 => p - q >= 2
  <2>1. ASSUME s = 0, p - q = 1 PROVE FALSE
    <3>1. b * (p - q) = b
      BY <1>1, <1>2, <2>1
    <3> QED BY <1>1, <1>2, <1>3, <2>1, <3>1
  <2> QED BY <1>1, <1>2, <1>4, <2>1
<1>6. q < p /\ (s = 0 => q + 1 < p)
  BY <1>1, <1>2, <1>4, <1>5
<1> QED BY <1>6 DEF p, q, s

Thinned(n, t, low) == n \in Nat /\ t \in 3 .. n - 1 /\ low \subseteq Inexact(n, t)

(* The edges of the buckets, and that they follow each other.              *)
EdgesAscend(n, t, low) ==
    /\ Edge(n, t, low, 0) = 1
    /\ \A i \in 0 .. t - 2 : Edge(n, t, low, i) \in 1 .. n - 1
    /\ \A i \in 0 .. t - 2 : /\ Edge(n, t, low, i + 1) \in Int
                             /\ Edge(n, t, low, i) < Edge(n, t, low, i + 1)
    /\ t - 2 \notin low => Edge(n, t, low, t - 2) = n - 1
    /\ t - 2 \in low => Edge(n, t, low, t - 2) = n - 2

LEMMA EdgesFollow ==
  ASSUME NEW n, NEW t, NEW low, Thinned(n, t, low)
  PROVE  EdgesAscend(n, t, low)
<1> DEFINE a == n - 2
           b == t - 2
           q(i) == (i * a) \div b
           lowered(i) == IF i \in low THEN 1 ELSE 0
           E(i) == Edge(n, t, low, i)
<1>1. n \in Nat /\ a \in Nat /\ b \in Nat /\ 0 < b /\ b < a /\ b = t - 2 /\ a = n - 2 /\ t \in Nat
  BY DEF Thinned
<1>2. \A i : E(i) = q(i) - lowered(i) + 1 /\ lowered(i) \in {0, 1}
  BY DEF Edge
<1>3. \A i \in low : i \in 1 .. t - 1 /\ (i * a) % b = 0
  BY DEF Thinned, Inexact
<1>4. \A i : i \notin low => lowered(i) = 0
  OBVIOUS
<1>5. \A i \in Nat : i * a \in Nat /\ (i + 1) * a = i * a + a
  BY <1>1
<1> HIDE DEF a, b, E
<1>6. \A i \in Nat : q(i) \in Int /\ q(i + 1) \in Int /\ q(i) < q(i + 1)
                   /\ (i + 1 \in low => q(i) + 1 < q(i + 1))
  <2>1. ASSUME NEW i \in Nat
        PROVE  /\ q(i) \in Int /\ q(i + 1) \in Int /\ q(i) < q(i + 1)
               /\ (i + 1 \in low => q(i) + 1 < q(i + 1))
    <3>1. i * a \in Nat /\ i * a + a = (i + 1) * a /\ (i + 1) * a \in Nat
      BY <1>1, <1>5
    <3> DEFINE x == i * a
               y == (i + 1) * a
    <3>2. i + 1 \in low => y % b = 0
      BY <1>3
    <3> HIDE DEF x, y
    <3>3. x \in Nat /\ x + a = y /\ y \in Nat
      BY <3>1 DEF x, y
    <3>4. /\ x \div b < y \div b
          /\ y % b = 0 => x \div b + 1 < y \div b
      BY <1>1, <3>3, DivNext
    <3>5. x \div b \in Int /\ y \div b \in Int
      BY <1>1, <3>3, Div
    <3> QED BY <3>2, <3>4, <3>5 DEF x, y
  <2> QED BY <2>1
<1>7. q(0) = 0
  <2>1. 0 * a = 0
    BY <1>1
  <2>2. 0 \div b = 0
    BY <1>1
  <2> QED BY <2>1, <2>2
<1>8. q(b) = a
  <2> DEFINE x == b * a  p == x \div b
  <2>1. x \in Nat /\ x = b * a
    BY <1>1
  <2> HIDE DEF x
  <2>2. p \in Int /\ x % b \in Nat /\ x % b < b /\ x = b * p + (x % b)
    BY <1>1, <2>1, Div
  <2> DEFINE r == x % b
  <2> HIDE DEF p, r
  <2>3. p \in Int /\ r \in Nat /\ r < b /\ b * a = b * p + r
    BY <2>1, <2>2 DEF r
  <2>4. b * (a - p) = r
    BY <1>1, <2>3
  <2>5. a - p = 0
    <3>1. ~(a - p >= 1)
      BY <1>1, <2>3, <2>4
    <3>2. ~(a - p <= -1)
      BY <1>1, <2>3, <2>4
    <3> QED BY <1>1, <2>3, <3>1, <3>2
  <2>6. p = a
    BY <1>1, <2>3, <2>5
  <2> QED BY <2>6 DEF p, x
<1>9. \A i \in Nat : i # 0 => q(i) >= 1
  <2>1. ASSUME NEW i \in Nat, i # 0 PROVE q(i) >= 1
    <3> DEFINE x == i * a  p == x \div b  r == x % b
    <3>1. x \in Nat /\ x >= a
      BY <1>1, <2>1
    <3> HIDE DEF x
    <3>2. p \in Int /\ r \in Nat /\ r < b /\ x = b * p + r
      BY <1>1, <3>1, Div
    <3> HIDE DEF p, r
    <3>3. b * p > 0
      BY <1>1, <3>1, <3>2
    <3>4. p >= 1
      BY <1>1, <3>2, <3>3
    <3> QED BY <3>4 DEF p, x
  <2> QED BY <2>1
<1>10. \A i \in 0 .. b : q(i) <= a
  <2>1. ASSUME NEW i \in 0 .. b PROVE q(i) <= a
    <3> DEFINE x == i * a  p == x \div b  r == x % b
    <3>1. x \in Nat /\ x <= b * a
      BY <1>1
    <3> HIDE DEF x
    <3>2. p \in Int /\ r \in Nat /\ r < b /\ x = b * p + r
      BY <1>1, <3>1, Div
    <3> HIDE DEF p, r
    <3>3. b * (p - a) <= 0
      BY <1>1, <3>1, <3>2
    <3>4. p - a <= 0
      BY <1>1, <3>2, <3>3
    <3> QED BY <1>1, <3>2, <3>4 DEF p, x
  <2> QED BY <2>1
<1> HIDE DEF q, lowered
<1>11. E(0) = 1
  BY <1>2, <1>3, <1>4, <1>7
<1>12. ASSUME NEW i \in 0 .. t - 2 PROVE E(i) \in 1 .. n - 1
  <2>1. i \in Nat /\ q(i) \in Int /\ q(i) <= a
    BY <1>1, <1>6, <1>10
  <2>2. CASE i = 0
    BY <1>1, <1>11, <2>2
  <2>3. CASE i # 0
    BY <1>1, <1>2, <1>9, <2>1, <2>3
  <2> QED BY <2>2, <2>3
<1>13. ASSUME NEW i \in 0 .. t - 2 PROVE E(i + 1) \in Int /\ E(i) < E(i + 1)
  <2>1. /\ q(i) \in Int /\ q(i + 1) \in Int /\ q(i) < q(i + 1)
        /\ i + 1 \in low => q(i) + 1 < q(i + 1)
    BY <1>6
  <2>2. lowered(i + 1) = 0 \/ i + 1 \in low
    BY <1>4
  <2> QED BY <1>2, <2>1, <2>2
<1>14. (t - 2 \notin low => E(t - 2) = n - 1) /\ (t - 2 \in low => E(t - 2) = n - 2)
  <2>1. \A i \in low : lowered(i) = 1
    BY DEF lowered
  <2> QED BY <1>1, <1>2, <1>4, <1>8, <2>1
<1> QED BY <1>11, <1>12, <1>13, <1>14 DEF E, EdgesAscend

(* The sample kept from a bucket is one of the bucket. *)
LEMMA PickIsInBucket ==
  ASSUME NEW samples, NEW t, NEW low, Thinned(Len(samples), t, low), NEW i \in 0 .. t - 3, NEW last
  PROVE  PickFrom(samples, t, low, i, last)
           \in Edge(Len(samples), t, low, i) .. Edge(Len(samples), t, low, i + 1) - 1
<1> DEFINE n == Len(samples)
           next == AvgRange(n, t, low, i)
           area == [ j \in PickRange(n, t, low, i) |->
                       Area(At(samples, last), At(samples, j), Total(samples, next, "ts"),
                            Total(samples, next, "value"), Cardinality(next)) ]
           largest == { j \in DOMAIN area : \A k \in DOMAIN area : area[k] <= area[j] }
           from == Edge(n, t, low, i)
           to == Edge(n, t, low, i + 1)
<1>1. PickFrom(samples, t, low, i, last) = IF largest = {} THEN from ELSE Min(largest)
  BY DEF PickFrom
<1>2. largest \subseteq PickRange(n, t, low, i)
  OBVIOUS
<1>3. PickRange(n, t, low, i) = from .. AtMost(to, n) - 1
  BY DEF PickRange
<1> HIDE DEF n, area, largest, from, to
<1>4. t \in Nat /\ n \in Nat /\ i \in 0 .. t - 2 /\ i + 1 \in 0 .. t - 2
  BY DEF Thinned, n
<1>5. EdgesAscend(n, t, low)
  BY EdgesFollow DEF n
<1>6. from \in 1 .. n - 1 /\ to \in 1 .. n - 1 /\ from < to
  BY <1>4, <1>5 DEF EdgesAscend, from, to
<1>7. PickRange(n, t, low, i) = from .. to - 1
  BY <1>3, <1>4, <1>6 DEF AtMost
<1>8. largest # {} => Min(largest) \in largest
  <2>1. largest \subseteq Nat
    BY <1>2, <1>6, <1>7
  <2>2. largest # {} => \E x \in largest : \A y \in largest : x <= y
    BY <2>1, LeastNat
  <2> QED BY <2>2 DEF Min
<1> QED BY <1>1, <1>2, <1>6, <1>7, <1>8 DEF from, to, n

-------------------------------------------------------------------------------
(* The points kept.                                                        *)

KeptStep(samples, t, low, f, i) ==
    IF i = 0 THEN 0
    ELSE IF i = t - 1 THEN Len(samples) - 1
    ELSE PickFrom(samples, t, low, i - 1, f[i - 1])

LEMMA KeptStepIsPlace ==
  ASSUME NEW samples, NEW t, NEW low, Thinned(Len(samples), t, low), NEW i \in 0 .. t - 1, NEW f
  PROVE  /\ KeptStep(samples, t, low, f, i) \in 0 .. Len(samples) - 1
         /\ i \in 1 .. t - 2 => KeptStep(samples, t, low, f, i) \in
               Edge(Len(samples), t, low, i - 1) .. Edge(Len(samples), t, low, i) - 1
<1> DEFINE n == Len(samples)
           step == KeptStep(samples, t, low, f, i)
<1>1. n \in Nat /\ t \in Nat /\ t >= 3 /\ n > t
  BY DEF Thinned
<1>2. CASE i = 0
  BY <1>1, <1>2 DEF KeptStep
<1>3. CASE i = t - 1
  <2>1. i # 0 /\ ~(i \in 1 .. t - 2)
    BY <1>1, <1>3
  <2>2. step = n - 1
    BY <1>3, <2>1 DEF KeptStep
  <2> HIDE DEF n, step
  <2>3. step \in 0 .. n - 1
    BY <1>1, <2>2
  <2> QED BY <2>1, <2>3 DEF n, step
<1>4. CASE i # 0 /\ i # t - 1
  <2>1. i - 1 \in 0 .. t - 3 /\ i \in 1 .. t - 2 /\ (i - 1) + 1 = i /\ i - 1 \in 0 .. t - 2
        /\ i \in 0 .. t - 2
    BY <1>1, <1>4
  <2>2. step = PickFrom(samples, t, low, i - 1, f[i - 1])
    BY <1>4 DEF KeptStep
  <2>3. step \in Edge(n, t, low, i - 1) .. Edge(n, t, low, i) - 1
    BY <2>1, <2>2, PickIsInBucket
  <2>4. EdgesAscend(n, t, low)
    BY EdgesFollow
  <2> HIDE DEF n, step
  <2>5. Edge(n, t, low, i - 1) \in 1 .. n - 1 /\ Edge(n, t, low, i) \in 1 .. n - 1
    BY <2>1, <2>4 DEF EdgesAscend
  <2> DEFINE from == Edge(n, t, low, i - 1)  to == Edge(n, t, low, i)
  <2> HIDE DEF from, to
  <2>6. from \in 1 .. n - 1 /\ to \in 1 .. n - 1 /\ step \in from .. to - 1
    BY <2>3, <2>5 DEF from, to
  <2>7. step \in 0 .. n - 1
    BY <1>1, <2>6
  <2> QED BY <2>3, <2>7 DEF n, step
<1> QED BY <1>2, <1>3, <1>4

LEMMA KeptExists ==
  ASSUME NEW samples, NEW t, NEW low, Thinned(Len(samples), t, low)
  PROVE  Kept(samples, t, low)
           = [ i \in 0 .. t - 1 |-> KeptStep(samples, t, low, Kept(samples, t, low), i) ]
<1> DEFINE S == 0 .. t - 1
           V == 0 .. Len(samples) - 1
           F == [x \in S \X [S -> V] |-> KeptStep(samples, t, low, x[2], x[1])]
           measure == [i \in S |-> i]
           bound == t
<1>1. t \in Nat /\ t >= 3 /\ Len(samples) \in Nat /\ Len(samples) > t
  BY DEF Thinned
<1>2. F \in [S \X [S -> V] -> V]
  <2>1. ASSUME NEW x \in S \X [S -> V] PROVE KeptStep(samples, t, low, x[2], x[1]) \in V
    <3>1. x[1] \in S
      OBVIOUS
    <3> QED BY <3>1, KeptStepIsPlace
  <2> QED BY <2>1
<1>3. measure \in [S -> 0 .. bound] /\ bound \in Nat
  BY <1>1
<1>4. ASSUME NEW i \in S, NEW g \in [S -> V], NEW h \in [S -> V],
             \A j \in S : measure[j] < measure[i] => g[j] = h[j]
      PROVE  F[<<i, g>>] = F[<<i, h>>]
  <2>1. F[<<i, g>>] = KeptStep(samples, t, low, g, i) /\ F[<<i, h>>] = KeptStep(samples, t, low, h, i)
    OBVIOUS
  <2>2. i # 0 => i - 1 \in S /\ i - 1 < i
    BY <1>1
  <2>3. i # 0 => g[i - 1] = h[i - 1]
    BY <1>4, <2>2
  <2> QED BY <2>1, <2>3 DEF KeptStep
<1>5. Recursive(S, V, F, measure, bound)
  <2> HIDE DEF S, V, F, measure, bound
  <2> QED BY <1>2, <1>3, <1>4 DEF Recursive
<1>6. Solvable(S, V, F)
  <2>1. V # {}
    <3>1. 0 \in V
      BY <1>1
    <3> QED BY <3>1
  <2> HIDE DEF S, V, F, measure, bound
  <2> QED BY <1>3, <1>5, <2>1, RecursionExists
<1>7. PICK f \in [S -> V] : \A i \in S : f[i] = F[<<i, f>>]
  BY <1>6 DEF Solvable
<1>8. f = [ i \in 0 .. t - 1 |-> KeptStep(samples, t, low, f, i) ]
  BY <1>7
<1> DEFINE K == CHOOSE k : k = [ i \in 0 .. t - 1 |-> KeptStep(samples, t, low, k, i) ]
<1>9. Kept(samples, t, low) = K
  BY DEF Kept, KeptStep
<1> QED BY <1>8, <1>9

(* The first, the last, and one of each bucket. *)
KeptOK(samples, t, low) ==
    LET n == Len(samples)
        kept == Kept(samples, t, low)
    IN  /\ kept[0] = 0 /\ kept[t - 1] = n - 1
        /\ \A i \in 0 .. t - 1 : kept[i] \in 0 .. n - 1
        /\ \A i \in 1 .. t - 2 :
              /\ kept[i] \in Edge(n, t, low, i - 1) .. Edge(n, t, low, i) - 1
              /\ kept[i] = PickFrom(samples, t, low, i - 1, kept[i - 1])
        /\ \A i \in 0 .. t - 2 : kept[i] < kept[i + 1]

LEMMA KeptPlaces ==
  ASSUME NEW samples, NEW t, NEW low, Thinned(Len(samples), t, low)
  PROVE  KeptOK(samples, t, low)
<1> DEFINE n == Len(samples)
           kept == Kept(samples, t, low)
           E(i) == Edge(n, t, low, i)
<1>1. n \in Nat /\ t \in Nat /\ t >= 3 /\ n > t
  BY DEF Thinned
<1>2. \A i \in 0 .. t - 1 : kept[i] = KeptStep(samples, t, low, kept, i)
  <2>1. kept = [ i \in 0 .. t - 1 |-> KeptStep(samples, t, low, kept, i) ]
    BY KeptExists
  <2> HIDE DEF kept
  <2> QED BY <2>1
<1>3. 0 \in 0 .. t - 1 /\ t - 1 \in 0 .. t - 1 /\ t - 1 # 0
  BY <1>1
<1>4. kept[0] = 0 /\ kept[t - 1] = n - 1
  BY <1>2, <1>3 DEF KeptStep
<1>5. \A i \in 0 .. t - 1 : kept[i] \in 0 .. n - 1
  BY <1>2, KeptStepIsPlace
<1>6. ASSUME NEW i \in 1 .. t - 2
      PROVE  /\ kept[i] \in E(i - 1) .. E(i) - 1
             /\ kept[i] = PickFrom(samples, t, low, i - 1, kept[i - 1])
  <2>1. i \in 0 .. t - 1 /\ i # 0 /\ i # t - 1
    BY <1>1
  <2>2. kept[i] = KeptStep(samples, t, low, kept, i)
    BY <1>2, <2>1
  <2>3. kept[i] \in E(i - 1) .. E(i) - 1
    BY <2>1, <2>2, KeptStepIsPlace
  <2> QED BY <2>1, <2>2, <2>3 DEF KeptStep
<1>7. EdgesAscend(n, t, low)
  BY EdgesFollow
<1> HIDE DEF n, kept
<1>8. E(0) = 1 /\ \A i \in 0 .. t - 2 : E(i) \in 1 .. n - 1
  BY <1>7 DEF EdgesAscend
<1> HIDE DEF E
<1>9. ASSUME NEW i \in 0 .. t - 2 PROVE kept[i] < kept[i + 1]
  <2>1. CASE i = t - 2
    <3>1. i \in 1 .. t - 2 /\ i + 1 = t - 1 /\ i \in 0 .. t - 2
      BY <1>1, <2>1
    <3>2. kept[i] \in E(i - 1) .. E(i) - 1 /\ E(i) <= n - 1 /\ E(i) \in Int
      BY <1>1, <1>6, <1>8, <3>1
    <3>3. kept[i] < n - 1
      BY <1>1, <1>5, <3>1, <3>2
    <3> QED BY <1>4, <3>1, <3>3
  <2>2. CASE i # t - 2
    <3>1. i + 1 \in 1 .. t - 2 /\ (i + 1) - 1 = i /\ i \in 0 .. t - 2
      BY <1>1, <2>2
    <3>2. kept[i + 1] \in E(i) .. E(i + 1) - 1 /\ E(i) \in Int /\ E(i) >= 1
      BY <1>1, <1>6, <1>8, <3>1
    <3>3. kept[i] < E(i)
      <4>1. CASE i = 0
        BY <1>4, <1>8, <4>1
      <4>2. CASE i # 0
        <5>1. i \in 1 .. t - 2
          BY <1>1, <4>2
        <5>2. kept[i] \in E(i - 1) .. E(i) - 1
          BY <1>6, <5>1
        <5> QED BY <1>5, <3>2, <5>2
      <4> QED BY <4>1, <4>2
    <3>4. kept[i] \in Int
      BY <1>1, <1>5
    <3> QED BY <3>2, <3>3, <3>4
  <2> QED BY <2>1, <2>2
<1> QED BY <1>4, <1>5, <1>6, <1>9 DEF KeptOK, n, kept, E

-------------------------------------------------------------------------------
(* The shape of a chart.                                                   *)

InOrder(samples) ==
    /\ Len(samples) \in Nat /\ DOMAIN samples = 1 .. Len(samples)
    /\ \A i \in DOMAIN samples : samples[i].ts \in Nat
    /\ \A i, j \in DOMAIN samples : i < j => samples[i].ts < samples[j].ts

LEMMA ChartShape ==
  ASSUME NEW samples, InOrder(samples), NEW t, NEW low, Thinned(Len(samples), t, low)
  PROVE  LET out == Lttb(samples, t, low)
         IN  /\ DOMAIN out = 1 .. t /\ Len(out) = t
             /\ \A i \in 1 .. t : out[i] = samples[Kept(samples, t, low)[i - 1] + 1]
             /\ out[1] = samples[1] /\ Last(out) = Last(samples)
             /\ \A i \in 1 .. t : out[i] \in Range(samples)
             /\ \A i \in 1 .. t - 1 : out[i].ts < out[i + 1].ts
<1> DEFINE n == Len(samples)
           kept == Kept(samples, t, low)
           out == Lttb(samples, t, low)
<1>1. n \in Nat /\ t \in Nat /\ t >= 3 /\ n > t /\ DOMAIN samples = 1 .. n
  BY DEF Thinned, InOrder
<1>2. out = [ i \in 1 .. t |-> samples[kept[i - 1] + 1] ]
  <2>1. ~(t < 3 \/ t >= n)
    BY <1>1
  <2> QED BY <2>1 DEF Lttb, At
<1>3. KeptOK(samples, t, low)
  BY KeptPlaces
<1>4. /\ kept[0] = 0 /\ kept[t - 1] = n - 1
      /\ \A i \in 0 .. t - 1 : kept[i] \in 0 .. n - 1
      /\ \A i \in 0 .. t - 2 : kept[i] < kept[i + 1]
  BY <1>3 DEF KeptOK
<1> HIDE DEF n, kept, out
<1>5. DOMAIN out = 1 .. t /\ Len(out) = t
  BY <1>1, <1>2
<1>6. \A i \in 1 .. t : i - 1 \in 0 .. t - 1 /\ kept[i - 1] + 1 \in 1 .. n
  BY <1>1, <1>4
<1>7. out[1] = samples[1] /\ out[t] = samples[n]
  <2>1. 1 \in 1 .. t /\ t \in 1 .. t /\ 1 - 1 = 0 /\ 0 + 1 = 1 /\ (n - 1) + 1 = n
    BY <1>1
  <2> QED BY <1>2, <1>4, <2>1
<1>8. Last(out) = Last(samples)
  BY <1>5, <1>7 DEF Last, n
<1>9. \A i \in 1 .. t : out[i] \in Range(samples)
  BY <1>1, <1>2, <1>6 DEF Range
<1>10. ASSUME NEW i \in 1 .. t - 1 PROVE out[i].ts < out[i + 1].ts
  <2>1. i \in 1 .. t /\ i + 1 \in 1 .. t /\ i - 1 \in 0 .. t - 2 /\ (i + 1) - 1 = i /\ (i - 1) + 1 = i
    BY <1>1
  <2>2. kept[i - 1] < kept[i] /\ kept[i - 1] + 1 \in 1 .. n /\ kept[i] + 1 \in 1 .. n
    BY <1>4, <1>6, <2>1
  <2>3. out[i] = samples[kept[i - 1] + 1] /\ out[i + 1] = samples[kept[i] + 1]
    BY <1>2, <2>1
  <2>4. kept[i - 1] \in Int /\ kept[i] \in Int
    <3>1. i - 1 \in 0 .. t - 1 /\ i \in 0 .. t - 1
      BY <1>1, <2>1
    <3> QED BY <1>4, <3>1
  <2>5. kept[i - 1] + 1 < kept[i] + 1
    BY <2>2, <2>4
  <2> QED BY <1>1, <2>2, <2>3, <2>5 DEF InOrder
<1>11. \A i \in 1 .. t : out[i] = samples[kept[i - 1] + 1]
  BY <1>2
<1> QED BY <1>5, <1>7, <1>8, <1>9, <1>10, <1>11 DEF out, kept

LEMMA ShapeKept ==
  ASSUME NEW samples, InOrder(samples)
  PROVE  KeepsShape(samples)
<1> DEFINE n == Len(samples)
<1>1. n \in Nat
  BY DEF InOrder
<1>2. ASSUME NEW t \in Asked(samples), NEW low \in Roundings(samples, t)
      PROVE  LET out == Lttb(samples, t, low)
             IN  IF t < 3 \/ t >= n
                 THEN out = samples
                 ELSE /\ \A i \in 0 .. t - 3 : AvgStart(n, t, low, i) <= AvgEnd(n, t, low, i)
                      /\ out[1] = samples[1] /\ Last(out) = Last(samples)
                      /\ \A i \in 1 .. t : out[i] \in Range(samples)
                      /\ \A i \in 1 .. t - 1 : out[i].ts < out[i + 1].ts
  <2>1. t \in Nat
    BY <1>1 DEF Asked
  <2>2. CASE t < 3 \/ t >= n
    BY <2>2 DEF Lttb
  <2>3. CASE ~(t < 3 \/ t >= n)
    <3>1. low \subseteq Inexact(n, t)
      BY <2>3 DEF Roundings
    <3>2. t \in 3 .. n - 1
      BY <1>1, <2>1, <2>3
    <3>3. Thinned(n, t, low)
      BY <1>1, <3>1, <3>2 DEF Thinned
    <3>4. ASSUME NEW i \in 0 .. t - 3 PROVE AvgStart(n, t, low, i) <= AvgEnd(n, t, low, i)
      <4>1. EdgesAscend(n, t, low)
        BY <3>3, EdgesFollow
      <4>2. i + 1 \in 0 .. t - 2 /\ (i + 1) + 1 = i + 2
        BY <3>2, <2>1
      <4> DEFINE from == Edge(n, t, low, i + 1)
                 to == Edge(n, t, low, i + 2)
      <4>3. from \in 1 .. n - 1 /\ to \in Int /\ from < to
        BY <4>1, <4>2 DEF EdgesAscend
      <4>4. AvgStart(n, t, low, i) = AtMost(from, n - 1) /\ AvgEnd(n, t, low, i) = AtMost(to, n)
        BY DEF AvgStart, AvgEnd
      <4> HIDE DEF from, to, n
      <4> QED BY <1>1, <4>3, <4>4 DEF AtMost
    <3> HIDE DEF n
    <3> QED BY <2>3, <3>3, <3>4, ChartShape DEF n
  <2> QED BY <2>2, <2>3
<1> QED BY <1>2 DEF KeepsShape

LEMMA HistoryInOrder ==
  ASSUME IInv
  PROVE  /\ InOrder(History) /\ Len(History) = Len(ToVec)
         /\ ToVec \in Seq(Item)
         /\ \A i \in DOMAIN History : i \in 1 .. Len(ToVec) /\ History[i].value = ToVec[i]
<1>1. ToVec \in Seq(Item)
  <2>1. buf \in Seq(Item) /\ head \in Nat /\ head <= Len(buf)
    BY CapPositive DEF IInv, TypeOK, HeadAtRest
  <2> QED BY <2>1, IterShape DEF ToVec
<1> QED BY <1>1 DEF History, InOrder

(* Every chart of a ring, whatever was pushed, has exactly as many points  *)
(* as were asked for, its ends among them, each later than the one before. *)
THEOREM ChartsAlwaysKeepShape == Spec => []ChartKeepsShape
<1>1. IInv => ChartKeepsShape
  BY HistoryInOrder, ShapeKept DEF ChartKeepsShape
<1> QED BY <1>1, IndicesLegal, PTL

-------------------------------------------------------------------------------
(* A lone spike.                                                           *)

(* Corners of equal height over their middle: the triangle is flat.        *)
LEMMA AreaFlat ==
  ASSUME NEW p, NEW q, NEW sumX \in Int, NEW sumY \in Int, NEW count \in Int,
         p.ts \in Int, q.ts \in Int, p.value \in Int,
         q.value = p.value, sumY = p.value * count
  PROVE  Area(p, q, sumX, sumY, count) = 0
<1> DEFINE a == p.ts * count - sumX
           b == p.ts - q.ts
           c == p.value
           signed == AreaSigned(p, q, sumX, sumY, count)
<1>1. a \in Int /\ b \in Int /\ c \in Int
  OBVIOUS
<1>2. signed = a * (c - c) - b * (c * count - c * count)
  BY DEF AreaSigned
<1> HIDE DEF a, b, c, signed
<1>3. c * count \in Int
  BY <1>1
<1>4. c - c = 0 /\ c * count - c * count = 0 /\ a * 0 = 0 /\ b * 0 = 0
  BY <1>1, <1>3
<1>5. signed = 0
  BY <1>2, <1>4
<1> QED BY <1>5 DEF Area, signed

LEMMA AreaSpike ==
  ASSUME NEW p, NEW q, NEW sumX \in Int, NEW sumY \in Int, NEW count \in Int,
         p.ts \in Int, q.ts \in Int, p.value \in Int, q.value \in Int,
         q.value # p.value, sumY = p.value * count, p.ts * count < sumX
  PROVE  Area(p, q, sumX, sumY, count) \in Int /\ Area(p, q, sumX, sumY, count) > 0
<1> DEFINE a == p.ts * count - sumX
           b == p.ts - q.ts
           c == p.value
           d == q.value
           signed == AreaSigned(p, q, sumX, sumY, count)
<1>1. a \in Int /\ b \in Int /\ c \in Int /\ d \in Int /\ a < 0 /\ c # d
  OBVIOUS
<1>2. signed = a * (d - c) - b * (c * count - c * count)
  BY DEF AreaSigned
<1> HIDE DEF a, b, c, d, signed
<1>3. c * count \in Int
  BY <1>1
<1>4. c * count - c * count = 0 /\ b * 0 = 0 /\ a * (d - c) \in Int
  BY <1>1, <1>3
<1>5. signed = a * (d - c) /\ signed \in Int
  BY <1>2, <1>4
<1>6. signed # 0
  BY <1>1, <1>5
<1>7. Area(p, q, sumX, sumY, count) = IF signed < 0 THEN -signed ELSE signed
  BY DEF Area, signed
<1> QED BY <1>5, <1>6, <1>7

(* What the mean of the bucket after bucket i is taken over. *)
LEMMA MeanRange ==
  ASSUME NEW n, NEW t, NEW low, Thinned(n, t, low), NEW i \in 0 .. t - 3
  PROVE  LET next == AvgRange(n, t, low, i)
         IN  /\ next \subseteq Edge(n, t, low, i + 1) .. n - 1
             /\ IsFiniteSet(next) /\ Cardinality(next) \in Nat /\ Cardinality(next) > 0
<1> DEFINE next == AvgRange(n, t, low, i)
           start == Edge(n, t, low, i + 1)
           after == Edge(n, t, low, i + 2)
           end == AtMost(after, n)
           till == AtMost(IF end > start THEN end ELSE start + 1, n)
<1>1. n \in Nat /\ t \in Nat /\ i + 1 \in 0 .. t - 2 /\ (i + 1) + 1 = i + 2
  BY DEF Thinned
<1>2. EdgesAscend(n, t, low)
  BY EdgesFollow
<1>3. start \in 1 .. n - 1 /\ after \in Int /\ start < after
  BY <1>1, <1>2 DEF EdgesAscend
<1>4. AvgStart(n, t, low, i) = AtMost(start, n - 1) /\ AvgEnd(n, t, low, i) = end
  BY DEF AvgStart, AvgEnd
<1> HIDE DEF start, after
<1>5. AtMost(start, n - 1) = start
  BY <1>1, <1>3 DEF AtMost
<1>6. next = start .. till - 1
  BY <1>4, <1>5 DEF AvgRange
<1>7. end \in Int /\ till \in Int /\ start < till /\ till <= n
  BY <1>1, <1>3 DEF AtMost
<1> HIDE DEF next, till, end
<1>8. next \subseteq start .. n - 1 /\ start \in next
  BY <1>1, <1>3, <1>6, <1>7
<1>9. IsFiniteSet(next)
  BY <1>3, <1>6, <1>7, FS_Interval
<1>10. Cardinality(next) \in Nat /\ Cardinality(next) # 0
  BY <1>8, <1>9, FS_CardinalityType, FS_EmptySet
<1> QED BY <1>8, <1>9, <1>10 DEF next, start

LEMMA BucketHolds ==
  ASSUME NEW n, NEW t, NEW low, Thinned(n, t, low),
         NEW k \in 1 .. Edge(n, t, low, t - 2) - 1
  PROVE  \E i \in 0 .. t - 3 : k \in Edge(n, t, low, i) .. Edge(n, t, low, i + 1) - 1
<1> DEFINE E(i) == Edge(n, t, low, i)
           T == { m \in 0 .. t - 2 : k < E(m) }
<1>1. t \in Nat /\ t >= 3 /\ n \in Nat
  BY DEF Thinned
<1>2. EdgesAscend(n, t, low)
  BY EdgesFollow
<1>3. E(0) = 1 /\ \A i \in 0 .. t - 2 : E(i) \in 1 .. n - 1
  BY <1>2 DEF EdgesAscend
<1>4. k \in 1 .. E(t - 2) - 1
  OBVIOUS
<1> HIDE DEF E
<1>5. t - 2 \in 0 .. t - 2 /\ E(t - 2) \in Int
  BY <1>1, <1>3
<1>6. t - 2 \in T
  BY <1>4, <1>5
<1>7. T \subseteq Nat
  OBVIOUS
<1>8. PICK m \in T : \A l \in T : m <= l
  <2> HIDE DEF T
  <2> QED BY <1>6, <1>7, LeastNat
<1>9. m # 0
  BY <1>3, <1>4, <1>5, <1>8
<1>10. m \in 0 .. t - 2 /\ k < E(m)
  BY <1>8
<1>11. m - 1 \in 0 .. t - 3 /\ m - 1 \in 0 .. t - 2 /\ (m - 1) + 1 = m
  BY <1>1, <1>9, <1>10
<1>12. ~(k < E(m - 1))
  <2>1. m - 1 \notin T
    BY <1>8, <1>10
  <2> QED BY <1>11, <2>1
<1>13. k \in E(m - 1) .. E((m - 1) + 1) - 1
  <2>1. E(m) \in Int /\ E(m - 1) \in Int /\ k \in Int
    BY <1>3, <1>4, <1>5, <1>10, <1>11
  <2> QED BY <1>10, <1>11, <1>12, <2>1
<1> QED BY <1>11, <1>13 DEF E

(* Of a bucket that holds the spike, the spike is kept.                    *)
Lone(samples, s, v) ==
    /\ s \in DOMAIN samples /\ v \in Nat
    /\ samples[s].value \in Nat /\ samples[s].value # v
    /\ \A j \in DOMAIN samples \ {s} : samples[j].value = v

LEMMA SpikePicked ==
  ASSUME NEW samples, InOrder(samples), NEW s, NEW v, Lone(samples, s, v),
         NEW t, NEW low, Thinned(Len(samples), t, low), NEW i \in 0 .. t - 3,
         s - 1 \in Edge(Len(samples), t, low, i) .. Edge(Len(samples), t, low, i + 1) - 1,
         NEW last \in 0 .. Edge(Len(samples), t, low, i) - 1
  PROVE  PickFrom(samples, t, low, i, last) = s - 1
<1> DEFINE n == Len(samples)
           next == AvgRange(n, t, low, i)
           xs == [ k \in next |-> At(samples, k).ts ]
           ys == [ k \in next |-> At(samples, k).value ]
           sumX == SumFunctionOnSet(xs, next)
           sumY == SumFunctionOnSet(ys, next)
           count == Cardinality(next)
           p == At(samples, last)
           from == Edge(n, t, low, i)
           to == Edge(n, t, low, i + 1)
           area == [ j \in PickRange(n, t, low, i) |-> Area(p, At(samples, j), sumX, sumY, count) ]
           largest == { j \in DOMAIN area : \A k \in DOMAIN area : area[k] <= area[j] }
<1>1. PickFrom(samples, t, low, i, last) = IF largest = {} THEN from ELSE Min(largest)
  BY DEF PickFrom, Total
<1>2. PickRange(n, t, low, i) = from .. AtMost(to, n) - 1
  BY DEF PickRange
<1>3. n \in Nat /\ t \in Nat /\ i \in 0 .. t - 2 /\ i + 1 \in 0 .. t - 2
  BY DEF Thinned
<1>4. EdgesAscend(n, t, low)
  BY EdgesFollow
<1>5. from \in 1 .. n - 1 /\ to \in 1 .. n - 1 /\ from < to
  BY <1>3, <1>4 DEF EdgesAscend
<1>6. next \subseteq to .. n - 1 /\ IsFiniteSet(next) /\ count \in Nat /\ count > 0
  BY MeanRange
<1>7. s - 1 \in from .. to - 1 /\ last \in 0 .. from - 1
  OBVIOUS
<1>8. /\ DOMAIN samples = 1 .. n /\ s \in 1 .. n /\ v \in Nat
      /\ \A k \in 1 .. n : samples[k].ts \in Nat
      /\ \A k, l \in 1 .. n : k < l => samples[k].ts < samples[l].ts
      /\ \A k \in 1 .. n : k # s => samples[k].value = v
      /\ samples[s].value \in Nat /\ samples[s].value # v
  BY DEF InOrder, Lone
<1> DEFINE A(j) == Area(p, At(samples, j), sumX, sumY, count)
<1>9. area = [ j \in PickRange(n, t, low, i) |-> A(j) ]
  OBVIOUS
<1>10. sumY = v * count
  <2>1. ASSUME NEW k \in next PROVE ys[k] = v
    <3>1. k \in to .. n - 1
      BY <1>6
    <3> HIDE DEF next, from, to, n
    <3>2. k + 1 \in 1 .. n /\ k + 1 # s
      BY <1>3, <1>5, <1>7, <1>8, <3>1
    <3> QED BY <1>8, <3>2 DEF At
  <2> HIDE DEF ys, next, n
  <2> QED BY <1>6, <1>8, <2>1, SumConstant
<1>11. /\ last + 1 \in 1 .. n /\ last + 1 # s /\ p = samples[last + 1]
       /\ p.ts \in Nat /\ p.value = v
  <2>1. p = samples[last + 1]
    BY DEF At
  <2> HIDE DEF p, n, from, to
  <2>2. last + 1 \in 1 .. n /\ last + 1 # s
    BY <1>3, <1>5, <1>7, <1>8
  <2> QED BY <1>8, <2>1, <2>2
<1>12. p.ts * count < sumX /\ sumX \in Nat
  <2> DEFINE c == p.ts + 1
             cs == [ k \in next |-> c ]
  <2>1. \A k \in next : xs[k] \in Nat /\ cs[k] \in Nat /\ cs[k] <= xs[k]
    <3>1. ASSUME NEW k \in next PROVE xs[k] \in Nat /\ c \in Nat /\ c <= xs[k]
      <4>1. k \in to .. n - 1 /\ xs[k] = samples[k + 1].ts
        BY <1>6 DEF At
      <4> DEFINE x == xs[k]
      <4> HIDE DEF next, from, to, n, x, p
      <4>2. k + 1 \in 1 .. n /\ last + 1 < k + 1
        BY <1>3, <1>5, <1>7, <4>1
      <4>3. x \in Nat /\ p.ts < x
        BY <1>8, <1>11, <4>1, <4>2 DEF x
      <4> DEFINE pts == p.ts
      <4>4. pts \in Nat /\ x \in Nat /\ pts < x
        BY <1>11, <4>3
      <4> HIDE DEF pts
      <4>5. pts + 1 \in Nat /\ pts + 1 <= x
        BY <4>4
      <4>6. c \in Nat /\ c <= x
        BY <4>5 DEF pts
      <4> QED BY <4>3, <4>6 DEF x
    <3> QED BY <3>1
  <2>2. c \in Nat /\ \A k \in next : cs[k] = c
    BY <1>11
  <2> HIDE DEF xs, cs, next, p
  <2>3. SumFunctionOnSet(cs, next) = c * count
    BY <1>6, <2>2, SumConstant
  <2>4. SumFunctionOnSet(cs, next) <= sumX
    BY <1>6, <2>1, SumMono
  <2>5. sumX \in Nat
    BY <1>6, <2>1, SumNat
  <2> DEFINE pts == p.ts
  <2>6. pts \in Nat /\ (pts + 1) * count <= sumX
    BY <1>11, <2>3, <2>4
  <2> HIDE DEF sumX, count, pts
  <2>7. (pts + 1) * count = pts * count + count /\ pts * count \in Nat
    BY <1>6, <2>6
  <2>8. pts * count < sumX
    BY <1>6, <2>5, <2>6, <2>7
  <2> QED BY <2>5, <2>8 DEF pts
<1>13. sumY \in Int /\ count \in Int /\ sumX \in Int
  BY <1>6, <1>8, <1>10, <1>12
<1>14. ASSUME NEW j \in from .. to - 1, j # s - 1 PROVE A(j) = 0
  <2> DEFINE q == At(samples, j)
  <2>1. q = samples[j + 1]
    BY DEF At
  <2> HIDE DEF q, n, from, to
  <2>2. j + 1 \in 1 .. n /\ j + 1 # s
    BY <1>3, <1>5, <1>7, <1>8, <1>14
  <2>3. q.ts \in Int /\ q.value = v
    BY <1>8, <2>1, <2>2
  <2> HIDE DEF p, sumX, sumY, count
  <2>4. p.ts \in Int /\ p.value \in Int /\ q.value = p.value /\ sumY = p.value * count
    BY <1>8, <1>10, <1>11, <2>3
  <2>5. Area(p, q, sumX, sumY, count) = 0
    BY <1>13, <2>3, <2>4, AreaFlat
  <2> QED BY <2>5 DEF q
<1>15. A(s - 1) \in Int /\ A(s - 1) > 0
  <2> DEFINE q == At(samples, s - 1)
  <2>1. q = samples[s]
    BY <1>8 DEF At
  <2> HIDE DEF q, p, sumX, sumY, count, n
  <2>2. q.ts \in Int /\ q.value \in Int /\ q.value # v
    BY <1>8, <2>1
  <2>3. Area(p, q, sumX, sumY, count) \in Int /\ Area(p, q, sumX, sumY, count) > 0
    <3>1. /\ p.ts \in Int /\ p.value \in Int /\ q.value # p.value /\ sumY = p.value * count
          /\ p.ts * count < sumX
      BY <1>8, <1>10, <1>11, <1>12, <2>2
    <3> QED BY <1>13, <2>2, <3>1, AreaSpike
  <2> QED BY <2>3 DEF q
<1>16. PickRange(n, t, low, i) = from .. to - 1
  <2> HIDE DEF n, from, to
  <2> QED BY <1>2, <1>3, <1>5 DEF AtMost
<1> HIDE DEF A, n, from, to, area
<1>17. DOMAIN area = from .. to - 1 /\ \A j \in from .. to - 1 : area[j] = A(j)
  BY <1>9, <1>16
<1>18. largest = {s - 1}
  <2>1. \A j \in from .. to - 1 : A(j) <= A(s - 1)
    BY <1>14, <1>15
  <2>2. \A j \in from .. to - 1 : j # s - 1 => ~(A(s - 1) <= A(j))
    BY <1>14, <1>15
  <2> QED BY <1>7, <1>17, <2>1, <2>2
<1> HIDE DEF largest
<1>19. Min({s - 1}) = s - 1
  BY <1>8 DEF Min
<1> QED BY <1>1, <1>18, <1>19

LEMMA SpikeKept ==
  ASSUME NEW samples, InOrder(samples), NEW s, NEW v, Lone(samples, s, v),
         NEW t, NEW low, Thinned(Len(samples), t, low), ~(t - 2 \in low /\ s = Len(samples) - 1)
  PROVE  samples[s] \in Range(Lttb(samples, t, low))
<1> DEFINE n == Len(samples)
           kept == Kept(samples, t, low)
           out == Lttb(samples, t, low)
           E(i) == Edge(n, t, low, i)
<1>1. n \in Nat /\ t \in Nat /\ t >= 3 /\ n > t /\ s \in 1 .. n
  BY DEF Thinned, Lone, InOrder
<1>2. /\ DOMAIN out = 1 .. t
      /\ \A i \in 1 .. t : out[i] = samples[kept[i - 1] + 1]
  BY ChartShape
<1>3. KeptOK(samples, t, low)
  BY KeptPlaces
<1>4. /\ kept[0] = 0 /\ kept[t - 1] = n - 1
      /\ \A i \in 0 .. t - 1 : kept[i] \in 0 .. n - 1
      /\ \A i \in 1 .. t - 2 :
            /\ kept[i] \in E(i - 1) .. E(i) - 1
            /\ kept[i] = PickFrom(samples, t, low, i - 1, kept[i - 1])
  BY <1>3 DEF KeptOK
<1>5. EdgesAscend(n, t, low)
  BY EdgesFollow
<1>6. /\ E(0) = 1 /\ \A i \in 0 .. t - 2 : E(i) \in 1 .. n - 1
      /\ t - 2 \notin low => E(t - 2) = n - 1
      /\ t - 2 \in low => E(t - 2) = n - 2
  BY <1>5 DEF EdgesAscend
<1>7. \E i \in 0 .. t - 1 : kept[i] = s - 1
  <2>1. CASE s = 1
    <3>1. 0 \in 0 .. t - 1 /\ kept[0] = s - 1
      BY <1>1, <1>4, <2>1
    <3> QED BY <3>1
  <2>2. CASE s = n
    <3>1. t - 1 \in 0 .. t - 1 /\ kept[t - 1] = s - 1
      BY <1>1, <1>4, <2>2
    <3> QED BY <3>1
  <2>3. CASE s # 1 /\ s # n
    <3>1. s - 1 \in 1 .. E(t - 2) - 1
      <4> HIDE DEF n, E
      <4>1. s - 1 \in 1 .. n - 2 /\ ~(t - 2 \in low /\ s = n - 1)
        BY <1>1, <2>3 DEF n
      <4> QED BY <1>1, <1>6, <4>1
    <3>2. PICK i \in 0 .. t - 3 : s - 1 \in E(i) .. E(i + 1) - 1
      BY <3>1, BucketHolds
    <3>3. i + 1 \in 1 .. t - 2 /\ (i + 1) - 1 = i /\ i \in 0 .. t - 2 /\ i \in 0 .. t - 1
          /\ i + 1 \in 0 .. t - 1
      BY <1>1
    <3>4. kept[i] \in 0 .. E(i) - 1
      <4> HIDE DEF n, E, kept
      <4>1. CASE i = 0
        BY <1>4, <1>6, <4>1
      <4>2. CASE i # 0
        <5>1. i \in 1 .. t - 2
          BY <1>1, <4>2
        <5>2. kept[i] \in E(i - 1) .. E(i) - 1 /\ E(i) \in Int
          BY <1>4, <1>6, <3>3, <5>1
        <5>3. kept[i] \in Nat
          BY <1>4, <3>3
        <5> QED BY <5>2, <5>3
      <4> QED BY <4>1, <4>2
    <3>5. PickFrom(samples, t, low, i, kept[i]) = s - 1
      BY <3>2, <3>4, SpikePicked
    <3>6. kept[i + 1] = s - 1
      <4> HIDE DEF n, E, kept
      <4> QED BY <1>4, <3>3, <3>5
    <3> QED BY <3>3, <3>6
  <2> QED BY <2>1, <2>2, <2>3
<1> HIDE DEF n, kept, out, E
<1>8. PICK i \in 0 .. t - 1 : kept[i] = s - 1
  BY <1>7
<1>9. i + 1 \in 1 .. t /\ (i + 1) - 1 = i /\ (s - 1) + 1 = s
  BY <1>1
<1>10. out[i + 1] = samples[s]
  BY <1>2, <1>8, <1>9
<1> QED BY <1>2, <1>9, <1>10 DEF Range, out

LEMMA SpikeShown ==
  ASSUME NEW samples, InOrder(samples), \A i \in DOMAIN samples : samples[i].value \in Nat
  PROVE  KeepsSpike(samples)
<1>1. DOMAIN samples = 1 .. Len(samples) /\ Len(samples) \in Nat
  BY DEF InOrder
<1>2. ASSUME NEW spike \in DOMAIN samples,
             \A i, j \in DOMAIN samples \ {spike} : samples[i].value = samples[j].value,
             NEW t \in Asked(samples), NEW low \in Roundings(samples, t)
      PROVE  \/ samples[spike] \in Range(Lttb(samples, t, low))
             \/ \A i \in DOMAIN samples : samples[i].value = samples[spike].value
             \/ t - 2 \in low /\ spike = Len(samples) - 1
  <2>1. CASE t < 3 \/ t >= Len(samples)
    <3>1. Lttb(samples, t, low) = samples
      BY <2>1 DEF Lttb
    <3> QED BY <3>1 DEF Range
  <2>2. CASE ~(t < 3 \/ t >= Len(samples))
    <3>1. SUFFICES ASSUME NEW j \in DOMAIN samples, samples[j].value # samples[spike].value,
                          ~(t - 2 \in low /\ spike = Len(samples) - 1)
                   PROVE  samples[spike] \in Range(Lttb(samples, t, low))
      OBVIOUS
    <3>2. t \in 3 .. Len(samples) - 1
      BY <1>1, <2>2 DEF Asked
    <3>3. Thinned(Len(samples), t, low)
      BY <1>1, <2>2, <3>2 DEF Thinned, Roundings
    <3>4. Lone(samples, spike, samples[j].value)
      BY <1>2, <3>1 DEF Lone
    <3> QED BY <3>1, <3>3, <3>4, SpikeKept
  <2> QED BY <2>1, <2>2
<1> QED BY <1>2 DEF KeepsSpike

(* Every chart of a ring of rates shows a reading that stands out of a     *)
(* flat line, wherever it is in the ring and however few points are asked  *)
(* for.  An exact f64 comparison of areas is assumed (Downsample); rates   *)
(* are not negative.                                                       *)
THEOREM ChartsAlwaysKeepSpike ==
  ASSUME Item \subseteq Nat
  PROVE  Spec => []ChartKeepsSpike
<1>1. IInv => ChartKeepsSpike
  <2> SUFFICES ASSUME IInv PROVE ChartKeepsSpike
    OBVIOUS
  <2>1. \A i \in DOMAIN History : History[i].value \in Nat
    <3>1. ASSUME NEW i \in DOMAIN History PROVE History[i].value \in Nat
      <4>1. i \in 1 .. Len(ToVec) /\ History[i].value = ToVec[i] /\ ToVec \in Seq(Item)
        BY HistoryInOrder
      <4>2. ToVec[i] \in Item
        BY <4>1, ElementOfSeq
      <4> QED BY <4>1, <4>2
    <3> QED BY <3>1
  <2> QED BY <2>1, HistoryInOrder, SpikeShown DEF ChartKeepsSpike
<1> QED BY <1>1, IndicesLegal, PTL
===============================================================================
