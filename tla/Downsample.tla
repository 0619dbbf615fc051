------------------------------ MODULE Downsample ------------------------------
(***************************************************************************)
(* lttb of downsample.rs: of n samples it keeps threshold, the first, the  *)
(* last, and from each of threshold - 2 buckets between them the one that  *)
(* spans the largest triangle with the point kept before it and the mean   *)
(* of the bucket after it.  Indices count from 0 as in the code.           *)
(*                                                                         *)
(* The code computes in f64.  Areas are compared here without the division *)
(* by the (positive) count of the mean, exactly.  A bucket edge, floor of  *)
(* i * every, is exact unless i * (n - 2) / (threshold - 2) is an integer  *)
(* while every is not: the product of the rounded quotient may then fall   *)
(* just short of it.  `low' is the set of the i for which it does.         *)
(***************************************************************************)
EXTENDS Integers, SequencesExt

At(samples, i) == samples[i + 1]

(* The i whose edge the rounding of every may lower by one.                *)
Inexact(n, t) ==
    { i \in 1 .. t - 1 : (n - 2) % (t - 2) # 0 /\ (i * (n - 2)) % (t - 2) = 0 }

EdgeAtZero(n, t, low, i) == (i * (n - 2)) \div (t - 2) - (IF i \in low THEN 1 ELSE 0)

(* (i as f64 * every).floor() as usize + 1: where bucket i begins.         *)
Edge(n, t, low, i) == (i * (n - 2)) \div (t - 2) - (IF i \in low THEN 1 ELSE 0) + 1

AtMost(i, n) == IF i < n THEN i ELSE n

AvgStart(n, t, low, i) == AtMost(Edge(n, t, low, i + 1), n - 1)

AvgEnd(n, t, low, i) == AtMost(Edge(n, t, low, i + 2), n)

(* The samples whose mean is the third corner: never none.                 *)
AvgRange(n, t, low, i) ==
    LET start == AvgStart(n, t, low, i)
        end == AvgEnd(n, t, low, i)
    IN  start .. AtMost(IF end > start THEN end ELSE start + 1, n) - 1

PickRange(n, t, low, i) == Edge(n, t, low, i) .. AtMost(Edge(n, t, low, i + 1), n) - 1

Total(samples, range, field) ==
    SumFunctionOnSet([ i \in range |-> At(samples, i)[field] ], range)

AreaSigned(p, q, sumX, sumY, count) ==
    (p.ts * count - sumX) * (q.value - p.value) - (p.ts - q.ts) * (sumY - p.value * count)

(* Twice the area of the triangle, times count.                            *)
Area(p, q, sumX, sumY, count) ==
    LET signed == AreaSigned(p, q, sumX, sumY, count)
    IN  IF signed < 0 THEN -signed ELSE signed

(* The index kept from bucket i when `last' was kept before it: the first  *)
(* of those with the largest area.                                         *)
PickFrom(samples, t, low, i, last) ==
    LET n == Len(samples)
        next == AvgRange(n, t, low, i)
        sumX == Total(samples, next, "ts")
        sumY == Total(samples, next, "value")
        area == [ j \in PickRange(n, t, low, i) |->
                    Area(At(samples, last), At(samples, j), sumX, sumY, Cardinality(next)) ]
        largest == { j \in DOMAIN area : \A k \in DOMAIN area : area[k] <= area[j] }
    IN  IF largest = {} THEN Edge(n, t, low, i) ELSE Min(largest)

(* The index of every point kept.                                          *)
Kept(samples, t, low) ==
    LET kept[i \in 0 .. t - 1] ==
            IF i = 0 THEN 0
            ELSE IF i = t - 1 THEN Len(samples) - 1
            ELSE PickFrom(samples, t, low, i - 1, kept[i - 1])
    IN  kept

Lttb(samples, t, low) ==
    IF t < 3 \/ t >= Len(samples)
    THEN samples
    ELSE [ i \in 1 .. t |-> At(samples, Kept(samples, t, low)[i - 1]) ]

-------------------------------------------------------------------------------
(* Properties of one history, for every number of points asked of it.      *)

Asked(samples) == 0 .. Len(samples) + 1

Roundings(samples, t) ==
    IF t < 3 THEN {{}} ELSE SUBSET Inexact(Len(samples), t)

(* A short history is answered whole.  A longer one is answered by exactly *)
(* as many points as were asked for, from its first to its last, each a    *)
(* sample and later than the one before: no bucket is empty, none is       *)
(* counted twice and no slice is out of bounds, however every was rounded. *)
KeepsShape(samples) ==
    \A t \in Asked(samples) : \A low \in Roundings(samples, t) :
        LET out == Lttb(samples, t, low)
        IN  IF t < 3 \/ t >= Len(samples)
            THEN out = samples
            ELSE /\ \A i \in 0 .. t - 3 : AvgStart(Len(samples), t, low, i) <=
                                              AvgEnd(Len(samples), t, low, i)
                 /\ out[1] = samples[1] /\ Last(out) = Last(samples)
                 /\ \A i \in 1 .. t : out[i] \in Range(samples)
                 /\ \A i \in 1 .. t - 1 : out[i].ts < out[i + 1].ts

(* A single reading that stands out of a flat line, above or below it, is  *)
(* on the chart whatever its bucket and however few points are asked for,  *)
(* but for the last sample but one when the edge after the last bucket was *)
(* rounded down: then that sample is in no bucket.                         *)
KeepsSpike(samples) ==
    \A spike \in DOMAIN samples :
        (\A i, j \in DOMAIN samples \ {spike} : samples[i].value = samples[j].value) =>
            \A t \in Asked(samples) : \A low \in Roundings(samples, t) :
                \/ samples[spike] \in Range(Lttb(samples, t, low))
                \/ \A i \in DOMAIN samples : samples[i].value = samples[spike].value
                \/ t - 2 \in low /\ spike = Len(samples) - 1
===============================================================================
