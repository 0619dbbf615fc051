-------------------------------- MODULE Tables --------------------------------
(***************************************************************************)
(* The SQL that db.rs runs, as operators on tables.  A table is a function *)
(* from its primary key, a record with the bucket start ts in it, to the   *)
(* set of samples or queries the row sums.                                 *)
(***************************************************************************)
EXTENDS Integers

EmptyTable == [k \in {} |-> {}]

(* INSERT OR REPLACE of a set of rows, given as a function from keys.      *)
InsertOrReplace(table, rows) ==
    [ k \in DOMAIN table \cup DOMAIN rows |-> IF k \in DOMAIN rows THEN rows[k] ELSE table[k] ]

(* ts - (ts % bucket) *)
BucketUp(ts, n) == ts - (ts % n) + n

Bucket(ts, n) == ts - (ts % n)

BucketKey(k, n) == [ts |-> Bucket(k.ts, n), id |-> k.id]

(* SELECT .. GROUP BY ts - (ts % n), client                                *)
RolledUp(src, n) ==
    [ b \in { BucketKey(k, n) : k \in DOMAIN src } |->
        UNION { src[k] : k \in { j \in DOMAIN src : BucketKey(j, n) = b } } ]

(* DELETE .. WHERE ts < cutoff *)
Pruned(table, cutoff) ==
    [ k \in { j \in DOMAIN table : j.ts >= cutoff } |-> table[k] ]
===============================================================================
