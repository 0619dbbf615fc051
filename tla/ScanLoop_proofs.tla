---------------------------- MODULE ScanLoop_proofs ----------------------------
(***************************************************************************)
(* Types and safety of the scan loop for every value of the constants:     *)
(* rows sum the readings of their own bucket, a written minute never       *)
(* changes, nothing recorded vanishes, nothing is pruned before it is      *)
(* summarised, the books balance, no second is counted twice and every row *)
(* is of a known client.                                                   *)
(***************************************************************************)
EXTENDS ScanLoop, FiniteSetTheorems, SequenceTheorems, TLAPS

-------------------------------------------------------------------------------
(* Sequences and rings.                                                    *)

(* Listing a finite set in some order gives a sequence of its elements.    *)
LEMMA SetToSeqType ==
  ASSUME NEW T, NEW S \in SUBSET T, IsFiniteSet(S)
  PROVE  SetToSeq(S) \in Seq(T)
<1>1. Cardinality(S) \in Nat /\ ExistsBijection(1 .. Cardinality(S), S)
  BY FS_CardinalityType
<1>2. PICK f : f \in Bijection(1 .. Cardinality(S), S)
  BY <1>1 DEF ExistsBijection
<1>3. f \in [1 .. Cardinality(S) -> S] /\ IsInjective(f)
  BY <1>2 DEF Bijection, Injection, IsInjective
<1>4. SetToSeq(S) \in [1 .. Cardinality(S) -> S]
  BY <1>3 DEF SetToSeq
<1>5. SetToSeq(S) \in Seq(S)
  BY <1>1, <1>4
<1> QED BY <1>5, SeqMonotonic

(* A push keeps the newest part of what there was and what is added.       *)
LEMMA PushedType ==
  ASSUME NEW T, NEW ring \in Seq(T), NEW items \in Seq(T), NEW c \in Nat
  PROVE  Pushed(ring, items, c) \in Seq(T)
<1> DEFINE all == ring \o items
           from == IF Len(all) > c THEN Len(all) - c + 1 ELSE 1
<1>1. all \in Seq(T)
  BY ConcatProperties
<1>2. Len(all) \in Nat /\ \A i \in 1 .. Len(all) : all[i] \in T
  BY <1>1, LenProperties, ElementOfSeq
<1> HIDE DEF all
<1>3. from \in Int /\ from >= 1
  BY <1>2
<1> HIDE DEF from
<1>4. \A i \in from .. Len(all) : all[i] \in T
  BY <1>2, <1>3
<1>5. SubSeq(all, from, Len(all)) \in Seq(T)
  BY <1>2, <1>3, <1>4, SubSeqProperties
<1> QED BY <1>5 DEF Pushed, all, from

-------------------------------------------------------------------------------
(* The scan.                                                               *)

LEMMA ClockIsNat ==
  ASSUME now \in Nat, NEW t \in ClockReadings
  PROVE  t \in Nat
BY ScanLoopAssumption DEF ClockReadings

LEMMA MinuteIsNat ==
  ASSUME NEW t \in Nat
  PROVE  t \div Minute \in Nat
BY RecorderAssumption

LEMMA ViewsType ==
  ASSUME NEW ips \in SUBSET Ip, NEW names \in NameTables
  PROVE  Views(ips, names) \subseteq View
<1>1. names \in [Ip -> Id]
  BY ScanLoopAssumption
<1> QED BY <1>1 DEF Views, View

LEMMA ReadingsType ==
  ASSUME TypeOK, NEW views \in SUBSET View, NEW t \in Nat, ticks < MaxTicks
  PROVE  Readings(views, t) \subseteq Sample
<1>1. ticks + 1 \in 1 .. MaxTicks
  BY ScanLoopAssumption DEF TypeOK
<1>2. Interval(t) \in Nat
  BY DEF TypeOK, Interval, NoTime
<1>3. ASSUME NEW v \in views PROVE Reading(v, ticks + 1, t) \in Sample
  BY <1>1, <1>2 DEF Reading, Sample, View
<1> QED BY <1>3 DEF Readings

LEMMA ReadingsFinite ==
  ASSUME NEW ips \in SUBSET Ip, NEW names, NEW t
  PROVE  IsFiniteSet(Readings(Views(ips, names), t))
<1> DEFINE f == [ ip \in ips |-> Reading([mac |-> names[ip], ip |-> ip], ticks + 1, t) ]
           R == Readings(Views(ips, names), t)
<1>1. IsFiniteSet(ips)
  BY ScanLoopAssumption, FS_Subset
<1>2. f \in Surjection(ips, R)
  BY DEF Surjection, Readings, Views
<1> QED BY <1>1, <1>2, FS_Surjection

LEMMA SeriesOfType ==
  ASSUME TypeOK, NEW id \in Id, NEW minute \in Nat
  PROVE  SeriesOf(id, minute) \in Series
BY DEF TypeOK, PartialFunction, SeriesOf, Series

LEMMA AggregatedType ==
  ASSUME NEW id \in Id, NEW s \in Series
  PROVE  Aggregated(id, s) \in Row
BY RecorderAssumption DEF Aggregated, Row, Series

LEMMA AfterRecordType ==
  ASSUME TypeOK, NEW id \in Id, NEW minute \in Nat, NEW new \in SUBSET Sample,
         IsFiniteSet(new)
  PROVE  AfterRecord(id, new, minute) \in Series
<1> DEFINE s == SeriesOf(id, minute)
<1>1. s \in Series
  BY SeriesOfType
<1>2. /\ s.realtime \in Seq(Sample) /\ s.minutes \in Seq(Row)
      /\ s.cur_samples \in SUBSET Sample
  BY <1>1 DEF Series
<1>3. Pushed(s.realtime, SetToSeq(new), RealtimeCap) \in Seq(Sample)
  BY <1>2, SetToSeqType, PushedType, RecorderAssumption
<1>4. Pushed(s.minutes, << Aggregated(id, s) >>, MinuteCap) \in Seq(Row)
  <2>1. << Aggregated(id, s) >> \in Seq(Row)
    BY <1>1, AggregatedType
  <2> QED BY <1>2, <2>1, PushedType, RecorderAssumption
<1>5. OpenMinute(s, new, minute) \in SUBSET Sample
  BY <1>2 DEF OpenMinute
<1> HIDE DEF s
<1> QED BY <1>2, <1>3, <1>4, <1>5 DEF AfterRecord, Series, s

LEMMA FinalizedType ==
  ASSUME TypeOK, NEW views, NEW minute
  PROVE  Finalized(views, minute) \subseteq Row
<1>1. ASSUME NEW id \in DOMAIN series PROVE Aggregated(id, series[id]) \in Row
  BY AggregatedType DEF TypeOK, PartialFunction
<1> QED BY <1>1 DEF Finalized

LEMMA RecordType ==
  ASSUME TypeOK, NEW views \in SUBSET View, NEW readings \in SUBSET Sample,
         IsFiniteSet(readings), NEW t \in Nat, Record(views, readings, t)
  PROVE  PartialFunction(series', Id, Series) /\ last_ts' \in Nat \cup {NoTime}
<1> DEFINE D == DOMAIN series \cup Viewed(views)
           of(id) == { r \in readings : r.id = id }
<1>1. Viewed(views) \subseteq Id
  BY DEF Viewed, View
<1>2. D \subseteq Id
  BY <1>1 DEF TypeOK, PartialFunction
<1>3. ASSUME NEW id \in Viewed(views)
      PROVE  AfterRecord(id, of(id), t \div Minute) \in Series
  <2>1. of(id) \in SUBSET Sample /\ IsFiniteSet(of(id))
    BY FS_Subset
  <2> QED BY <1>1, <2>1, MinuteIsNat, AfterRecordType
<1>4. ASSUME NEW id \in D \ Viewed(views)
      PROVE  series[id] \in Series
  BY <1>4 DEF TypeOK, PartialFunction
<1>5. series' = [ id \in D |-> IF id \in Viewed(views)
                               THEN AfterRecord(id, of(id), t \div Minute)
                               ELSE series[id] ]
  BY DEF Record
<1> HIDE DEF of
<1>6. series' \in [D -> Series] /\ DOMAIN series' = D
  BY <1>3, <1>4, <1>5
<1> QED BY <1>2, <1>6 DEF PartialFunction, Record

-------------------------------------------------------------------------------
(* The statements of the store.                                            *)

LEMMA InsertOrReplaceType ==
  ASSUME NEW table, NEW rows, Table(table), Table(rows)
  PROVE  Table(InsertOrReplace(table, rows))
BY DEF Table, PartialFunction, InsertOrReplace

LEMMA BucketIsNat ==
  ASSUME NEW ts \in Nat, NEW n \in Nat \ {0}
  PROVE  Bucket(ts, n) \in Nat /\ Bucket(ts, n) <= ts
<1>1. ts % n \in 0 .. n - 1 /\ ts = n * (ts \div n) + (ts % n) /\ ts \div n \in Nat
  OBVIOUS
<1>2. n * (ts \div n) \in Nat
  BY <1>1
<1>3. ts % n <= ts
  BY <1>1, <1>2
<1> QED BY <1>1, <1>3 DEF Bucket

LEMMA RolledUpType ==
  ASSUME NEW src, Table(src), NEW n \in Nat \ {0}
  PROVE  Table(RolledUp(src, n))
<1>1. ASSUME NEW k \in DOMAIN src PROVE BucketKey(k, n) \in Key
  <2>1. k.ts \in Nat /\ k.id \in Id
    BY DEF Table, PartialFunction, Key
  <2> QED BY <2>1, BucketIsNat DEF BucketKey, Key
<1>2. ASSUME NEW k \in DOMAIN src PROVE src[k] \subseteq Sample
  BY DEF Table, PartialFunction
<1> QED BY <1>1, <1>2 DEF RolledUp, Table, PartialFunction

LEMMA PrunedType ==
  ASSUME NEW table, Table(table), NEW cutoff
  PROVE  Table(Pruned(table, cutoff))
BY DEF Table, PartialFunction, Pruned

-------------------------------------------------------------------------------
LEMMA InitTypeOK == Init => TypeOK
<1> SUFFICES ASSUME Init PROVE TypeOK
  OBVIOUS
<1>1. /\ PartialFunction(series, Id, Series) /\ last_ts \in Nat \cup {NoTime}
      /\ Table(samples_min) /\ Table(samples_hour) /\ Table(samples_day)
      /\ PartialFunction(clients, Id, Client)
  BY DEF Init, RecorderInit, StoreInit, PartialFunction, Table, EmptyTable
<1>2. /\ now \in Nat /\ ticks \in 0 .. MaxTicks /\ crashes \in 0 .. MaxCrashes
      /\ failures \in 0 .. MaxFailures
  BY ScanLoopAssumption DEF Init
<1> QED BY <1>1, <1>2 DEF Init, TypeOK

LEMMA TickTypeOK ==
  ASSUME TypeOK, NEW t \in ClockReadings, NEW new \in SUBSET Ip,
         NEW names \in NameTables, Tick(t, new, names)
  PROVE  TypeOK'
<1> DEFINE views == Views(seen \cup new, names)
           readings == Readings(views, t)
<1>1. t \in Nat
  BY ClockIsNat DEF TypeOK
<1>2. seen \cup new \in SUBSET Ip
  BY DEF TypeOK
<1>3. views \in SUBSET View
  BY <1>2, ViewsType
<1>4. readings \in SUBSET Sample
  BY <1>1, <1>3, ReadingsType DEF Tick
<1>5. IsFiniteSet(readings)
  BY <1>2, ReadingsFinite
<1>6. Record(views, readings, t)
  BY DEF Tick
<1> HIDE DEF readings
<1>7. PartialFunction(series', Id, Series) /\ last_ts' \in Nat \cup {NoTime}
  BY <1>1, <1>3, <1>4, <1>5, <1>6, RecordType
<1>8. Finalized(views, t \div Minute) \subseteq Row
  BY FinalizedType
<1>9. recorded' = recorded \cup readings
  BY DEF Tick, readings
<1>10. ticks' \in 0 .. MaxTicks
  BY ScanLoopAssumption DEF Tick, TypeOK
<1> QED BY <1>1, <1>2, <1>3, <1>4, <1>7, <1>8, <1>9, <1>10
        DEF Tick, TypeOK, storeVars, Table, PartialFunction

LEMMA FailuresBounded ==
  ASSUME TypeOK, StatementFails
  PROVE  failures' \in 0 .. MaxFailures
BY ScanLoopAssumption DEF TypeOK, StatementFails

LEMMA SaveTypeOK ==
  ASSUME TypeOK, Save
  PROVE  TypeOK'
<1>1. ASSUME NEW row \in pending, InsertRow(row) PROVE TypeOK'
  <2> DEFINE one == [ k \in {[ts |-> row.ts, id |-> row.id]} |-> row.of ]
  <2>1. row \in Row
    BY DEF TypeOK
  <2>2. Table(one)
    BY <2>1 DEF Table, PartialFunction, Key, Row
  <2>3. samples_min' = InsertOrReplace(samples_min, one)
    BY <1>1 DEF InsertRow, InsertMinute
  <2> HIDE DEF one
  <2>4. Table(samples_min')
    BY <2>2, <2>3, InsertOrReplaceType DEF TypeOK
  <2> QED BY <1>1, <2>4 DEF InsertRow, InsertMinute, TypeOK, recorderVars, history,
                            Table, PartialFunction
<1>2. ASSUME NEW row \in pending, InsertRowFails(row) PROVE TypeOK'
  BY <1>2, FailuresBounded DEF InsertRowFails, TypeOK, recorderVars, storeVars, Table, PartialFunction, Row
<1>3. ASSUME NEW view \in todo, Upsert(view) PROVE TypeOK'
  <2>1. view.mac \in Id /\ view.ip \in Ip
    BY DEF TypeOK, View
  <2>2. UpsertClient(view.mac, view.ip, now) /\ now \in Nat
    BY <1>3 DEF Upsert, TypeOK
  <2>3. PartialFunction(clients', Id, Client)
    BY <2>1, <2>2 DEF UpsertClient, TypeOK, PartialFunction, Client
  <2> QED BY <1>3, <2>3 DEF Upsert, UpsertClient, TypeOK, recorderVars, history,
                            Table, PartialFunction
<1>4. ASSUME NEW view \in todo, UpsertFails(view) PROVE TypeOK'
  BY <1>4, FailuresBounded DEF UpsertFails, TypeOK, recorderVars, storeVars, history, Table, PartialFunction
<1>5. CASE Saved
  BY <1>5 DEF Saved, GoTo, TypeOK, recorderVars, storeVars, history, Table, PartialFunction
<1> QED BY <1>1, <1>2, <1>3, <1>4, <1>5 DEF Save

LEMMA MaintainTypeOK ==
  ASSUME TypeOK, Maintain
  PROVE  TypeOK'
<1> USE StoreAssumption DEF GoTo, recorderVars, history
<1>1. CASE RollupHour
  <2>1. Table(samples_hour')
    BY <1>1, RolledUpType, InsertOrReplaceType DEF RollupHour, RollupMinToHour, TypeOK
  <2> QED BY <1>1, <2>1 DEF RollupHour, RollupMinToHour, TypeOK, Table, PartialFunction
<1>2. CASE RollupDay
  <2>1. Table(samples_day')
    BY <1>2, RolledUpType, InsertOrReplaceType DEF RollupDay, RollupHourToDay, TypeOK
  <2> QED BY <1>2, <2>1 DEF RollupDay, RollupHourToDay, TypeOK, Table, PartialFunction
<1>3. CASE RollupFails
  BY <1>3, FailuresBounded DEF RollupFails, storeVars, TypeOK, Table, PartialFunction
<1>4. CASE PruneMin
  <2>1. Table(samples_min')
    BY <1>4, PrunedType DEF PruneMin, DeleteMin, TypeOK
  <2> QED BY <1>4, <2>1 DEF PruneMin, DeleteMin, TypeOK, Table, PartialFunction
<1>5. CASE PruneHour
  <2>1. Table(samples_hour')
    BY <1>5, PrunedType DEF PruneHour, DeleteHour, TypeOK
  <2> QED BY <1>5, <2>1 DEF PruneHour, DeleteHour, TypeOK, Table, PartialFunction
<1>6. CASE PruneDay
  <2>1. Table(samples_day')
    BY <1>6, PrunedType DEF PruneDay, DeleteDay, TypeOK
  <2> QED BY <1>6, <2>1 DEF PruneDay, DeleteDay, TypeOK, Table, PartialFunction
<1>7. CASE PruneFails
  BY <1>7, FailuresBounded DEF PruneFails, storeVars, TypeOK, Table, PartialFunction
<1> QED BY <1>1, <1>2, <1>3, <1>4, <1>5, <1>6, <1>7 DEF Maintain

LEMMA RestTypeOK ==
  ASSUME TypeOK, Publish \/ Crash \/ Restart \/ UNCHANGED vars
  PROVE  TypeOK'
<1>1. CASE Publish
  BY <1>1 DEF Publish, recorderVars, storeVars, history, TypeOK, Table, PartialFunction
<1>2. CASE Crash
  <2>1. Held \subseteq Sample
    BY DEF Held, TypeOK, PartialFunction, Series
  <2>2. Awaiting \subseteq Sample
    BY DEF Awaiting, TypeOK, Row
  <2> QED BY <1>2, <2>1, <2>2, ScanLoopAssumption
          DEF Crash, storeVars, TypeOK, Table, PartialFunction
<1>3. CASE Restart
  BY <1>3 DEF Restart, recorderVars, storeVars, history, TypeOK, Table, PartialFunction
<1>4. CASE UNCHANGED vars
  BY <1>4 DEF vars, recorderVars, storeVars, loopVars, history, TypeOK, Table, PartialFunction
<1> QED BY <1>1, <1>2, <1>3, <1>4

LEMMA NextTypeOK == TypeOK /\ [Next]_vars => TypeOK'
BY TickTypeOK, SaveTypeOK, MaintainTypeOK, RestTypeOK DEF Next, Scan

(* Every variable of the loop, the recorder and the database keeps its     *)
(* type: rows stay rows, the scan counter stays within its bound, and no   *)
(* statement meets a value it cannot handle, for any constants.            *)
THEOREM TypeCorrect == Spec => []TypeOK
<1> QED BY InitTypeOK, NextTypeOK, PTL DEF Spec

-------------------------------------------------------------------------------
(* Division by a bucket size.                                              *)

LEMMA DivMod ==
  ASSUME NEW t \in Nat, NEW n \in Nat \ {0}
  PROVE  t \div n \in Nat /\ t % n \in 0 .. n - 1 /\ t = n * (t \div n) + (t % n)
OBVIOUS

LEMMA BucketIsMultiple ==
  ASSUME NEW t \in Nat, NEW n \in Nat \ {0}
  PROVE  Bucket(t, n) = (t \div n) * n
BY DivMod DEF Bucket

LEMMA TimesMonotone ==
  ASSUME NEW p \in Nat, NEW q \in Nat, NEW n \in Nat \ {0}
  PROVE  /\ p < q => p * n < q * n
         /\ p <= q => p * n <= q * n
<1>1. CASE p <= q
  <2>1. PICK d \in Nat : q = p + d
    <3>1. q - p \in Nat /\ q = p + (q - p)
      BY <1>1
    <3> QED BY <3>1
  <2>2. q * n = p * n + d * n
    BY <2>1
  <2>3. d * n \in Nat /\ (d > 0 => d * n > 0)
    BY <2>1
  <2>4. p * n \in Nat
    OBVIOUS
  <2> QED BY <2>1, <2>2, <2>3, <2>4
<1> QED BY <1>1

LEMMA DivUnique ==
  ASSUME NEW t \in Nat, NEW n \in Nat \ {0}, NEW q \in Nat, NEW r \in 0 .. n - 1,
         t = n * q + r
  PROVE  t \div n = q
<1> DEFINE p == t \div n
<1>1. p \in Nat /\ t % n \in 0 .. n - 1 /\ t = n * p + (t % n)
  BY DivMod
<1> HIDE DEF p
<1>2. ~(p < q)
  <2> SUFFICES ASSUME p < q PROVE FALSE
    OBVIOUS
  <2>1. (p + 1) * n <= q * n
    BY <1>1, TimesMonotone
  <2>2. (p + 1) * n = n * p + n /\ q * n = n * q
    BY <1>1
  <2>3. n * p \in Nat /\ n * q \in Nat
    BY <1>1
  <2> QED BY <1>1, <2>1, <2>2, <2>3
<1>3. ~(q < p)
  <2> SUFFICES ASSUME q < p PROVE FALSE
    OBVIOUS
  <2>1. (q + 1) * n <= p * n
    BY <1>1, TimesMonotone
  <2>2. (q + 1) * n = n * q + n /\ p * n = n * p
    BY <1>1
  <2>3. n * p \in Nat /\ n * q \in Nat
    BY <1>1
  <2> QED BY <1>1, <2>1, <2>2, <2>3
<1> QED BY <1>1, <1>2, <1>3 DEF p

LEMMA DivMonotone ==
  ASSUME NEW s \in Nat, NEW t \in Nat, NEW n \in Nat \ {0}, s <= t
  PROVE  s \div n <= t \div n
<1> DEFINE p == s \div n
           q == t \div n
<1>1. p \in Nat /\ s % n \in 0 .. n - 1 /\ s = n * p + (s % n)
  BY DivMod
<1>2. q \in Nat /\ t % n \in 0 .. n - 1 /\ t = n * q + (t % n)
  BY DivMod
<1> HIDE DEF p, q
<1> SUFFICES ASSUME q < p PROVE FALSE
  BY <1>1, <1>2 DEF p, q
<1>3. (q + 1) * n <= p * n
  BY <1>1, <1>2, TimesMonotone
<1>4. (q + 1) * n = n * q + n /\ p * n = n * p /\ n * p \in Nat /\ n * q \in Nat
  BY <1>1, <1>2
<1> QED BY <1>1, <1>2, <1>3, <1>4

(* Buckets nest: the hour of a minute's start is the hour of any reading   *)
(* in that minute, because the larger size is a multiple of the smaller.   *)
LEMMA BucketNested ==
  ASSUME NEW t \in Nat, NEW n \in Nat \ {0}, NEW m \in Nat \ {0}, m % n = 0
  PROVE  Bucket(Bucket(t, n), m) = Bucket(t, m)
<1> DEFINE k == m \div n
           q == t \div n
           c == q \div k
           d == q % k
           r == t % n
<1>1. k \in Nat /\ m = n * k /\ k # 0
  <2>1. k \in Nat /\ m = n * k + 0
    BY DivMod
  <2> QED BY <2>1
<1>2. q \in Nat /\ r \in 0 .. n - 1 /\ t = n * q + r
  BY DivMod
<1> HIDE DEF k, q, r
<1>3. c \in Nat /\ d \in 0 .. k - 1 /\ q = k * c + d
  BY <1>1, <1>2, DivMod
<1> HIDE DEF c, d
<1>4. n * q = m * c + n * d
  <2>1. n * q = n * (k * c) + n * d
    BY <1>1, <1>2, <1>3
  <2>2. n * (k * c) = (n * k) * c
    BY <1>1, <1>3
  <2> QED BY <1>1, <2>1, <2>2
<1>5. n * d \in Nat /\ n * d + n <= m
  <2>1. (d + 1) * n <= k * n
    BY <1>1, <1>3, TimesMonotone
  <2>2. (d + 1) * n = n * d + n /\ k * n = m /\ n * d \in Nat
    BY <1>1, <1>3
  <2> QED BY <2>1, <2>2
<1>6. t \div m = c
  <2>1. n * d + r \in 0 .. m - 1 /\ t = m * c + (n * d + r)
    BY <1>1, <1>2, <1>3, <1>4, <1>5
  <2> QED BY <1>3, <2>1, DivUnique
<1>7. Bucket(t, n) = n * q
  <2>1. Bucket(t, n) = q * n
    BY BucketIsMultiple DEF q
  <2> QED BY <1>2, <2>1
<1>8. (n * q) \div m = c
  <2>1. n * d \in 0 .. m - 1 /\ n * q = m * c + n * d /\ n * q \in Nat
    BY <1>2, <1>4, <1>5
  <2> QED BY <1>3, <2>1, DivUnique
<1>9. n * q \in Nat
  BY <1>2
<1>10. Bucket(n * q, m) = c * m /\ Bucket(t, m) = c * m
  BY <1>6, <1>8, <1>9, BucketIsMultiple
<1> QED BY <1>7, <1>10

-------------------------------------------------------------------------------
(* Rows sum the readings of their own bucket.                              *)

LEMMA InitRowsInv == Init => RowsInv
BY DEF Init, RecorderInit, StoreInit, EmptyTable, RowsInv, OpenMatches, PendingMatches,
       RowsMatchBuckets, RowsMatch

(* After record, the open minute of a viewed client holds readings of that *)
(* client and of the minute it is numbered with.                           *)
LEMMA RecordOpenMatches ==
  ASSUME TypeOK, OpenMatches, NEW views \in SUBSET View, NEW readings,
         NEW t \in Nat, \A r \in readings : r.ts = t,
         Record(views, readings, t)
  PROVE  OpenMatches'
<1> DEFINE minute == t \div Minute
           new(id) == { r \in readings : r.id = id }
<1>1. DOMAIN series' = DOMAIN series \cup Viewed(views)
  BY DEF Record
<1>2. ASSUME NEW id \in Viewed(views), NEW s \in series'[id].cur_samples
      PROVE  s.id = id /\ s.ts \div Minute = series'[id].cur_minute
  <2>1. series'[id] = AfterRecord(id, new(id), minute)
    BY <1>1 DEF Record
  <2> HIDE DEF new
  <2>2. /\ series'[id].cur_minute = minute
        /\ s \in OpenMinute(SeriesOf(id, minute), new(id), minute)
    BY <2>1 DEF AfterRecord
  <2>3. CASE s \in new(id)
    BY <2>2, <2>3 DEF new
  <2>4. CASE s \notin new(id)
    <3>1. /\ ~RollsOver(SeriesOf(id, minute), minute)
          /\ s \in SeriesOf(id, minute).cur_samples
      BY <2>2, <2>4 DEF OpenMinute
    <3>2. id \in DOMAIN series /\ SeriesOf(id, minute) = series[id]
      BY <3>1 DEF SeriesOf
    <3>3. series[id].cur_minute = minute
      BY <3>1, <3>2 DEF RollsOver
    <3> QED BY <2>2, <3>1, <3>2, <3>3 DEF OpenMatches
  <2> QED BY <2>3, <2>4
<1>3. ASSUME NEW id \in DOMAIN series \ Viewed(views)
      PROVE  series'[id] = series[id]
  BY DEF Record
<1> QED BY <1>1, <1>2, <1>3 DEF OpenMatches

LEMMA FinalizedMatches ==
  ASSUME TypeOK, OpenMatches, NEW views, NEW minute, NEW row \in Finalized(views, minute)
  PROVE  /\ row.of # {}
         /\ \A s \in row.of : s.id = row.id /\ Bucket(s.ts, Minute) = row.ts
<1>1. PICK id \in DOMAIN series : /\ RollsOver(series[id], minute)
                                 /\ row = Aggregated(id, series[id])
  BY DEF Finalized
<1>2. /\ row.of = series[id].cur_samples
      /\ row.id = id
      /\ row.ts = series[id].cur_minute * Minute
  BY <1>1 DEF Aggregated
<1>3. ASSUME NEW s \in series[id].cur_samples
      PROVE  s.id = id /\ Bucket(s.ts, Minute) = series[id].cur_minute * Minute
  <2>1. s \in Sample
    BY DEF TypeOK, PartialFunction, Series
  <2>2. s.ts \in Nat /\ s.id = id /\ s.ts \div Minute = series[id].cur_minute
    BY <2>1 DEF OpenMatches, Sample
  <2> QED BY <2>2, BucketIsMultiple, RecorderAssumption
<1> QED BY <1>1, <1>2, <1>3 DEF RollsOver

LEMMA TickRowsInv ==
  ASSUME TypeOK, RowsInv, NEW t \in ClockReadings, NEW new \in SUBSET Ip,
         NEW names \in NameTables, Tick(t, new, names)
  PROVE  RowsInv'
<1> DEFINE views == Views(seen \cup new, names)
<1>1. t \in Nat /\ views \in SUBSET View
  BY ClockIsNat, ViewsType DEF TypeOK
<1>2. \A r \in Readings(views, t) : r.ts = t
  BY DEF Readings, Reading
<1>3. Record(views, Readings(views, t), t)
  BY DEF Tick
<1>4. OpenMatches'
  BY <1>1, <1>2, <1>3, RecordOpenMatches DEF RowsInv
<1>5. PendingMatches'
  BY FinalizedMatches DEF RowsInv, PendingMatches, Tick
<1>6. RowsMatchBuckets'
  BY DEF Tick, storeVars, RowsInv, RowsMatchBuckets, RowsMatch
<1> QED BY <1>4, <1>5, <1>6 DEF RowsInv

(* Regrouping keeps every reading in its own, larger, bucket.              *)
LEMMA RolledUpMatches ==
  ASSUME NEW src, Table(src), NEW n \in Nat \ {0}, NEW m \in Nat \ {0}, m % n = 0,
         RowsMatch(src, n)
  PROVE  RowsMatch(RolledUp(src, m), m)
<1> DEFINE dst == RolledUp(src, m)
           from(b) == { j \in DOMAIN src : BucketKey(j, m) = b }
<1> SUFFICES ASSUME NEW b \in DOMAIN dst
             PROVE  /\ dst[b] # {}
                    /\ \A s \in dst[b] : s.id = b.id /\ Bucket(s.ts, m) = b.ts
  BY DEF RowsMatch
<1>1. /\ DOMAIN dst = { BucketKey(k, m) : k \in DOMAIN src }
      /\ dst[b] = UNION { src[k] : k \in from(b) }
  BY DEF RolledUp
<1>2. PICK k \in from(b) : TRUE
  BY <1>1
<1>3. dst[b] # {}
  BY <1>1, <1>2 DEF RowsMatch
<1>4. ASSUME NEW j \in from(b), NEW s \in src[j]
      PROVE  s.id = b.id /\ Bucket(s.ts, m) = b.ts
  <2>1. s \in Sample /\ s.ts \in Nat
    BY DEF Table, PartialFunction, Sample
  <2>2. s.id = j.id /\ Bucket(s.ts, n) = j.ts
    BY DEF RowsMatch
  <2>3. b.ts = Bucket(j.ts, m) /\ b.id = j.id
    BY DEF BucketKey
  <2>4. Bucket(Bucket(s.ts, n), m) = Bucket(s.ts, m)
    BY <2>1, BucketNested
  <2> QED BY <2>2, <2>3, <2>4
<1> QED BY <1>1, <1>3, <1>4

LEMMA InsertedMatches ==
  ASSUME NEW table, NEW rows, NEW n, RowsMatch(table, n), RowsMatch(rows, n)
  PROVE  RowsMatch(InsertOrReplace(table, rows), n)
BY DEF RowsMatch, InsertOrReplace

LEMMA PrunedMatches ==
  ASSUME NEW table, NEW cutoff, NEW n, RowsMatch(table, n)
  PROVE  RowsMatch(Pruned(table, cutoff), n)
BY DEF RowsMatch, Pruned

LEMMA InsertRowRowsInv ==
  ASSUME TypeOK, RowsInv, NEW row \in pending, InsertRow(row)
  PROVE  RowsInv'
<1> DEFINE one == [ k \in {[ts |-> row.ts, id |-> row.id]} |-> row.of ]
<1>1. RowsMatch(one, Minute)
  BY DEF RowsMatch, RowsInv, PendingMatches
<1>2. samples_min' = InsertOrReplace(samples_min, one)
  BY DEF InsertRow, InsertMinute
<1> HIDE DEF one
<1>3. RowsMatch(samples_min, Minute)'
  BY <1>1, <1>2, InsertedMatches DEF RowsInv, RowsMatchBuckets
<1>4. RowsMatch(samples_hour, Hour)' /\ RowsMatch(samples_day, Day)'
  BY DEF InsertRow, InsertMinute, RowsInv, RowsMatchBuckets, RowsMatch
<1>5. OpenMatches' /\ PendingMatches'
  BY DEF InsertRow, recorderVars, RowsInv, OpenMatches, PendingMatches
<1> QED BY <1>3, <1>4, <1>5 DEF RowsInv, RowsMatchBuckets

LEMMA SaveRowsInv ==
  ASSUME TypeOK, RowsInv, Save
  PROVE  RowsInv'
<1> USE DEF RowsInv, OpenMatches, PendingMatches, RowsMatchBuckets, RowsMatch
<1>1. ASSUME NEW row \in pending, InsertRowFails(row) PROVE RowsInv'
  BY <1>1 DEF InsertRowFails, recorderVars, storeVars
<1>2. ASSUME NEW view \in todo, Upsert(view) PROVE RowsInv'
  BY <1>2 DEF Upsert, UpsertClient, recorderVars
<1>3. ASSUME NEW view \in todo, UpsertFails(view) PROVE RowsInv'
  BY <1>3 DEF UpsertFails, recorderVars, storeVars
<1>4. CASE Saved
  BY <1>4 DEF Saved, GoTo, recorderVars, storeVars
<1> QED BY <1>1, <1>2, <1>3, <1>4, InsertRowRowsInv DEF Save

LEMMA MaintainRowsInv ==
  ASSUME TypeOK, RowsInv, Maintain
  PROVE  RowsInv'
<1>1. OpenMatches' /\ PendingMatches'
  BY DEF Maintain, RollupHour, RollupDay, RollupFails, PruneMin, PruneHour, PruneDay,
         PruneFails, GoTo, recorderVars, RowsInv, OpenMatches, PendingMatches
<1>2. RowsMatch(samples_min, Minute) /\ RowsMatch(samples_hour, Hour) /\ RowsMatch(samples_day, Day)
  BY DEF RowsInv, RowsMatchBuckets
<1>3. Table(samples_min) /\ Table(samples_hour)
  BY DEF TypeOK
<1>4. RowsMatch(RolledUp(samples_min, Hour), Hour)
  BY <1>2, <1>3, RolledUpMatches, RecorderAssumption, StoreAssumption, ScanLoopAssumption
<1>5. RowsMatch(RolledUp(samples_hour, Day), Day)
  BY <1>2, <1>3, RolledUpMatches, StoreAssumption
<1>6. RowsMatch(samples_min', Minute)
  BY <1>2, PrunedMatches
     DEF Maintain, RollupHour, RollupDay, RollupFails, PruneMin, PruneHour, PruneDay,
         PruneFails, RollupMinToHour, RollupHourToDay, DeleteMin, DeleteHour, DeleteDay,
         storeVars
<1>7. RowsMatch(samples_hour', Hour)
  BY <1>2, <1>4, PrunedMatches, InsertedMatches
     DEF Maintain, RollupHour, RollupDay, RollupFails, PruneMin, PruneHour, PruneDay,
         PruneFails, RollupMinToHour, RollupHourToDay, DeleteMin, DeleteHour, DeleteDay,
         storeVars
<1>8. RowsMatch(samples_day', Day)
  BY <1>2, <1>5, PrunedMatches, InsertedMatches
     DEF Maintain, RollupHour, RollupDay, RollupFails, PruneMin, PruneHour, PruneDay,
         PruneFails, RollupMinToHour, RollupHourToDay, DeleteMin, DeleteHour, DeleteDay,
         storeVars
<1> QED BY <1>1, <1>6, <1>7, <1>8 DEF RowsInv, RowsMatchBuckets

LEMMA RestRowsInv ==
  ASSUME RowsInv, Publish \/ Crash \/ Restart \/ UNCHANGED vars
  PROVE  RowsInv'
<1> USE DEF RowsInv, OpenMatches, PendingMatches, RowsMatchBuckets, RowsMatch
<1>1. CASE Publish
  BY <1>1 DEF Publish, recorderVars, storeVars
<1>2. CASE Crash
  BY <1>2 DEF Crash, storeVars
<1>3. CASE Restart
  BY <1>3 DEF Restart, recorderVars, storeVars
<1>4. CASE UNCHANGED vars
  BY <1>4 DEF vars, loopVars, recorderVars, storeVars
<1> QED BY <1>1, <1>2, <1>3, <1>4

LEMMA NextRowsInv == TypeOK /\ RowsInv /\ [Next]_vars => RowsInv'
BY TickRowsInv, SaveRowsInv, MaintainRowsInv, RestRowsInv DEF Next, Scan

(* Whatever crashes, fails or sets the clock back, a row of any of the     *)
(* three tables sums readings of its own client from its own minute, hour  *)
(* or day.                                                                 *)
THEOREM RowsSumTheirOwnBucket == Spec => []RowsMatchBuckets
<1>1. RowsInv => RowsMatchBuckets
  BY DEF RowsInv
<1> QED BY <1>1, InitRowsInv, NextRowsInv, TypeCorrect, PTL DEF Spec

-------------------------------------------------------------------------------
(* Minutes only move forward, so a written row is never written again.     *)

LEMMA ClockMovesOn ==
  ASSUME StepBack = 0, now \in Nat, NEW t \in ClockReadings
  PROVE  /\ t \in Nat /\ now <= t
         /\ now \div Minute \in Nat /\ t \div Minute \in Nat
         /\ now \div Minute <= t \div Minute
<1>1. t \in Nat /\ now <= t
  BY ScanLoopAssumption DEF ClockReadings
<1> QED BY <1>1, DivMonotone, MinuteIsNat, RecorderAssumption

LEMMA InitMinutesInv == Init => MinutesInv
BY DEF Init, RecorderInit, StoreInit, EmptyTable, MinutesInv, OpenMinutesReached,
       RowsBehindClock, PendingRowsNew

(* What record does to the number of the open minute.                      *)
LEMMA RecordMinutes ==
  ASSUME NEW views, NEW readings, NEW t, Record(views, readings, t)
  PROVE  /\ DOMAIN series' = DOMAIN series \cup Viewed(views)
         /\ \A id \in Viewed(views) : series'[id].cur_minute = t \div Minute
         /\ \A id \in DOMAIN series \ Viewed(views) : series'[id] = series[id]
<1>1. DOMAIN series' = DOMAIN series \cup Viewed(views)
  BY DEF Record
<1>2. ASSUME NEW id \in Viewed(views) PROVE series'[id].cur_minute = t \div Minute
  <2>1. series'[id] = AfterRecord(id, { r \in readings : r.id = id }, t \div Minute)
    BY <1>1 DEF Record
  <2> QED BY <2>1 DEF AfterRecord
<1>3. ASSUME NEW id \in DOMAIN series \ Viewed(views) PROVE series'[id] = series[id]
  BY DEF Record
<1> QED BY <1>1, <1>2, <1>3

LEMMA CurMinuteIsNat ==
  ASSUME TypeOK
  PROVE  \A id \in DOMAIN series : series[id].cur_minute \in Nat
BY DEF TypeOK, PartialFunction, Series

LEMMA TickMinutesInv ==
  ASSUME StepBack = 0, TypeOK, MinutesInv, NEW t \in ClockReadings, NEW new \in SUBSET Ip,
         NEW names \in NameTables, Tick(t, new, names)
  PROVE  MinutesInv'
<1> DEFINE views == Views(seen \cup new, names)
           before == now \div Minute
           after == t \div Minute
<1>1. /\ before \in Nat /\ after \in Nat /\ before <= after
      /\ now' = t /\ samples_min' = samples_min
  BY ClockMovesOn DEF TypeOK, Tick, storeVars
<1>2. /\ DOMAIN series' = DOMAIN series \cup Viewed(views)
      /\ \A id \in Viewed(views) : series'[id].cur_minute = after
      /\ \A id \in DOMAIN series \ Viewed(views) : series'[id] = series[id]
  BY RecordMinutes DEF Tick
<1>3. \A id \in DOMAIN series : series[id].cur_minute \in Nat /\ series[id].cur_minute <= before
  BY CurMinuteIsNat DEF MinutesInv, OpenMinutesReached
<1> HIDE DEF views
<1>4. OpenMinutesReached'
  BY <1>1, <1>2, <1>3 DEF OpenMinutesReached
<1>5. RowsBehindClock'
  <2> SUFFICES ASSUME NEW k \in DOMAIN samples_min
               PROVE  /\ k.ts < after * Minute
                      /\ k.id \in DOMAIN series' => k.ts < series'[k.id].cur_minute * Minute
    BY <1>1 DEF RowsBehindClock
  <2>1. k.ts \in Nat /\ k.ts < before * Minute
    BY DEF TypeOK, Table, PartialFunction, Key, MinutesInv, RowsBehindClock
  <2>2. before * Minute <= after * Minute /\ before * Minute \in Nat /\ after * Minute \in Nat
    BY <1>1, TimesMonotone, RecorderAssumption
  <2>3. k.ts < after * Minute
    BY <2>1, <2>2
  <2>4. CASE k.id \in Viewed(views)
    BY <2>3, <2>4, <1>2
  <2>5. CASE k.id \in DOMAIN series \ Viewed(views)
    BY <2>3, <2>5, <1>2 DEF MinutesInv, RowsBehindClock
  <2> QED BY <2>3, <2>4, <2>5, <1>2
<1>6. PendingRowsNew'
  <2>1. ASSUME NEW row \in pending'
        PROVE  /\ row.id \in Viewed(views) \cap DOMAIN series
               /\ row = Aggregated(row.id, series[row.id])
               /\ series[row.id].cur_minute # after
    <3>1. row \in Finalized(views, after)
      BY DEF Tick, views
    <3>2. PICK id \in Viewed(views) \cap DOMAIN series :
             RollsOver(series[id], after) /\ row = Aggregated(id, series[id])
      BY <3>1 DEF Finalized
    <3> QED BY <3>2 DEF RollsOver, Aggregated
  <2>2. ASSUME NEW row \in pending'
        PROVE  /\ row.id \in DOMAIN series'
               /\ row.ts < series'[row.id].cur_minute * Minute
               /\ KeyOf(row) \notin DOMAIN samples_min'
    <3> DEFINE c == series[row.id].cur_minute
    <3>1. row.ts = c * Minute
      BY <2>1 DEF Aggregated
    <3>2. c \in Nat /\ c < after
      BY <2>1, <1>1, <1>3
    <3>3. c * Minute < after * Minute
      BY <3>2, <1>1, TimesMonotone, RecorderAssumption
    <3>4. KeyOf(row) \notin DOMAIN samples_min
      <4> SUFFICES ASSUME KeyOf(row) \in DOMAIN samples_min PROVE FALSE
        OBVIOUS
      <4>1. row.ts < c * Minute
        BY <2>1 DEF MinutesInv, RowsBehindClock, KeyOf
      <4>2. c * Minute \in Nat
        BY <3>2, RecorderAssumption
      <4> QED BY <3>1, <4>1, <4>2
    <3> QED BY <1>1, <1>2, <2>1, <3>1, <3>3, <3>4
  <2>3. \A r1, r2 \in pending' : KeyOf(r1) = KeyOf(r2) => r1 = r2
    BY <2>1 DEF KeyOf
  <2>4. pc' = "saving"
    BY DEF Tick
  <2> QED BY <2>2, <2>3, <2>4 DEF PendingRowsNew
<1> QED BY <1>4, <1>5, <1>6 DEF MinutesInv

LEMMA InsertRowMinutesInv ==
  ASSUME TypeOK, MinutesInv, NEW row \in pending, InsertRow(row)
  PROVE  /\ MinutesInv'
         /\ DOMAIN samples_min' = DOMAIN samples_min \cup {KeyOf(row)}
         /\ samples_min'[KeyOf(row)] = row.of
         /\ KeyOf(row) \notin DOMAIN samples_min
         /\ \A k \in DOMAIN samples_min : samples_min'[k] = samples_min[k]
<1>1. /\ row.id \in DOMAIN series
      /\ row.ts < series[row.id].cur_minute * Minute
      /\ KeyOf(row) \notin DOMAIN samples_min
  BY DEF MinutesInv, PendingRowsNew
<1>2. /\ DOMAIN samples_min' = DOMAIN samples_min \cup {KeyOf(row)}
      /\ samples_min'[KeyOf(row)] = row.of
      /\ \A k \in DOMAIN samples_min : k # KeyOf(row) => samples_min'[k] = samples_min[k]
  BY DEF InsertRow, InsertMinute, InsertOrReplace, KeyOf
<1>3. row.ts \in Nat
  BY DEF TypeOK, Row
<1>4. row.ts < (now \div Minute) * Minute
  <2> DEFINE c == series[row.id].cur_minute
             n == now \div Minute
  <2>1. c \in Nat /\ n \in Nat /\ c <= n
    BY <1>1, CurMinuteIsNat, MinuteIsNat DEF MinutesInv, OpenMinutesReached, TypeOK
  <2>2. c * Minute <= n * Minute /\ c * Minute \in Nat /\ n * Minute \in Nat
    BY <2>1, TimesMonotone, RecorderAssumption
  <2> QED BY <1>1, <1>3, <2>2
<1>5. OpenMinutesReached'
  BY DEF InsertRow, recorderVars, MinutesInv, OpenMinutesReached
<1>6. RowsBehindClock'
  <2>1. series' = series /\ now' = now
    BY DEF InsertRow, recorderVars
  <2>2. KeyOf(row).ts = row.ts /\ KeyOf(row).id = row.id
    BY DEF KeyOf
  <2> QED BY <1>1, <1>2, <1>4, <2>1, <2>2 DEF MinutesInv, RowsBehindClock
<1>7. PendingRowsNew'
  <2>1. pending' = pending \ {row} /\ series' = series /\ pc' = pc /\ pc = "saving"
    BY DEF InsertRow, recorderVars
  <2>2. \A r \in pending' : KeyOf(r) # KeyOf(row)
    BY <2>1 DEF MinutesInv, PendingRowsNew
  <2> QED BY <1>2, <2>1, <2>2 DEF MinutesInv, PendingRowsNew
<1> QED BY <1>1, <1>2, <1>5, <1>6, <1>7 DEF MinutesInv

LEMMA OtherMinutesInv ==
  ASSUME TypeOK, MinutesInv,
         \/ \E row \in pending : InsertRowFails(row)
         \/ \E view \in todo : Upsert(view) \/ UpsertFails(view)
         \/ Saved \/ Maintain \/ Publish \/ Restart \/ UNCHANGED vars
  PROVE  MinutesInv' /\ DOMAIN samples_min' \subseteq DOMAIN samples_min
         /\ \A k \in DOMAIN samples_min' : samples_min'[k] = samples_min[k]
<1>1. series' = series /\ now' = now
  BY DEF InsertRowFails, Upsert, UpsertFails, Saved, Maintain, RollupHour, RollupDay,
         RollupFails, PruneMin, PruneHour, PruneDay, PruneFails, Publish, Restart, GoTo,
         vars, recorderVars, loopVars
<1>2. pending' \subseteq pending /\ (pc' # "saving" => pending' = {})
  BY DEF InsertRowFails, Upsert, UpsertFails, Saved, Maintain, RollupHour, RollupDay,
         RollupFails, PruneMin, PruneHour, PruneDay, PruneFails, Publish, Restart, GoTo,
         vars, loopVars, MinutesInv, PendingRowsNew
<1>3. /\ DOMAIN samples_min' \subseteq DOMAIN samples_min
      /\ \A k \in DOMAIN samples_min' : samples_min'[k] = samples_min[k]
  BY DEF InsertRowFails, Upsert, UpsertClient, UpsertFails, Saved, Maintain, RollupHour,
         RollupMinToHour, RollupDay, RollupHourToDay, RollupFails, PruneMin, DeleteMin,
         PruneHour, DeleteHour, PruneDay, DeleteDay, PruneFails, Publish, Restart, GoTo,
         vars, storeVars, Pruned
<1> QED BY <1>1, <1>2, <1>3
        DEF MinutesInv, OpenMinutesReached, RowsBehindClock, PendingRowsNew

LEMMA CrashMinutesInv ==
  ASSUME MinutesInv, Crash
  PROVE  MinutesInv'
BY DEF Crash, storeVars, MinutesInv, OpenMinutesReached, RowsBehindClock, PendingRowsNew

LEMMA NextMinutesInv ==
  ASSUME StepBack = 0
  PROVE  TypeOK /\ MinutesInv /\ [Next]_vars => MinutesInv'
BY TickMinutesInv, InsertRowMinutesInv, OtherMinutesInv, CrashMinutesInv
   DEF Next, Scan, Save

(* While the clock is not set back, no step rewrites a minute row: a       *)
(* restart never finalizes a minute the previous process already saved,    *)
(* and no two series of a client close the same minute.                    *)
THEOREM SavedMinutesStay ==
  ASSUME StepBack = 0
  PROVE  Spec => MinuteRowsImmutable
<1> DEFINE Stays == \A k \in DOMAIN samples_min \cap DOMAIN samples_min' :
                        samples_min'[k] = samples_min[k]
<1>1. TypeOK /\ MinutesInv /\ [Next]_vars => Stays
  <2> SUFFICES ASSUME TypeOK, MinutesInv, [Next]_vars PROVE Stays
    OBVIOUS
  <2>1. ASSUME NEW t \in ClockReadings, NEW new \in SUBSET Ip, NEW names \in NameTables,
               Tick(t, new, names)
        PROVE  Stays
    BY <2>1 DEF Tick, storeVars
  <2>2. CASE Crash
    BY <2>2 DEF Crash, storeVars
  <2> QED BY <2>1, <2>2, InsertRowMinutesInv, OtherMinutesInv DEF Next, Scan, Save
<1>2. TypeOK /\ MinutesInv /\ [Next]_vars => MinutesInv'
  BY NextMinutesInv
<1> QED BY <1>1, <1>2, InitMinutesInv, TypeCorrect, PTL DEF Spec, MinuteRowsImmutable

-------------------------------------------------------------------------------
(* Nothing recorded vanishes.                                              *)

LEMMA InitConserved == Init => Conserved
BY DEF Init, Conserved

(* After record every new reading is in an open minute, and every reading  *)
(* of an open minute still is, or has been finalized.                      *)
LEMMA RecordKeeps ==
  ASSUME TypeOK, NEW views, NEW readings, NEW t, Record(views, readings, t),
         \A r \in readings : r.id \in Viewed(views)
  PROVE  /\ \A r \in readings : r \in series'[r.id].cur_samples /\ r.id \in DOMAIN series'
         /\ \A id \in DOMAIN series : \A s \in series[id].cur_samples :
              \/ id \in DOMAIN series' /\ s \in series'[id].cur_samples
              \/ \E row \in Finalized(views, t \div Minute) : s \in row.of
<1> DEFINE minute == t \div Minute
           new(id) == { r \in readings : r.id = id }
<1>1. /\ DOMAIN series' = DOMAIN series \cup Viewed(views)
      /\ \A id \in DOMAIN series \ Viewed(views) : series'[id] = series[id]
  BY RecordMinutes
<1>2. ASSUME NEW id \in Viewed(views)
      PROVE  series'[id].cur_samples = OpenMinute(SeriesOf(id, minute), new(id), minute)
  <2>1. series'[id] = AfterRecord(id, new(id), minute)
    BY <1>1 DEF Record
  <2> QED BY <2>1 DEF AfterRecord
<1>3. ASSUME NEW r \in readings
      PROVE  r \in series'[r.id].cur_samples /\ r.id \in DOMAIN series'
  <2>1. r.id \in Viewed(views) /\ r \in new(r.id)
    OBVIOUS
  <2> HIDE DEF new
  <2> QED BY <1>1, <1>2, <2>1 DEF OpenMinute
<1>4. ASSUME NEW id \in DOMAIN series, NEW s \in series[id].cur_samples
      PROVE  \/ id \in DOMAIN series' /\ s \in series'[id].cur_samples
             \/ \E row \in Finalized(views, minute) : s \in row.of
  <2>1. CASE id \notin Viewed(views)
    BY <1>1, <2>1
  <2>2. CASE id \in Viewed(views) /\ RollsOver(series[id], minute)
    <3>1. Aggregated(id, series[id]) \in Finalized(views, minute)
      BY <2>2 DEF Finalized
    <3>2. s \in Aggregated(id, series[id]).of
      BY DEF Aggregated
    <3> QED BY <3>1, <3>2
  <2>3. CASE id \in Viewed(views) /\ ~RollsOver(series[id], minute)
    <3>1. SeriesOf(id, minute) = series[id]
      BY DEF SeriesOf
    <3> QED BY <1>1, <1>2, <2>3, <3>1 DEF OpenMinute
  <2> QED BY <2>1, <2>2, <2>3
<1> QED BY <1>3, <1>4

LEMMA TickConserved ==
  ASSUME StepBack = 0, TypeOK, MinutesInv, Conserved,
         NEW t \in ClockReadings, NEW new \in SUBSET Ip,
         NEW names \in NameTables, Tick(t, new, names)
  PROVE  Conserved'
<1> DEFINE views == Views(seen \cup new, names)
           readings == Readings(views, t)
<1>1. /\ Record(views, readings, t)
      /\ pending' = Finalized(views, t \div Minute)
      /\ recorded' = recorded \cup readings
      /\ samples_min' = samples_min /\ lost' = lost /\ now' = t
  BY DEF Tick, storeVars
<1>2. pending = {} /\ Awaiting = {}
  BY DEF Tick, MinutesInv, PendingRowsNew, Awaiting
<1>3. ASSUME NEW r \in readings PROVE r.id \in Viewed(views)
  <2>1. PICK v \in views : r = Reading(v, ticks + 1, t)
    BY DEF Readings
  <2> HIDE DEF views
  <2> QED BY <2>1 DEF Reading, Viewed
<1>4. now \in Nat /\ t \in Nat /\ now <= t
  BY ClockMovesOn DEF TypeOK
<1> HIDE DEF readings, views
<1>5. readings \subseteq Held'
  BY <1>1, <1>3, RecordKeeps DEF Held
<1>6. Held \subseteq Held' \cup Awaiting'
  BY <1>1, <1>3, RecordKeeps DEF Held, Awaiting
<1>7. Persisted' = Persisted
  BY <1>1 DEF Persisted
<1>8. Expired \subseteq Expired'
  <2> SUFFICES ASSUME NEW s \in Expired PROVE s \in Expired'
    OBVIOUS
  <2>1. s \in recorded /\ s \in Sample /\ s.ts \in Nat /\ Bucket(s.ts, Minute) < now - MinSecs
    BY DEF Expired, TypeOK, Sample
  <2>2. Bucket(s.ts, Minute) \in Nat
    BY <2>1, BucketIsNat, RecorderAssumption
  <2>3. Bucket(s.ts, Minute) < t - MinSecs
    BY <1>4, <2>1, <2>2, StoreAssumption
  <2> QED BY <1>1, <2>1, <2>3 DEF Expired
<1> QED BY <1>1, <1>2, <1>5, <1>6, <1>7, <1>8 DEF Conserved

LEMMA InsertRowConserved ==
  ASSUME TypeOK, MinutesInv, Conserved, NEW row \in pending, InsertRow(row)
  PROVE  Conserved'
<1>1. /\ series' = series /\ recorded' = recorded /\ lost' = lost /\ now' = now
      /\ pending' = pending \ {row}
  BY DEF InsertRow, recorderVars, history
<1>2. Persisted \cup row.of \subseteq Persisted'
  BY InsertRowMinutesInv DEF Persisted
<1>3. Awaiting \subseteq Awaiting' \cup row.of
  BY <1>1 DEF Awaiting
<1>4. Held' = Held /\ Expired' = Expired
  BY <1>1 DEF Held, Expired
<1> QED BY <1>1, <1>2, <1>3, <1>4 DEF Conserved

LEMMA PruneMinConserved ==
  ASSUME TypeOK, RowsInv, Conserved, PruneMin
  PROVE  Conserved'
<1>1. /\ series' = series /\ recorded' = recorded /\ lost' = lost /\ now' = now
      /\ pending' = pending
      /\ samples_min' = Pruned(samples_min, now - MinSecs)
  BY DEF PruneMin, DeleteMin, GoTo, recorderVars, history
<1>2. ASSUME NEW s \in recorded, s \in Persisted
      PROVE  s \in Persisted' \cup Expired'
  <2>1. PICK k \in DOMAIN samples_min : s \in samples_min[k]
    BY <1>2 DEF Persisted
  <2>2. Bucket(s.ts, Minute) = k.ts
    BY <2>1 DEF RowsInv, RowsMatchBuckets, RowsMatch
  <2>3. k.ts \in Nat /\ now \in Nat
    BY DEF TypeOK, Table, PartialFunction, Key
  <2>4. CASE k.ts >= now - MinSecs
    BY <1>1, <2>1, <2>4 DEF Pruned, Persisted
  <2>5. CASE k.ts < now - MinSecs
    BY <1>1, <2>2, <2>5 DEF Expired
  <2> QED BY <2>3, <2>4, <2>5, StoreAssumption
<1>3. Held' = Held /\ Awaiting' = Awaiting /\ Expired' = Expired
  BY <1>1 DEF Held, Awaiting, Expired
<1> QED BY <1>1, <1>2, <1>3 DEF Conserved

LEMMA InsertFailsConserved ==
  ASSUME Conserved, NEW row \in pending, InsertRowFails(row)
  PROVE  Conserved'
<1>1. /\ series' = series /\ recorded' = recorded /\ now' = now /\ samples_min' = samples_min
      /\ pending' = pending \ {row} /\ lost' = lost \cup row.of
  BY DEF InsertRowFails, recorderVars, storeVars
<1>2. Awaiting \subseteq Awaiting' \cup row.of
  BY <1>1 DEF Awaiting
<1>3. Held' = Held /\ Persisted' = Persisted /\ Expired' = Expired
  BY <1>1 DEF Held, Persisted, Expired
<1> QED BY <1>1, <1>2, <1>3 DEF Conserved

LEMMA CrashConserved ==
  ASSUME Conserved, Crash
  PROVE  Conserved'
<1>1. /\ lost' = lost \cup Held \cup Awaiting /\ recorded' = recorded /\ now' = now
      /\ samples_min' = samples_min
  BY DEF Crash, storeVars
<1>2. Persisted' = Persisted /\ Expired' = Expired
  BY <1>1 DEF Persisted, Expired
<1> QED BY <1>1, <1>2 DEF Conserved

LEMMA OtherConserved ==
  ASSUME Conserved,
         \/ \E view \in todo : Upsert(view) \/ UpsertFails(view)
         \/ Saved \/ (Maintain /\ ~PruneMin) \/ Publish \/ Restart \/ UNCHANGED vars
  PROVE  Conserved'
<1>1. /\ series' = series /\ recorded' = recorded /\ now' = now /\ lost' = lost
      /\ pending' = pending /\ samples_min' = samples_min
  BY DEF Upsert, UpsertClient, UpsertFails, Saved, Maintain, RollupHour, RollupMinToHour,
         RollupDay, RollupHourToDay, RollupFails, PruneHour, DeleteHour, PruneDay, DeleteDay,
         PruneFails, Publish, Restart, GoTo, vars, loopVars, recorderVars, storeVars, history
<1>2. Held' = Held /\ Awaiting' = Awaiting /\ Persisted' = Persisted /\ Expired' = Expired
  BY <1>1 DEF Held, Awaiting, Persisted, Expired
<1> QED BY <1>1, <1>2 DEF Conserved

LEMMA NextConserved ==
  ASSUME StepBack = 0
  PROVE  TypeOK /\ RowsInv /\ MinutesInv /\ Conserved /\ [Next]_vars => Conserved'
BY TickConserved, InsertRowConserved, PruneMinConserved, InsertFailsConserved,
   CrashConserved, OtherConserved
   DEF Next, Scan, Save, Maintain

(* While the clock is not set back, every reading ever recorded is in RAM, *)
(* in samples_min, past its retention, or was lost by a crash or a failed  *)
(* insert: no identity change, rollover, prune or restart drops one.       *)
THEOREM NothingVanishes ==
  ASSUME StepBack = 0
  PROVE  Spec => []Conserved
<1>1. TypeOK /\ RowsInv /\ MinutesInv /\ [Next]_vars => MinutesInv'
  BY NextMinutesInv
<1>2. TypeOK /\ RowsInv /\ MinutesInv /\ Conserved /\ [Next]_vars => Conserved'
  BY NextConserved
<1> QED BY <1>1, <1>2, InitConserved, InitMinutesInv, InitRowsInv, NextRowsInv, TypeCorrect,
           PTL DEF Spec

-------------------------------------------------------------------------------
(* Nothing is pruned before it is summarised.                              *)

LEMMA RolledUpCovers ==
  ASSUME NEW src, NEW dst, NEW n
  PROVE  Summarised(src, InsertOrReplace(dst, RolledUp(src, n)), n)
<1> DEFINE rows == RolledUp(src, n)
<1> SUFFICES ASSUME NEW k \in DOMAIN src
             PROVE  /\ BucketKey(k, n) \in DOMAIN InsertOrReplace(dst, rows)
                    /\ src[k] \subseteq InsertOrReplace(dst, rows)[BucketKey(k, n)]
  BY DEF Summarised
<1>1. BucketKey(k, n) \in DOMAIN rows /\ src[k] \subseteq rows[BucketKey(k, n)]
  BY DEF RolledUp
<1> HIDE DEF rows
<1> QED BY <1>1 DEF InsertOrReplace

LEMMA NextSummaryInv == SummaryInv /\ [Next]_vars => SummaryInv'
<1> SUFFICES ASSUME SummaryInv, [Next]_vars PROVE SummaryInv'
  OBVIOUS
<1>1. CASE RollupHour
  <2>1. pc' = "rollup_day" /\ samples_min' = samples_min /\ unrolled' = unrolled
        /\ samples_hour' = InsertOrReplace(samples_hour, RolledUp(samples_min, Hour))
    BY <1>1 DEF RollupHour, RollupMinToHour, GoTo
  <2> QED BY <2>1, RolledUpCovers DEF SummaryInv
<1>2. CASE RollupDay
  <2>1. /\ pc = "rollup_day" /\ pc' = "prune_min" /\ unrolled' = unrolled
        /\ samples_min' = samples_min /\ samples_hour' = samples_hour
        /\ samples_day' = InsertOrReplace(samples_day, RolledUp(samples_hour, Day))
    BY <1>2 DEF RollupDay, RollupHourToDay, GoTo
  <2> QED BY <2>1, RolledUpCovers DEF SummaryInv, Summarised
<1>3. CASE PruneMin
  BY <1>3 DEF PruneMin, DeleteMin, GoTo, SummaryInv, Summarised
<1>4. CASE pc' \notin {"rollup_day", "prune_min", "prune_hour"}
  BY <1>4 DEF SummaryInv
<1>5. CASE UNCHANGED <<unrolled, pc, samples_min, samples_hour, samples_day>>
  BY <1>5 DEF SummaryInv, Summarised
<1>6. Scan \/ Save \/ PruneHour \/ PruneDay \/ PruneFails \/ Publish \/ Crash \/ Restart
        => pc' \notin {"rollup_day", "prune_min", "prune_hour"}
  BY DEF Scan, Tick, Save, InsertRow, InsertRowFails, Upsert, UpsertFails, Saved, PruneHour,
         PruneDay, PruneFails, Publish, Crash, Restart, GoTo
<1>7. CASE RollupFails
  BY <1>7 DEF RollupFails, SummaryInv
<1> QED BY <1>1, <1>2, <1>3, <1>4, <1>5, <1>6, <1>7
        DEF Next, Maintain, vars, loopVars, storeVars, history

LEMMA PrunedCovered ==
  ASSUME ~unrolled, SummaryInv, [Next]_vars
  PROVE  /\ Summarised(Removed(samples_min, samples_min'), samples_hour', Hour)
         /\ Summarised(Removed(samples_hour, samples_hour'), samples_day', Day)
<1>1. CASE PruneMin
  <2>1. pc = "prune_min" /\ samples_hour' = samples_hour
    BY <1>1 DEF PruneMin, DeleteMin
  <2> QED BY <2>1 DEF SummaryInv, Summarised, Removed
<1>2. CASE PruneHour
  <2>1. pc = "prune_hour" /\ samples_min' = samples_min /\ samples_day' = samples_day
    BY <1>2 DEF PruneHour, DeleteHour
  <2> QED BY <2>1 DEF SummaryInv, Summarised, Removed
<1>3. ASSUME ~PruneMin, ~PruneHour
      PROVE  /\ DOMAIN samples_min \subseteq DOMAIN samples_min'
             /\ DOMAIN samples_hour \subseteq DOMAIN samples_hour'
  BY <1>3 DEF Next, Scan, Tick, Save, InsertRow, InsertMinute, InsertRowFails, Upsert,
     UpsertClient, UpsertFails, Saved, Maintain, RollupHour, RollupMinToHour, RollupDay,
     RollupHourToDay, RollupFails, PruneDay, DeleteDay, PruneFails, Publish, Crash, Restart,
     GoTo, vars, storeVars, InsertOrReplace
<1> QED BY <1>1, <1>2, <1>3 DEF Summarised, Removed

(* Between rollup and prune the coarser tables cover the finer ones,       *)
(* wherever the process dies (main.rs:108-109).                            *)
THEOREM CoarserCoversFiner == Spec => []SummaryInv
<1>1. Init => SummaryInv
  BY DEF Init, SummaryInv
<1> QED BY <1>1, NextSummaryInv, PTL DEF Spec

(* Every deleted minute is in its hour row and every deleted hour in its   *)
(* day row at the moment it is deleted, wherever the process dies in       *)
(* between, whatever the clock does and whichever statement fails, except  *)
(* for the rollup of that maintenance itself.                              *)
THEOREM PruneLosesNothing == Spec => PrunedIsSummarised
<1> DEFINE Covered == /\ Summarised(Removed(samples_min, samples_min'), samples_hour', Hour)
                      /\ Summarised(Removed(samples_hour, samples_hour'), samples_day', Day)
<1>1. SummaryInv /\ [Next]_vars => (~unrolled => Covered)
  BY PrunedCovered
<1> QED BY <1>1, CoarserCoversFiner, PTL DEF Spec, PrunedIsSummarised

-------------------------------------------------------------------------------
(* No reading is in two places at once.                                    *)

LEMMA HeldReading ==
  ASSUME TypeOK, RowsInv, NEW s \in Held
  PROVE  /\ s.id \in DOMAIN series
         /\ Bucket(s.ts, Minute) = series[s.id].cur_minute * Minute
<1>1. PICK id \in DOMAIN series : s \in series[id].cur_samples
  BY DEF Held
<1>2. s.id = id /\ s.ts \div Minute = series[id].cur_minute
  BY <1>1 DEF RowsInv, OpenMatches
<1>3. s \in Sample
  BY <1>1 DEF TypeOK, PartialFunction, Series
<1>4. s.ts \in Nat
  BY <1>3 DEF Sample
<1>5. Bucket(s.ts, Minute) = (s.ts \div Minute) * Minute
  BY <1>4, BucketIsMultiple, RecorderAssumption
<1> QED BY <1>2, <1>5

(* An open minute starts where no row does: rows are of earlier minutes.   *)
LEMMA OpenMinuteStart ==
  ASSUME TypeOK, NEW id \in DOMAIN series
  PROVE  series[id].cur_minute * Minute \in Nat
<1>1. series[id].cur_minute \in Nat
  BY CurMinuteIsNat
<1> QED BY <1>1, RecorderAssumption

LEMMA HeldApart ==
  ASSUME TypeOK, RowsInv, MinutesInv
  PROVE  /\ Held \cap Awaiting = {}
         /\ Held \cap Persisted = {}
<1>1. ASSUME NEW s \in Held, NEW row \in pending, s \in row.of
      PROVE  FALSE
  <2>1. s.id \in DOMAIN series /\ Bucket(s.ts, Minute) = series[s.id].cur_minute * Minute
    BY HeldReading
  <2>2. s.id = row.id /\ Bucket(s.ts, Minute) = row.ts
    BY <1>1 DEF RowsInv, PendingMatches
  <2>3. row.ts < series[row.id].cur_minute * Minute
    BY DEF MinutesInv, PendingRowsNew
  <2>4. series[s.id].cur_minute * Minute \in Nat
    BY <2>1, OpenMinuteStart
  <2> QED BY <2>1, <2>2, <2>3, <2>4
<1>2. ASSUME NEW s \in Held, NEW k \in DOMAIN samples_min, s \in samples_min[k]
      PROVE  FALSE
  <2>1. s.id \in DOMAIN series /\ Bucket(s.ts, Minute) = series[s.id].cur_minute * Minute
    BY HeldReading
  <2>2. s.id = k.id /\ Bucket(s.ts, Minute) = k.ts
    BY <1>2 DEF RowsInv, RowsMatchBuckets, RowsMatch
  <2>3. k.ts < series[k.id].cur_minute * Minute
    BY <2>1, <2>2 DEF MinutesInv, RowsBehindClock
  <2>4. series[s.id].cur_minute * Minute \in Nat
    BY <2>1, OpenMinuteStart
  <2> QED BY <2>1, <2>2, <2>3, <2>4
<1> QED BY <1>1, <1>2 DEF Awaiting, Persisted

(* A finished minute shares no reading with another or with a saved one.   *)
LEMMA PendingApart ==
  ASSUME TypeOK, RowsInv, MinutesInv, NEW row \in pending
  PROVE  /\ row.of \cap Persisted = {}
         /\ \A r \in pending \ {row} : row.of \cap r.of = {}
<1>1. ASSUME NEW s \in row.of, NEW k \in DOMAIN samples_min, s \in samples_min[k]
      PROVE  FALSE
  <2>1. s.id = row.id /\ Bucket(s.ts, Minute) = row.ts
    BY DEF RowsInv, PendingMatches
  <2>2. s.id = k.id /\ Bucket(s.ts, Minute) = k.ts
    BY <1>1 DEF RowsInv, RowsMatchBuckets, RowsMatch
  <2>3. k \in [ts : Nat, id : Id]
    BY DEF TypeOK, Table, PartialFunction, Key
  <2>4. k = KeyOf(row)
    BY <2>1, <2>2, <2>3 DEF KeyOf
  <2> QED BY <2>4 DEF MinutesInv, PendingRowsNew
<1>2. ASSUME NEW r \in pending \ {row}, NEW s \in row.of, s \in r.of
      PROVE  FALSE
  <2>1. s.id = row.id /\ Bucket(s.ts, Minute) = row.ts
    BY DEF RowsInv, PendingMatches
  <2>2. s.id = r.id /\ Bucket(s.ts, Minute) = r.ts
    BY <1>2 DEF RowsInv, PendingMatches
  <2>3. KeyOf(r) = KeyOf(row)
    BY <2>1, <2>2 DEF KeyOf
  <2> QED BY <2>3 DEF MinutesInv, PendingRowsNew
<1> QED BY <1>1, <1>2 DEF Persisted

LEMMA AwaitingApart ==
  ASSUME TypeOK, RowsInv, MinutesInv
  PROVE  Awaiting \cap Persisted = {}
BY PendingApart DEF Awaiting

(* Taking one row out of pending takes out just its readings.              *)
LEMMA OneRowLess ==
  ASSUME TypeOK, RowsInv, MinutesInv, NEW row \in pending, pending' = pending \ {row}
  PROVE  /\ Awaiting' = Awaiting \ row.of
         /\ row.of \subseteq Awaiting
<1>1. row.of \subseteq Awaiting
  BY DEF Awaiting
<1>2. Awaiting' \subseteq Awaiting \ row.of
  BY PendingApart DEF Awaiting
<1>3. Awaiting \ row.of \subseteq Awaiting'
  BY DEF Awaiting
<1> QED BY <1>1, <1>2, <1>3

-------------------------------------------------------------------------------
(* What each kind of step does to the four accounts.                       *)

TakesIn ==
    \E new : /\ new \cap recorded = {} /\ recorded' = recorded \cup new
             /\ Held' \cup Awaiting' = Held \cup Awaiting \cup new
             /\ \A s \in new : s.tick = ticks'
             /\ Persisted' = Persisted /\ lost' = lost /\ ticks' = ticks + 1

SavesSome ==
    \E some : /\ some \subseteq Awaiting
              /\ Held' = Held /\ Awaiting' = Awaiting \ some
              /\ Persisted' = Persisted \cup some
              /\ recorded' = recorded /\ lost' = lost /\ ticks' = ticks

LosesSome ==
    \E some : /\ some \subseteq Held \cup Awaiting
              /\ Held' \cup Awaiting' = (Held \cup Awaiting) \ some
              /\ lost' = lost \cup some
              /\ recorded' = recorded /\ Persisted' = Persisted /\ ticks' = ticks

ExpiresSome ==
    /\ Persisted' \subseteq Persisted
    /\ Held' = Held /\ Awaiting' = Awaiting
    /\ recorded' = recorded /\ lost' = lost /\ ticks' = ticks

(* The converse of RecordKeeps: record adds the new readings, no others.   *)
LEMMA RecordAdds ==
  ASSUME NEW views, NEW readings, NEW t, Record(views, readings, t)
  PROVE  /\ Held' \subseteq Held \cup readings
         /\ \A row \in Finalized(views, t \div Minute) : row.of \subseteq Held
<1> DEFINE minute == t \div Minute
           new(id) == { r \in readings : r.id = id }
<1>1. /\ DOMAIN series' = DOMAIN series \cup Viewed(views)
      /\ \A id \in DOMAIN series \ Viewed(views) : series'[id] = series[id]
  BY RecordMinutes
<1>2. ASSUME NEW id \in Viewed(views)
      PROVE  series'[id].cur_samples \subseteq Held \cup readings
  <2>1. series'[id] = AfterRecord(id, new(id), minute)
    BY <1>1 DEF Record
  <2>2. series'[id].cur_samples = OpenMinute(SeriesOf(id, minute), new(id), minute)
    BY <2>1 DEF AfterRecord
  <2>3. SeriesOf(id, minute).cur_samples \subseteq Held
    BY DEF SeriesOf, Held
  <2>4. new(id) \subseteq readings
    OBVIOUS
  <2> HIDE DEF new
  <2> QED BY <2>2, <2>3, <2>4 DEF OpenMinute
<1>3. ASSUME NEW id \in DOMAIN series \ Viewed(views)
      PROVE  series'[id].cur_samples \subseteq Held
  BY <1>1 DEF Held
<1>4. Held' \subseteq Held \cup readings
  BY <1>1, <1>2, <1>3 DEF Held
<1>5. ASSUME NEW row \in Finalized(views, minute)
      PROVE  row.of \subseteq Held
  BY DEF Finalized, Aggregated, Held
<1> QED BY <1>4, <1>5

LEMMA TickTakesIn ==
  ASSUME TypeOK, MinutesInv, BooksInv, NEW t \in ClockReadings, NEW new \in SUBSET Ip,
         NEW names \in NameTables, Tick(t, new, names)
  PROVE  TakesIn
<1> DEFINE views == Views(seen \cup new, names)
           readings == Readings(views, t)
<1>1. /\ Record(views, readings, t)
      /\ pending' = Finalized(views, t \div Minute)
      /\ recorded' = recorded \cup readings
      /\ samples_min' = samples_min /\ lost' = lost /\ ticks' = ticks + 1
  BY DEF Tick, storeVars
<1>2. Awaiting = {}
  BY DEF Tick, MinutesInv, PendingRowsNew, Awaiting
<1>3. ASSUME NEW r \in readings PROVE r.id \in Viewed(views) /\ r.tick = ticks + 1
  <2>1. PICK v \in views : r = Reading(v, ticks + 1, t)
    BY DEF Readings
  <2> HIDE DEF views
  <2> QED BY <2>1 DEF Reading, Viewed
<1> HIDE DEF readings, views
<1>4. readings \cap recorded = {}
  <2> SUFFICES ASSUME NEW s \in readings, s \in recorded PROVE FALSE
    OBVIOUS
  <2>1. s.tick = ticks + 1 /\ s.tick <= ticks
    BY <1>3 DEF BooksInv
  <2>2. ticks \in Nat
    BY DEF TypeOK
  <2> QED BY <2>1, <2>2
<1>5. readings \subseteq Held' /\ Held \subseteq Held' \cup Awaiting'
  <2>1. /\ \A r \in readings : r \in series'[r.id].cur_samples /\ r.id \in DOMAIN series'
        /\ \A id \in DOMAIN series : \A s \in series[id].cur_samples :
              \/ id \in DOMAIN series' /\ s \in series'[id].cur_samples
              \/ \E row \in Finalized(views, t \div Minute) : s \in row.of
    BY <1>1, <1>3, RecordKeeps
  <2>2. readings \subseteq Held'
    BY <2>1 DEF Held
  <2>3. Held \subseteq Held' \cup Awaiting'
    BY <2>1, <1>1 DEF Held, Awaiting
  <2> QED BY <2>2, <2>3
<1>6. Held' \subseteq Held \cup readings /\ Awaiting' \subseteq Held
  BY <1>1, RecordAdds DEF Awaiting
<1>7. Held' \cup Awaiting' = Held \cup Awaiting \cup readings
  BY <1>2, <1>5, <1>6
<1>8. Persisted' = Persisted
  BY <1>1 DEF Persisted
<1> QED BY <1>1, <1>3, <1>4, <1>7, <1>8 DEF TakesIn

LEMMA InsertSavesSome ==
  ASSUME TypeOK, RowsInv, MinutesInv, NEW row \in pending, InsertRow(row)
  PROVE  SavesSome
<1>1. /\ series' = series /\ recorded' = recorded /\ lost' = lost /\ ticks' = ticks
      /\ pending' = pending \ {row}
  BY DEF InsertRow, recorderVars, history
<1>2. Persisted' = Persisted \cup row.of
  <2>1. /\ DOMAIN samples_min' = DOMAIN samples_min \cup {KeyOf(row)}
        /\ samples_min'[KeyOf(row)] = row.of
        /\ \A k \in DOMAIN samples_min : samples_min'[k] = samples_min[k]
    BY InsertRowMinutesInv
  <2>2. Persisted' \subseteq Persisted \cup row.of
    BY <2>1 DEF Persisted
  <2>3. Persisted \cup row.of \subseteq Persisted'
    BY <2>1 DEF Persisted
  <2> QED BY <2>2, <2>3
<1>3. Awaiting' = Awaiting \ row.of /\ row.of \subseteq Awaiting
  BY <1>1, OneRowLess
<1>4. Held' = Held
  BY <1>1 DEF Held
<1> QED BY <1>1, <1>2, <1>3, <1>4 DEF SavesSome

LEMMA FailureLosesSome ==
  ASSUME TypeOK, RowsInv, MinutesInv, NEW row \in pending, InsertRowFails(row)
  PROVE  LosesSome
<1>1. /\ series' = series /\ recorded' = recorded /\ lost' = lost \cup row.of
      /\ samples_min' = samples_min /\ ticks' = ticks /\ pending' = pending \ {row}
  BY DEF InsertRowFails, recorderVars, storeVars
<1>2. Awaiting' = Awaiting \ row.of /\ row.of \subseteq Awaiting
  BY <1>1, OneRowLess
<1>3. Held' = Held /\ Persisted' = Persisted
  BY <1>1 DEF Held, Persisted
<1>4. Held \cap row.of = {}
  BY <1>2, HeldApart
<1> QED BY <1>1, <1>2, <1>3, <1>4 DEF LosesSome

LEMMA CrashLosesSome ==
  ASSUME Crash
  PROVE  LosesSome
<1>1. /\ lost' = lost \cup (Held \cup Awaiting) /\ recorded' = recorded /\ ticks' = ticks
      /\ samples_min' = samples_min
      /\ pending' = {} /\ DOMAIN series' = {}
  BY DEF Crash, storeVars
<1>2. Held' = {} /\ Awaiting' = {} /\ Persisted' = Persisted
  BY <1>1 DEF Held, Awaiting, Persisted
<1> QED BY <1>1, <1>2 DEF LosesSome

LEMMA RestExpiresSome ==
  ASSUME \/ \E view \in todo : Upsert(view) \/ UpsertFails(view)
         \/ Saved \/ Maintain \/ Publish \/ Restart \/ UNCHANGED vars
  PROVE  ExpiresSome
<1>1. /\ series' = series /\ recorded' = recorded /\ lost' = lost /\ ticks' = ticks
      /\ pending' = pending
  BY DEF Upsert, UpsertClient, UpsertFails, Saved, Maintain, RollupHour, RollupMinToHour,
         RollupDay, RollupHourToDay, RollupFails, PruneMin, PruneHour, DeleteHour, PruneDay,
         DeleteDay, PruneFails, Publish, Restart, GoTo, vars, loopVars, recorderVars,
         storeVars, history
<1>2. /\ DOMAIN samples_min' \subseteq DOMAIN samples_min
      /\ \A k \in DOMAIN samples_min' : samples_min'[k] = samples_min[k]
  BY DEF Upsert, UpsertClient, UpsertFails, Saved, Maintain, RollupHour,
         RollupMinToHour, RollupDay, RollupHourToDay, RollupFails, PruneMin, DeleteMin,
         PruneHour, DeleteHour, PruneDay, DeleteDay, PruneFails, Publish, Restart, GoTo,
         vars, storeVars, Pruned
<1>3. Persisted' \subseteq Persisted
  BY <1>2 DEF Persisted
<1>4. Held' = Held /\ Awaiting' = Awaiting
  BY <1>1 DEF Held, Awaiting
<1> QED BY <1>1, <1>3, <1>4 DEF ExpiresSome

LEMMA NextMoves ==
  ASSUME TypeOK, RowsInv, MinutesInv, BooksInv, [Next]_vars
  PROVE  TakesIn \/ SavesSome \/ LosesSome \/ ExpiresSome
BY TickTakesIn, InsertSavesSome, FailureLosesSome, CrashLosesSome, RestExpiresSome
   DEF Next, Scan, Save

-------------------------------------------------------------------------------
(* The accounts stay apart, and every move is one the Ledger allows.       *)

LEMMA NextBooksInv ==
  ASSUME TypeOK, RowsInv, MinutesInv, BooksInv, [Next]_vars
  PROVE  BooksInv'
<1>1. Held \cap Persisted = {} /\ Awaiting \cap Persisted = {} /\ Held \cap Awaiting = {}
  BY HeldApart, AwaitingApart
<1>2. ticks \in Nat
  BY DEF TypeOK
<1>3. CASE TakesIn
  <2>1. PICK new : /\ new \cap recorded = {} /\ recorded' = recorded \cup new
                   /\ Held' \cup Awaiting' = Held \cup Awaiting \cup new
                   /\ \A s \in new : s.tick = ticks'
                   /\ Persisted' = Persisted /\ lost' = lost /\ ticks' = ticks + 1
    BY <1>3 DEF TakesIn
  <2>2. \A s \in recorded' : s.tick <= ticks'
    <3> SUFFICES ASSUME NEW s \in recorded' PROVE s.tick <= ticks'
      OBVIOUS
    <3>1. CASE s \in new
      BY <3>1, <2>1, <1>2
    <3>2. CASE s \in recorded
      <4>1. s \in Sample
        BY <3>2 DEF TypeOK
      <4>2. s.tick \in Nat /\ s.tick <= ticks
        BY <3>2, <4>1, ScanLoopAssumption DEF Sample, BooksInv
      <4> QED BY <4>2, <2>1, <1>2
    <3> QED BY <3>1, <3>2, <2>1
  <2>3. /\ Held' \subseteq recorded' /\ Awaiting' \subseteq recorded'
        /\ Persisted' \subseteq recorded' /\ lost' \subseteq recorded'
    BY <2>1 DEF BooksInv
  <2>4. lost' \cap (Held' \cup Awaiting' \cup Persisted') = {}
    BY <2>1 DEF BooksInv
  <2> QED BY <2>2, <2>3, <2>4 DEF BooksInv
<1>4. CASE SavesSome
  BY <1>4 DEF SavesSome, BooksInv
<1>5. CASE LosesSome
  BY <1>1, <1>5 DEF LosesSome, BooksInv
<1>6. CASE ExpiresSome
  BY <1>6 DEF ExpiresSome, BooksInv
<1> QED BY <1>3, <1>4, <1>5, <1>6, NextMoves

LEMMA NextBalances ==
  ASSUME TypeOK, RowsInv, MinutesInv, BooksInv, [Next]_vars
  PROVE  [Books!Next]_(Books!ledger)
<1> DEFINE waiting == Held \cup Awaiting
           gone == recorded \ (Held \cup Awaiting \cup Persisted \cup lost)
<1>1. waiting \cap Persisted = {}
  BY HeldApart, AwaitingApart
<1>2. CASE TakesIn
  <2>1. waiting \subseteq waiting'
    BY <1>2 DEF TakesIn
  <2>2. (waiting' \ waiting) \cap (Persisted \cup lost \cup gone) = {}
    BY <1>2 DEF TakesIn, BooksInv
  <2>3. gone' = gone
    BY <1>2 DEF TakesIn, BooksInv
  <2>4. Persisted' = Persisted /\ lost' = lost
    BY <1>2 DEF TakesIn
  <2> QED BY <2>1, <2>2, <2>3, <2>4 DEF Books!Next, Books!Take
<1>3. CASE SavesSome
  <2>1. waiting' \subseteq waiting /\ Persisted' = Persisted \cup (waiting \ waiting')
    BY <1>3, HeldApart DEF SavesSome
  <2>2. gone' = gone /\ lost' = lost
    BY <1>3, HeldApart DEF SavesSome
  <2> QED BY <2>1, <2>2 DEF Books!Next, Books!Save, Books!Moves
<1>4. CASE LosesSome
  <2>1. waiting' \subseteq waiting /\ lost' = lost \cup (waiting \ waiting')
    BY <1>4 DEF LosesSome
  <2>2. gone' = gone /\ Persisted' = Persisted
    BY <1>4 DEF LosesSome
  <2> QED BY <2>1, <2>2 DEF Books!Next, Books!Lose, Books!Moves
<1>5. CASE ExpiresSome
  <2>1. Persisted' \subseteq Persisted /\ gone' = gone \cup (Persisted \ Persisted')
    BY <1>1, <1>5 DEF ExpiresSome, BooksInv
  <2>2. waiting' = waiting /\ lost' = lost
    BY <1>5 DEF ExpiresSome
  <2> QED BY <2>1, <2>2 DEF Books!Next, Books!Expire, Books!Moves
<1> QED BY <1>2, <1>3, <1>4, <1>5, NextMoves

LEMMA InitBooks == Init => BooksInv /\ Books!Init
<1> SUFFICES ASSUME Init PROVE BooksInv /\ Books!Init
  OBVIOUS
<1>1. /\ DOMAIN series = {} /\ pending = {} /\ DOMAIN samples_min = {}
      /\ recorded = {} /\ lost = {}
  BY DEF Init, RecorderInit, StoreInit, EmptyTable
<1>2. Held = {} /\ Awaiting = {} /\ Persisted = {}
  BY <1>1 DEF Held, Awaiting, Persisted
<1> QED BY <1>1, <1>2 DEF BooksInv, Books!Init

(* Between any two statements of a daemon whose clock is not set back,     *)
(* every row is of its own minute and client, minutes are behind the one   *)
(* open, and no lost reading is anywhere else.                             *)
THEOREM LedgerHolds ==
  ASSUME StepBack = 0
  PROVE  Spec => []LedgerInv
<1>1. TypeOK /\ RowsInv /\ MinutesInv /\ [Next]_vars => MinutesInv'
  BY NextMinutesInv
<1>2. TypeOK /\ RowsInv /\ MinutesInv /\ BooksInv /\ [Next]_vars => BooksInv'
  BY NextBooksInv
<1>3. RowsInv /\ MinutesInv /\ BooksInv => LedgerInv
  BY DEF LedgerInv
<1> QED BY <1>1, <1>2, <1>3, InitBooks, InitMinutesInv, InitRowsInv, NextRowsInv, TypeCorrect,
           PTL DEF Spec

(* The detailed loop implements the abstract Ledger: whatever crashes or   *)
(* fails, readings wait, are saved or lost, and expire, and a saved one is *)
(* never lost, a lost one never saved and none counted in two places.      *)
THEOREM BooksAlwaysBalance ==
  ASSUME StepBack = 0
  PROVE  Spec => BooksBalance
<1>1. TypeOK /\ RowsInv /\ MinutesInv /\ BooksInv /\ [Next]_vars =>
          [Books!Next]_(Books!ledger)
  BY NextBalances
<1>2. LedgerInv => RowsInv /\ MinutesInv /\ BooksInv
  BY DEF LedgerInv
<1> QED BY <1>1, <1>2, InitBooks, LedgerHolds, TypeCorrect, PTL
        DEF Spec, BooksBalance, Books!Spec

-------------------------------------------------------------------------------
(* No second is counted twice.                                             *)

(* The interval of the next scan starts at the latest one, and nothing was *)
(* recorded after it.                                                      *)
SpansInv ==
    /\ SpansDisjoint
    /\ last_ts # NoTime => last_ts = now
    /\ \A s \in recorded : s.ts <= now /\ s.tick <= ticks

LEMMA InitSpansInv == Init => SpansInv
BY DEF Init, RecorderInit, SpansInv, SpansDisjoint

LEMMA TickSpansInv ==
  ASSUME StepBack = 0, TypeOK, SpansInv, NEW t \in ClockReadings, NEW new \in SUBSET Ip,
         NEW names \in NameTables, Tick(t, new, names)
  PROVE  SpansInv'
<1> DEFINE views == Views(seen \cup new, names)
           readings == Readings(views, t)
<1>1. /\ recorded' = recorded \cup readings /\ now' = t /\ ticks' = ticks + 1
      /\ last_ts' = t
  BY DEF Tick, Record
<1>2. /\ now \in Nat /\ t \in Nat /\ now <= t /\ ticks \in Nat
      /\ last_ts # NoTime => last_ts = now
  BY ClockMovesOn DEF TypeOK, SpansInv
<1>3. \A r \in readings : r.tick = ticks + 1 /\ r.ts = t /\ r.span = Interval(t)
  BY DEF Readings, Reading
<1>4. t - Interval(t) >= now
  BY <1>2 DEF Interval
<1> HIDE DEF readings, views
<1>5. \A s \in recorded : s.ts \in Nat /\ s.tick \in Nat /\ s.ts <= now /\ s.tick <= ticks
  BY ScanLoopAssumption DEF TypeOK, Sample, SpansInv
<1>6. SpansDisjoint'
  <2> SUFFICES ASSUME NEW r \in recorded', NEW s \in recorded', r.ip = s.ip, r.tick < s.tick
               PROVE  r.ts <= s.ts - s.span
    BY DEF SpansDisjoint
  <2>1. CASE s \in recorded
    <3>1. r \in recorded
      BY <1>1, <1>2, <1>3, <1>5, <2>1
    <3> QED BY <2>1, <3>1 DEF SpansInv, SpansDisjoint
  <2>2. CASE s \in readings
    <3>1. r \in recorded
      BY <1>1, <1>2, <1>3, <2>2
    <3>2. r.ts <= now /\ r.ts \in Nat /\ s.ts = t /\ s.span = Interval(t)
      BY <1>3, <1>5, <2>2, <3>1
    <3>3. Interval(t) \in Int
      BY <1>2 DEF Interval
    <3> QED BY <1>2, <1>4, <3>2, <3>3
  <2> QED BY <1>1, <2>1, <2>2
<1>7. \A s \in recorded' : s.ts <= now' /\ s.tick <= ticks'
  BY <1>1, <1>2, <1>3, <1>5
<1> QED BY <1>1, <1>6, <1>7 DEF SpansInv

LEMMA RestSpansInv ==
  ASSUME SpansInv, Save \/ Maintain \/ Publish \/ Crash \/ Restart \/ UNCHANGED vars
  PROVE  SpansInv'
<1>1. /\ recorded' = recorded /\ now' = now /\ ticks' = ticks
      /\ last_ts' \in {last_ts, NoTime}
  BY DEF Save, InsertRow, InsertRowFails, Upsert, UpsertFails, Saved, Maintain, RollupHour,
         RollupDay, RollupFails, PruneMin, PruneHour, PruneDay, PruneFails, Publish, Crash,
         Restart, GoTo, vars, loopVars, recorderVars, history
<1> QED BY <1>1 DEF SpansInv, SpansDisjoint

LEMMA NextSpansInv ==
  ASSUME StepBack = 0
  PROVE  TypeOK /\ SpansInv /\ [Next]_vars => SpansInv'
BY TickSpansInv, RestSpansInv DEF Next, Scan

(* While the clock is not set back, the seconds two readings of one        *)
(* address account for never overlap, whichever names the address had and  *)
(* however many scans or processes were between them: the volume the       *)
(* recorder stores is no second's traffic twice.                           *)
THEOREM NoSecondTwice ==
  ASSUME StepBack = 0
  PROVE  Spec => []SpansDisjoint
<1>1. TypeOK /\ SpansInv /\ [Next]_vars => SpansInv'
  BY NextSpansInv
<1>2. SpansInv => SpansDisjoint
  BY DEF SpansInv
<1> QED BY <1>1, <1>2, InitSpansInv, TypeCorrect, PTL DEF Spec

-------------------------------------------------------------------------------
(* Rows are of clients the clients table knows.                            *)

Known(s, id) ==
    /\ id \in DOMAIN clients
    /\ clients[id].first_seen <= s.ts /\ s.ts <= clients[id].last_seen

(* A reading still in RAM is known already, or is of this scan and its     *)
(* upsert is still to come.                                                *)
LifeInv ==
    /\ \A id \in DOMAIN clients : clients[id].first_seen <= now /\ clients[id].last_seen <= now
    /\ \A row \in pending : \A s \in row.of : Known(s, row.id)
    /\ \A id \in DOMAIN series : \A s \in series[id].cur_samples :
          Known(s, id) \/ (pc = "saving" /\ s.ts = now /\ \E v \in todo : v.mac = id)
    /\ \A k \in DOMAIN samples_min : \A s \in samples_min[k] : Known(s, k.id)

LEMMA InitLifeInv == Init => LifeInv
BY DEF Init, RecorderInit, StoreInit, EmptyTable, LifeInv

LEMMA ClientType ==
  ASSUME TypeOK, NEW id \in DOMAIN clients
  PROVE  clients[id].first_seen \in Nat /\ clients[id].last_seen \in Nat
BY DEF TypeOK, PartialFunction, Client

LEMMA TickLifeInv ==
  ASSUME StepBack = 0, TypeOK, MinutesInv, LifeInv, NEW t \in ClockReadings,
         NEW new \in SUBSET Ip, NEW names \in NameTables, Tick(t, new, names)
  PROVE  LifeInv'
<1> DEFINE views == Views(seen \cup new, names)
           readings == Readings(views, t)
           minute == t \div Minute
           mine(id) == { r \in readings : r.id = id }
<1>1. /\ Record(views, readings, t) /\ now' = t /\ pc = "sleeping" /\ pc' = "saving"
      /\ pending' = Finalized(views, minute) /\ todo' = views
      /\ samples_min' = samples_min /\ clients' = clients
  BY DEF Tick, storeVars
<1>2. t \in Nat /\ now \in Nat /\ now <= t
  BY ClockMovesOn DEF TypeOK
<1>3. \A id \in DOMAIN series : \A s \in series[id].cur_samples : Known(s, id)
  BY <1>1 DEF LifeInv
<1>4. \A id \in DOMAIN clients' : clients'[id].first_seen <= now' /\ clients'[id].last_seen <= now'
  BY <1>1, <1>2, ClientType DEF LifeInv
<1>5. \A row \in pending' : \A s \in row.of : Known(s, row.id)
  BY <1>1, <1>3 DEF Finalized, Aggregated
<1>6. ASSUME NEW id \in DOMAIN series', NEW s \in series'[id].cur_samples
      PROVE  \/ Known(s, id)
             \/ s.ts = t /\ \E v \in views : v.mac = id
  <2>1. /\ DOMAIN series' = DOMAIN series \cup Viewed(views)
        /\ \A d \in DOMAIN series \ Viewed(views) : series'[d] = series[d]
    BY <1>1, RecordMinutes
  <2>2. CASE id \notin Viewed(views)
    BY <1>3, <2>1, <2>2
  <2>3. CASE id \in Viewed(views)
    <3>1. series'[id] = AfterRecord(id, mine(id), minute)
      BY <1>1, <2>1, <2>3 DEF Record
    <3>2. \A r \in mine(id) : r.ts = t
      BY DEF Readings, Reading
    <3>3. \E v \in views : v.mac = id
      BY <2>3 DEF Viewed
    <3> HIDE DEF mine, views
    <3>4. series'[id].cur_samples = OpenMinute(SeriesOf(id, minute), mine(id), minute)
      BY <3>1 DEF AfterRecord
    <3>5. CASE s \in mine(id)
      BY <3>2, <3>3, <3>5
    <3>6. CASE s \notin mine(id)
      <4>1. s \in SeriesOf(id, minute).cur_samples
        BY <3>4, <3>6 DEF OpenMinute
      <4>2. id \in DOMAIN series /\ s \in series[id].cur_samples
        BY <4>1 DEF SeriesOf
      <4> QED BY <1>3, <4>2
    <3> QED BY <3>5, <3>6
  <2> QED BY <2>2, <2>3
<1> HIDE DEF views, readings
<1> QED BY <1>1, <1>4, <1>5, <1>6 DEF LifeInv, Known

LEMMA InsertLifeInv ==
  ASSUME TypeOK, MinutesInv, LifeInv, NEW row \in pending, InsertRow(row)
  PROVE  LifeInv'
<1>1. /\ series' = series /\ now' = now /\ pc' = pc /\ todo' = todo /\ clients' = clients
      /\ pending' = pending \ {row}
  BY DEF InsertRow, InsertMinute, recorderVars
<1>2. /\ DOMAIN samples_min' = DOMAIN samples_min \cup {KeyOf(row)}
      /\ samples_min'[KeyOf(row)] = row.of
      /\ \A k \in DOMAIN samples_min : samples_min'[k] = samples_min[k]
  BY InsertRowMinutesInv
<1>3. \A s \in row.of : Known(s, KeyOf(row).id)
  BY DEF LifeInv, KeyOf
<1>4. \A k \in DOMAIN samples_min' : \A s \in samples_min'[k] : Known(s, k.id)
  BY <1>2, <1>3 DEF LifeInv
<1> QED BY <1>1, <1>4 DEF LifeInv, Known

(* An upsert keeps the first sight of a client and moves its last to now.  *)
LEMMA UpsertLifeInv ==
  ASSUME TypeOK, LifeInv, NEW view \in todo, Upsert(view)
  PROVE  LifeInv'
<1>1. /\ series' = series /\ now' = now /\ pc' = pc /\ samples_min' = samples_min
      /\ pending' = pending /\ todo' = todo \ {view}
  BY DEF Upsert, UpsertClient, recorderVars
<1>2. /\ DOMAIN clients' = DOMAIN clients \cup {view.mac}
      /\ \A id \in DOMAIN clients \ {view.mac} : clients'[id] = clients[id]
      /\ clients'[view.mac].last_seen = now
      /\ clients'[view.mac].first_seen =
            IF view.mac \in DOMAIN clients THEN clients[view.mac].first_seen ELSE now
  BY DEF Upsert, UpsertClient
<1>3. now \in Nat
  BY DEF TypeOK
<1>4. \A id \in DOMAIN clients : /\ clients[id].first_seen \in Nat /\ clients[id].first_seen <= now
                                /\ clients[id].last_seen \in Nat /\ clients[id].last_seen <= now
  BY ClientType DEF LifeInv
<1>5. ASSUME NEW s, NEW id, Known(s, id), s.ts \in Nat PROVE Known(s, id)'
  BY <1>2, <1>3, <1>4, <1>5 DEF Known
<1>6. ASSUME NEW s, s.ts = now PROVE Known(s, view.mac)'
  BY <1>2, <1>3, <1>4, <1>6 DEF Known
<1>7. \A id \in DOMAIN clients' : clients'[id].first_seen <= now' /\ clients'[id].last_seen <= now'
  BY <1>1, <1>2, <1>3, <1>4
<1>8. /\ \A row \in pending : \A s \in row.of : s.ts \in Nat
      /\ \A k \in DOMAIN samples_min : \A s \in samples_min[k] : s.ts \in Nat
      /\ \A id \in DOMAIN series : \A s \in series[id].cur_samples : s.ts \in Nat
  BY DEF TypeOK, Row, Table, PartialFunction, Series, Sample
<1>9. \A row \in pending' : \A s \in row.of : Known(s, row.id)'
  BY <1>1, <1>5, <1>8 DEF LifeInv
<1>10. \A k \in DOMAIN samples_min' : \A s \in samples_min'[k] : Known(s, k.id)'
  BY <1>1, <1>5, <1>8 DEF LifeInv
<1>11. ASSUME NEW id \in DOMAIN series, NEW s \in series[id].cur_samples
       PROVE  Known(s, id)' \/ (pc = "saving" /\ s.ts = now /\ \E v \in todo' : v.mac = id)
  <2>1. CASE Known(s, id)
    BY <1>5, <1>8, <2>1
  <2>2. CASE pc = "saving" /\ s.ts = now /\ \E v \in todo : v.mac = id
    BY <1>1, <1>6, <2>2
  <2> QED BY <2>1, <2>2 DEF LifeInv
<1> QED BY <1>1, <1>7, <1>9, <1>10, <1>11 DEF LifeInv

LEMMA RestLifeInv ==
  ASSUME LifeInv, Saved \/ Maintain \/ Publish \/ Restart \/ Crash \/ UNCHANGED vars
  PROVE  LifeInv'
<1>1. /\ clients' = clients /\ now' = now
      /\ DOMAIN samples_min' \subseteq DOMAIN samples_min
      /\ \A k \in DOMAIN samples_min' : samples_min'[k] = samples_min[k]
  BY DEF Saved, Maintain, RollupHour, RollupMinToHour, RollupDay, RollupHourToDay,
         RollupFails, PruneMin, DeleteMin, PruneHour, DeleteHour, PruneDay, DeleteDay,
         PruneFails, Publish, Crash, Restart, GoTo, vars, loopVars, storeVars, Pruned
<1>2. CASE Crash
  <2>1. DOMAIN series' = {} /\ pending' = {}
    BY <1>2 DEF Crash
  <2> QED BY <1>1, <2>1 DEF LifeInv, Known
<1>3. CASE ~Crash
  <2>1. /\ series' = series /\ pending' = pending /\ todo' = todo
        /\ pc = "saving" => todo = {} \/ pc' = "saving"
    BY <1>3
       DEF Saved, Maintain, RollupHour, RollupDay, RollupFails, PruneMin, PruneHour, PruneDay,
           PruneFails, Publish, Restart, GoTo, vars, loopVars, recorderVars
  <2> QED BY <1>1, <2>1 DEF LifeInv, Known
<1> QED BY <1>2, <1>3

LEMMA NothingFails ==
  ASSUME MaxFailures = 0, TypeOK
  PROVE  ~StatementFails
BY DEF TypeOK, StatementFails

LEMMA NextLifeInv ==
  ASSUME StepBack = 0, MaxFailures = 0
  PROVE  TypeOK /\ MinutesInv /\ LifeInv /\ [Next]_vars => LifeInv'
<1> SUFFICES ASSUME TypeOK, MinutesInv, LifeInv, [Next]_vars PROVE LifeInv'
  OBVIOUS
<1>1. /\ \A row \in pending : ~InsertRowFails(row)
      /\ \A view \in todo : ~UpsertFails(view)
  BY NothingFails DEF InsertRowFails, UpsertFails
<1> QED BY <1>1, TickLifeInv, InsertLifeInv, UpsertLifeInv, RestLifeInv DEF Next, Scan, Save

(* While the clock is not set back and no statement fails, a saved minute  *)
(* belongs to a client of the clients table, seen from before its first    *)
(* reading to after its last, also between the insert and the upsert of    *)
(* one scan and when the process dies there.                               *)
THEOREM RowsAlwaysWithinLife ==
  ASSUME StepBack = 0, MaxFailures = 0
  PROVE  Spec => []RowsWithinClientLife
<1>1. TypeOK /\ MinutesInv /\ LifeInv /\ [Next]_vars => LifeInv'
  BY NextLifeInv
<1>2. TypeOK /\ MinutesInv /\ [Next]_vars => MinutesInv'
  BY NextMinutesInv
<1>3. RowsInv /\ LifeInv => RowsWithinClientLife
  <2> SUFFICES ASSUME RowsInv, LifeInv, NEW k \in DOMAIN samples_min
               PROVE  /\ k.id \in DOMAIN clients
                      /\ \A s \in samples_min[k] : clients[k.id].first_seen <= s.ts
                                                   /\ s.ts <= clients[k.id].last_seen
    BY DEF RowsWithinClientLife
  <2>1. samples_min[k] # {}
    BY DEF RowsInv, RowsMatchBuckets, RowsMatch
  <2> QED BY <2>1 DEF LifeInv, Known
<1> QED BY <1>1, <1>2, <1>3, InitLifeInv, InitRowsInv, NextRowsInv, InitMinutesInv, TypeCorrect,
           PTL DEF Spec
===============================================================================
