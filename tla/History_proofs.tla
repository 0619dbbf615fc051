---------------------------- MODULE History_proofs ----------------------------
(***************************************************************************)
(* What readers of the scan loop's state are shown, for every value of the *)
(* constants: the latest scan, whole; minutes in RAM that agree with the   *)
(* database; and charts that run forward in time and whose total is the    *)
(* sum of the clients.                                                     *)
(***************************************************************************)
EXTENDS History, ScanLoop_proofs, Data_proofs

-------------------------------------------------------------------------------
(* What a push leaves in a ring.                                           *)

(* p is all without its first elements, drop of them.                      *)
Slice(p, all, drop) ==
    /\ drop <= Len(all)
    /\ DOMAIN p = 1 .. Len(all) - drop
    /\ \A i \in 1 .. Len(all) - drop : p[i] = all[i + drop]

LEMMA PushedSlice ==
  ASSUME NEW T, NEW ring \in Seq(T), NEW items \in Seq(T), NEW c \in Nat
  PROVE  \E drop \in Nat :
            /\ Slice(Pushed(ring, items, c), ring \o items, drop)
            /\ Len(items) <= c => drop <= Len(ring)
            /\ Len(ring) + Len(items) - drop <= c
            /\ drop > 0 => Len(ring) + Len(items) - drop = c
<1> DEFINE all == ring \o items
           n == Len(all)
           drop == IF n > c THEN n - c ELSE 0
<1>1. all \in Seq(T) /\ n = Len(ring) + Len(items) /\ Len(ring) \in Nat /\ Len(items) \in Nat
  BY ConcatProperties, LenProperties
<1>2. Pushed(ring, items, c) = SubSeq(all, drop + 1, n)
  BY <1>1 DEF Pushed
<1>3. drop \in 0 .. n /\ (Len(items) <= c => drop <= Len(ring)) /\ n \in Nat
  BY <1>1
<1>4. \A i \in drop + 1 .. n : all[i] \in T
  BY <1>1, <1>3, ElementOfSeq, LenProperties
<1> HIDE DEF all, n, drop
<1>5. /\ SubSeq(all, drop + 1, n) \in Seq(T)
      /\ Len(SubSeq(all, drop + 1, n)) = n - drop
      /\ \A i \in 1 .. n - drop : SubSeq(all, drop + 1, n)[i] = all[i + drop]
  <2>1. n \in Int /\ drop + 1 \in Int /\ drop \in Int /\ drop <= n
    BY <1>3
  <2>2. /\ SubSeq(all, drop + 1, n) \in Seq(T)
        /\ Len(SubSeq(all, drop + 1, n)) = IF drop + 1 <= n THEN n - (drop + 1) + 1 ELSE 0
        /\ \A i \in 1 .. n - (drop + 1) + 1 :
              SubSeq(all, drop + 1, n)[i] = all[drop + 1 + i - 1]
    BY <1>4, <2>1, SubSeqProperties
  <2>3. n - (drop + 1) + 1 = n - drop /\ \A i \in Int : drop + 1 + i - 1 = i + drop
    BY <2>1
  <2> QED BY <2>1, <2>2, <2>3
<1>6. DOMAIN SubSeq(all, drop + 1, n) = 1 .. n - drop
  BY <1>5, LenProperties
<1>7. Slice(Pushed(ring, items, c), all, drop)
  BY <1>2, <1>3, <1>5, <1>6 DEF Slice, n
<1>8. drop \in Nat /\ (Len(items) <= c => drop <= Len(ring))
  BY <1>3
<1>9. n - drop <= c /\ (drop > 0 => n - drop = c)
  BY <1>3 DEF drop
<1> QED BY <1>1, <1>7, <1>8, <1>9 DEF all

LEMMA ConcatAt ==
  ASSUME NEW T, NEW ring \in Seq(T), NEW items \in Seq(T)
  PROVE  /\ Len(ring) \in Nat /\ DOMAIN ring = 1 .. Len(ring)
         /\ Len(items) \in Nat /\ DOMAIN items = 1 .. Len(items)
         /\ Len(ring \o items) = Len(ring) + Len(items)
         /\ \A k \in 1 .. Len(ring) : (ring \o items)[k] = ring[k]
         /\ \A k \in 1 .. Len(items) : (ring \o items)[Len(ring) + k] = items[k]
<1>1. /\ Len(ring) \in Nat /\ DOMAIN ring = 1 .. Len(ring)
      /\ Len(items) \in Nat /\ DOMAIN items = 1 .. Len(items)
  BY LenProperties
<1>2. Len(ring \o items) = Len(ring) + Len(items)
  BY ConcatProperties
<1>3. \A k \in 1 .. Len(ring) + Len(items) :
         (ring \o items)[k] = IF k <= Len(ring) THEN ring[k] ELSE items[k - Len(ring)]
  BY <1>1, ConcatProperties
<1>4. \A k \in 1 .. Len(items) : (ring \o items)[Len(ring) + k] = items[k]
  BY <1>1, <1>3
<1>5. \A k \in 1 .. Len(ring) : (ring \o items)[k] = ring[k]
  BY <1>1, <1>3
<1> QED BY <1>1, <1>2, <1>4, <1>5

LEMMA IntervalLength ==
  ASSUME NEW k \in Nat, NEW n \in Nat, 1 .. k = 1 .. n
  PROVE  k = n
<1>1. k > 0 => k \in 1 .. n
  OBVIOUS
<1>2. n > 0 => n \in 1 .. k
  OBVIOUS
<1> QED BY <1>1, <1>2

(* It holds nothing that was not in it or pushed.                          *)
LEMMA PushedFrom ==
  ASSUME NEW T, NEW ring \in Seq(T), NEW items \in Seq(T), NEW c \in Nat,
         NEW i \in DOMAIN Pushed(ring, items, c)
  PROVE  \/ \E j \in DOMAIN ring : Pushed(ring, items, c)[i] = ring[j]
         \/ \E j \in DOMAIN items : Pushed(ring, items, c)[i] = items[j]
<1>1. /\ Len(ring) \in Nat /\ DOMAIN ring = 1 .. Len(ring)
      /\ Len(items) \in Nat /\ DOMAIN items = 1 .. Len(items)
      /\ Len(ring \o items) = Len(ring) + Len(items)
      /\ \A k \in 1 .. Len(ring) : (ring \o items)[k] = ring[k]
      /\ \A k \in 1 .. Len(items) : (ring \o items)[Len(ring) + k] = items[k]
  BY ConcatAt
<1>2. PICK drop \in Nat : Slice(Pushed(ring, items, c), ring \o items, drop)
  BY PushedSlice
<1>3. /\ i \in 1 .. Len(ring) + Len(items) - drop
      /\ Pushed(ring, items, c)[i] = (ring \o items)[i + drop]
  <2>1. /\ DOMAIN Pushed(ring, items, c) = 1 .. Len(ring \o items) - drop
        /\ \A k \in DOMAIN Pushed(ring, items, c) :
              Pushed(ring, items, c)[k] = (ring \o items)[k + drop]
    BY <1>2 DEF Slice
  <2> QED BY <1>1, <2>1
<1>4. CASE i + drop <= Len(ring)
  BY <1>1, <1>3, <1>4
<1>5. CASE i + drop > Len(ring)
  <2> DEFINE j == i + drop - Len(ring)
  <2>1. j \in DOMAIN items /\ i + drop = Len(ring) + j
    BY <1>1, <1>3, <1>5
  <2> QED BY <1>1, <1>3, <2>1
<1> QED BY <1>1, <1>3, <1>4, <1>5

(* It holds all of what was pushed, as far as that fits.                   *)
LEMMA PushedIn ==
  ASSUME NEW T, NEW ring \in Seq(T), NEW items \in Seq(T), NEW c \in Nat,
         Len(items) <= c, NEW j \in DOMAIN items
  PROVE  \E i \in DOMAIN Pushed(ring, items, c) : Pushed(ring, items, c)[i] = items[j]
<1>1. /\ Len(ring) \in Nat /\ DOMAIN ring = 1 .. Len(ring)
      /\ Len(items) \in Nat /\ DOMAIN items = 1 .. Len(items)
      /\ Len(ring \o items) = Len(ring) + Len(items)
      /\ \A k \in 1 .. Len(items) : (ring \o items)[Len(ring) + k] = items[k]
  BY ConcatAt
<1>2. PICK drop \in Nat : /\ Slice(Pushed(ring, items, c), ring \o items, drop)
                          /\ drop <= Len(ring)
  BY PushedSlice
<1> DEFINE i == Len(ring) + j - drop
<1>3. i \in 1 .. Len(ring) + Len(items) - drop /\ i + drop = Len(ring) + j
  BY <1>1, <1>2
<1>4. i \in DOMAIN Pushed(ring, items, c)
      /\ Pushed(ring, items, c)[i] = (ring \o items)[Len(ring) + j]
  <2>1. /\ DOMAIN Pushed(ring, items, c) = 1 .. Len(ring \o items) - drop
        /\ \A k \in DOMAIN Pushed(ring, items, c) :
              Pushed(ring, items, c)[k] = (ring \o items)[k + drop]
    BY <1>2 DEF Slice
  <2> HIDE DEF i
  <2>2. i \in DOMAIN Pushed(ring, items, c)
    BY <1>1, <1>3, <2>1
  <2>3. Pushed(ring, items, c)[i] = (ring \o items)[i + drop]
    BY <2>1, <2>2
  <2> QED BY <1>3, <2>2, <2>3
<1>5. (ring \o items)[Len(ring) + j] = items[j]
  BY <1>1
<1> HIDE DEF i
<1> QED BY <1>4, <1>5

(* A full ring stays full, and drops an element only when it is full.      *)
LEMMA PushedKeeps ==
  ASSUME NEW T, NEW ring \in Seq(T), NEW items \in Seq(T), NEW c \in Nat
  PROVE  LET p == Pushed(ring, items, c)
         IN  /\ Len(ring) = c => Len(p) = c
             /\ \A j \in DOMAIN ring : Len(p) = c \/ \E i \in DOMAIN p : p[i] = ring[j]
<1> DEFINE p == Pushed(ring, items, c)
           all == ring \o items
<1>1. /\ Len(ring) \in Nat /\ DOMAIN ring = 1 .. Len(ring) /\ Len(items) \in Nat
      /\ Len(all) = Len(ring) + Len(items)
      /\ \A k \in 1 .. Len(ring) : all[k] = ring[k]
  BY ConcatAt
<1>2. PICK drop \in Nat : /\ Slice(p, all, drop)
                          /\ Len(ring) + Len(items) - drop <= c
                          /\ drop > 0 => Len(ring) + Len(items) - drop = c
  BY PushedSlice
<1>3. p \in Seq(T)
  BY PushedType
<1> HIDE DEF p, all
<1>4. /\ drop <= Len(all) /\ DOMAIN p = 1 .. Len(all) - drop
      /\ \A i \in 1 .. Len(all) - drop : p[i] = all[i + drop]
  BY <1>2 DEF Slice
<1>5. Len(p) = Len(all) - drop
  <2>1. Len(p) \in Nat /\ DOMAIN p = 1 .. Len(p)
    BY <1>3, LenProperties
  <2>2. Len(all) - drop \in Nat
    BY <1>1, <1>4
  <2> QED BY <1>4, <2>1, <2>2, IntervalLength
<1>6. drop > 0 => Len(p) = c
  BY <1>1, <1>2, <1>5
<1>7. drop = 0 /\ Len(ring) = c => Len(p) = c
  BY <1>1, <1>2, <1>5
<1>8. drop = 0 => \A j \in DOMAIN ring : j \in DOMAIN p /\ p[j] = ring[j]
  BY <1>1, <1>4
<1> QED BY <1>6, <1>7, <1>8 DEF p

(* A listing of a finite set names each of its elements.                   *)
LEMMA SetToSeqAll ==
  ASSUME NEW S, IsFiniteSet(S)
  PROVE  /\ Len(SetToSeq(S)) = Cardinality(S)
         /\ \A s \in S : \E j \in DOMAIN SetToSeq(S) : SetToSeq(S)[j] = s
         /\ \A j \in DOMAIN SetToSeq(S) : SetToSeq(S)[j] \in S
<1> DEFINE n == Cardinality(S)
           Listing(f) == f \in [1 .. n -> S] /\ IsInjective(f)
<1>1. n \in Nat /\ ExistsBijection(1 .. n, S)
  BY FS_CardinalityType
<1>2. \E f : Listing(f)
  BY <1>1 DEF ExistsBijection, Bijection, Injection, IsInjective
<1>3. Listing(SetToSeq(S))
  BY <1>2 DEF SetToSeq
<1>4. SetToSeq(S) \in Injection(1 .. n, S)
  BY <1>3 DEF Injection, IsInjective
<1>5. IsFiniteSet(1 .. n) /\ Cardinality(1 .. n) = n
  BY <1>1, FS_Interval
<1>6. SetToSeq(S) \in Surjection(1 .. n, S)
  BY <1>4, <1>5, FS_Injection
<1> QED BY <1>1, <1>3, <1>6 DEF Surjection

-------------------------------------------------------------------------------
(* What the control socket lists is one scan.                              *)

(* At most RealtimeCap of the addresses have one name at a time: a client  *)
(* with more would push its own first readings out within one scan.        *)
FewAddressesPerClient ==
    \A names \in NameTables, id \in Id : Cardinality({ ip \in Ip : names[ip] = id }) <= RealtimeCap

(* From the scan on the snapshot is what was recorded, and it is what the  *)
(* socket lists once the mutex is free again.                              *)
ReadersInv ==
    /\ last_ts # NoTime =>
          /\ snap = { [mac |-> s.id, ip |-> s.ip] : s \in Latest }
          /\ \A s \in Latest :
                /\ s.id \in DOMAIN series
                /\ \E i \in DOMAIN series[s.id].realtime : series[s.id].realtime[i] = s
    /\ pc = "sleeping" /\ last_ts # NoTime => shown = snap
    /\ pc = "down" => last_ts = NoTime

LEMMA InitReadersInv == Init => ReadersInv
BY DEF Init, RecorderInit, ReadersInv

(* The readings of one client in one scan fit in its ring.                 *)
LEMMA FewReadings ==
  ASSUME FewAddressesPerClient, TypeOK, NEW ips \in SUBSET Ip, NEW names \in NameTables,
         NEW t, NEW id \in Id
  PROVE  LET new == { r \in Readings(Views(ips, names), t) : r.id = id }
         IN  IsFiniteSet(new) /\ Cardinality(new) <= RealtimeCap
<1> DEFINE R == Readings(Views(ips, names), t)
           new == { r \in R : r.id = id }
           named == { ip \in Ip : names[ip] = id }
           f == [ ip \in ips \cap named |-> Reading([mac |-> names[ip], ip |-> ip], ticks + 1, t) ]
<1>1. IsFiniteSet(named) /\ IsFiniteSet(ips \cap named)
      /\ Cardinality(ips \cap named) <= Cardinality(named)
  <2>1. IsFiniteSet(named)
    BY ScanLoopAssumption, FS_Subset
  <2>2. ips \cap named \in SUBSET named
    OBVIOUS
  <2> HIDE DEF named
  <2> QED BY <2>1, <2>2, FS_Subset
<1>2. f \in Surjection(ips \cap named, new)
  <2>1. ASSUME NEW ip \in ips \cap named PROVE f[ip] \in new
    <3>1. [mac |-> names[ip], ip |-> ip] \in Views(ips, names)
      BY DEF Views
    <3>2. f[ip] \in R
      BY <3>1 DEF Readings
    <3>3. f[ip].id = id
      BY DEF Reading
    <3> QED BY <3>2, <3>3
  <2>2. ASSUME NEW r \in new PROVE \E ip \in ips \cap named : f[ip] = r
    <3>1. PICK ip \in ips : r = Reading([mac |-> names[ip], ip |-> ip], ticks + 1, t)
      BY DEF Readings, Views
    <3>2. ip \in named
      BY <3>1 DEF Reading
    <3> QED BY <3>1, <3>2
  <2> HIDE DEF new
  <2> QED BY <2>1, <2>2 DEF Surjection
<1>3. IsFiniteSet(new) /\ Cardinality(new) <= Cardinality(ips \cap named)
  BY <1>1, <1>2, FS_Surjection
<1>4. Cardinality(named) <= RealtimeCap
  BY DEF FewAddressesPerClient
<1>5. Cardinality(named) \in Nat /\ Cardinality(ips \cap named) \in Nat /\ Cardinality(new) \in Nat
  BY <1>1, <1>3, FS_CardinalityType
<1> HIDE DEF named, new
<1>6. Cardinality(new) <= RealtimeCap
  BY <1>1, <1>3, <1>4, <1>5, RecorderAssumption
<1> QED BY <1>3, <1>6 DEF new

(* After record each of the new readings is in the ring of its client.     *)
LEMMA RecordShows ==
  ASSUME FewAddressesPerClient, TypeOK, ticks < MaxTicks, NEW ips \in SUBSET Ip,
         NEW names \in NameTables, NEW t \in Nat,
         Record(Views(ips, names), Readings(Views(ips, names), t), t),
         NEW s \in Readings(Views(ips, names), t)
  PROVE  /\ s.id \in DOMAIN series'
         /\ \E i \in DOMAIN series'[s.id].realtime : series'[s.id].realtime[i] = s
<1> DEFINE views == Views(ips, names)
           new == { r \in Readings(views, t) : r.id = s.id }
           ring == SeriesOf(s.id, t \div Minute).realtime
<1>1. views \in SUBSET View /\ Readings(views, t) \subseteq Sample
  BY ViewsType, ReadingsType
<1>2. s.id \in Viewed(views) /\ s.id \in Id
  <2>1. PICK v \in views : s = Reading(v, ticks + 1, t)
    BY DEF Readings
  <2> HIDE DEF views
  <2>2. s.id = v.mac
    BY <2>1 DEF Reading
  <2> QED BY <1>1, <2>2 DEF Viewed, View
<1>3. IsFiniteSet(new) /\ Cardinality(new) <= RealtimeCap
  BY <1>2, FewReadings
<1>4. /\ s.id \in DOMAIN series'
      /\ series'[s.id] = AfterRecord(s.id, new, t \div Minute)
  BY <1>2 DEF Record
<1>5. s \in new /\ new \in SUBSET Sample
  BY <1>1
<1>6. ring \in Seq(Sample)
  <2>1. SeriesOf(s.id, t \div Minute) \in Series
    BY <1>2, MinuteIsNat, SeriesOfType
  <2> QED BY <2>1 DEF Series
<1> HIDE DEF new, views
<1>7. SetToSeq(new) \in Seq(Sample) /\ Len(SetToSeq(new)) <= RealtimeCap
      /\ \E j \in DOMAIN SetToSeq(new) : SetToSeq(new)[j] = s
  BY <1>3, <1>5, SetToSeqType, SetToSeqAll
<1>8. series'[s.id].realtime = Pushed(ring, SetToSeq(new), RealtimeCap)
  BY <1>4 DEF AfterRecord
<1> HIDE DEF ring
<1>9. RealtimeCap \in Nat
  BY RecorderAssumption
<1> QED BY <1>4, <1>6, <1>7, <1>8, <1>9, PushedIn

LEMMA TickReadersInv ==
  ASSUME FewAddressesPerClient, TypeOK, ReadersInv, \A s \in recorded : s.tick <= ticks,
         NEW t \in ClockReadings, NEW new \in SUBSET Ip,
         NEW names \in NameTables, Tick(t, new, names)
  PROVE  ReadersInv'
<1> DEFINE ips == seen \cup new
           views == Views(ips, names)
           readings == Readings(views, t)
<1>1. /\ recorded' = recorded \cup readings /\ ticks' = ticks + 1 /\ pc' = "saving"
      /\ snap' = views /\ ticks < MaxTicks /\ Record(views, readings, t)
  BY DEF Tick
<1>2. t \in Nat /\ ips \in SUBSET Ip /\ ticks \in Nat
  BY ClockIsNat DEF TypeOK
<1>3. \A r \in readings : r.tick = ticks + 1
  BY DEF Readings, Reading
<1>4. Latest' = readings
  <2>1. \A s \in recorded : s.tick # ticks + 1
    <3> SUFFICES ASSUME NEW s \in recorded PROVE s.tick # ticks + 1
      OBVIOUS
    <3>1. s \in Sample
      BY DEF TypeOK
    <3>2. s.tick \in Nat /\ s.tick <= ticks
      BY <3>1, ScanLoopAssumption DEF Sample
    <3> QED BY <1>2, <3>2
  <2> HIDE DEF readings
  <2> QED BY <1>1, <1>3, <2>1 DEF Latest
<1>5. \A s \in readings :
         /\ s.id \in DOMAIN series'
         /\ \E i \in DOMAIN series'[s.id].realtime : series'[s.id].realtime[i] = s
  BY <1>1, <1>2, RecordShows
<1>6. views = { [mac |-> s.id, ip |-> s.ip] : s \in readings }
  <2>1. ASSUME NEW v \in views
        PROVE  /\ Reading(v, ticks + 1, t) \in readings
               /\ v = [mac |-> Reading(v, ticks + 1, t).id, ip |-> Reading(v, ticks + 1, t).ip]
    BY DEF Readings, Reading, Views
  <2>2. ASSUME NEW s \in readings
        PROVE  [mac |-> s.id, ip |-> s.ip] \in views
    BY DEF Readings, Reading, Views
  <2> HIDE DEF views, readings
  <2> QED BY <2>1, <2>2
<1> HIDE DEF readings, views
<1> QED BY <1>1, <1>4, <1>5, <1>6 DEF ReadersInv

LEMMA RestReadersInv ==
  ASSUME ReadersInv, Save \/ Maintain \/ Publish \/ Crash \/ Restart \/ UNCHANGED vars
  PROVE  ReadersInv'
<1>1. CASE Crash
  BY <1>1 DEF Crash, ReadersInv
<1>2. CASE Publish
  BY <1>2 DEF Publish, ReadersInv, Latest, recorderVars, history
<1>3. CASE Restart
  BY <1>3 DEF Restart, ReadersInv, Latest, recorderVars, history
<1>4. CASE Save \/ Maintain
  <2>1. /\ series' = series /\ last_ts' = last_ts /\ recorded' = recorded /\ ticks' = ticks
        /\ snap' = snap /\ pc' \notin {"sleeping", "down"}
    BY <1>4
       DEF Save, InsertRow, InsertRowFails, Upsert, UpsertFails, Saved, Maintain, RollupHour,
           RollupDay, RollupFails, PruneMin, PruneHour, PruneDay, PruneFails, GoTo,
           recorderVars, history
  <2> QED BY <2>1 DEF ReadersInv, Latest
<1>5. CASE UNCHANGED vars
  BY <1>5 DEF vars, loopVars, recorderVars, history, ReadersInv, Latest
<1> QED BY <1>1, <1>2, <1>3, <1>4, <1>5

(* The ticks of what is recorded, whatever the clock does.                 *)
TicksInv == \A s \in recorded : s.tick <= ticks

LEMMA NextTicksInv == TypeOK /\ TicksInv /\ [Next]_vars => TicksInv'
<1> SUFFICES ASSUME TypeOK, TicksInv, [Next]_vars PROVE TicksInv'
  OBVIOUS
<1>1. ASSUME NEW t \in ClockReadings, NEW new \in SUBSET Ip, NEW names \in NameTables,
             Tick(t, new, names)
      PROVE  TicksInv'
  <2>1. \A r \in Readings(Views(seen \cup new, names), t) : r.tick = ticks + 1
    BY DEF Readings, Reading
  <2>2. ticks \in Nat /\ ticks' = ticks + 1
        /\ recorded' = recorded \cup Readings(Views(seen \cup new, names), t)
    BY <1>1 DEF TypeOK, Tick
  <2>3. \A s \in recorded : s.tick \in Nat /\ s.tick <= ticks
    BY ScanLoopAssumption DEF TypeOK, Sample, TicksInv
  <2> QED BY <2>1, <2>2, <2>3 DEF TicksInv
<1>2. CASE Save \/ Maintain \/ Publish \/ Crash \/ Restart \/ UNCHANGED vars
  <2>1. recorded' = recorded /\ ticks' = ticks
    BY <1>2
       DEF Save, InsertRow, InsertRowFails, Upsert, UpsertFails, Saved, Maintain, RollupHour,
           RollupDay, RollupFails, PruneMin, PruneHour, PruneDay, PruneFails, Publish, Crash,
           Restart, GoTo, vars, loopVars, history
  <2> QED BY <2>1 DEF TicksInv
<1> QED BY <1>1, <1>2 DEF Next, Scan

(* Whatever crashes, fails or happens to the clock, a reader of the        *)
(* control socket sees one whole scan: the clients the latest scan         *)
(* recorded, each with that very reading in its realtime ring.             *)
THEOREM ReadersAlwaysSeeOneScan ==
  ASSUME FewAddressesPerClient
  PROVE  Spec => []ReadersSeeOneScan
<1>1. TypeOK /\ TicksInv /\ ReadersInv /\ [Next]_vars => ReadersInv'
  BY TickReadersInv, RestReadersInv DEF TicksInv, Next, Scan
<1>2. Init => TicksInv
  BY DEF Init, TicksInv
<1>3. ReadersInv => ReadersSeeOneScan
  BY DEF ReadersInv, ReadersSeeOneScan
<1> QED BY <1>1, <1>2, <1>3, InitReadersInv, NextTicksInv, TypeCorrect, PTL DEF Spec

-------------------------------------------------------------------------------
(* The minutes in RAM and the rows on disk are the same.                   *)

(* An entry of the ring of id, and where its row may be. *)
Filed(id, entry) ==
    /\ entry.id = id
    /\ \/ KeyOf(entry) \in DOMAIN samples_min /\ samples_min[KeyOf(entry)] = entry.of
       \/ entry \in pending
       \/ entry.ts < now - MinSecs
       \/ entry.of \subseteq lost

RingInv ==
    \A id \in DOMAIN series : \A i \in DOMAIN series[id].minutes : Filed(id, series[id].minutes[i])

LEMMA RingType ==
  ASSUME TypeOK, NEW id \in DOMAIN series
  PROVE  /\ series[id] \in Series /\ series[id].minutes \in Seq(Row)
         /\ \A i \in DOMAIN series[id].minutes : series[id].minutes[i] \in Row
<1>1. series[id] \in Series
  BY DEF TypeOK, PartialFunction
<1>2. series[id].minutes \in Seq(Row)
  BY <1>1 DEF Series
<1> QED BY <1>1, <1>2, ElementOfSeq, LenProperties

LEMMA InitRingInv == Init => RingInv
BY DEF Init, RecorderInit, RingInv

(* What record adds to a ring of minutes is a row it finalizes.            *)
LEMMA RecordFiles ==
  ASSUME TypeOK, NEW views \in SUBSET View, NEW readings, NEW t \in Nat,
         Record(views, readings, t),
         NEW id \in DOMAIN series', NEW i \in DOMAIN series'[id].minutes
  PROVE  \/ /\ id \in DOMAIN series
            /\ \E j \in DOMAIN series[id].minutes : series'[id].minutes[i] = series[id].minutes[j]
         \/ /\ series'[id].minutes[i].id = id
            /\ series'[id].minutes[i] \in Finalized(views, t \div Minute)
<1> DEFINE minute == t \div Minute
           s == SeriesOf(id, minute)
           row == Aggregated(id, s)
<1>1. DOMAIN series' = DOMAIN series \cup Viewed(views)
      /\ \A d \in DOMAIN series \ Viewed(views) : series'[d] = series[d]
  BY RecordMinutes
<1>2. CASE id \notin Viewed(views)
  BY <1>1, <1>2
<1>3. CASE id \in Viewed(views) /\ ~RollsOver(s, minute)
  <2>1. series'[id].minutes = s.minutes
    BY <1>1, <1>3 DEF Record, AfterRecord
  <2>2. CASE id \in DOMAIN series
    BY <2>1, <2>2 DEF SeriesOf
  <2>3. CASE id \notin DOMAIN series
    <3>1. s.minutes = << >>
      BY <2>3 DEF SeriesOf
    <3>2. DOMAIN s.minutes = {}
      BY <3>1
    <3> QED BY <2>1, <3>2
  <2> QED BY <2>2, <2>3
<1>4. CASE id \in Viewed(views) /\ RollsOver(s, minute)
  <2>1. series'[id].minutes = Pushed(s.minutes, << row >>, MinuteCap)
    BY <1>1, <1>4 DEF Record, AfterRecord
  <2>2. id \in DOMAIN series /\ s = series[id]
    BY <1>4 DEF SeriesOf, RollsOver
  <2>3. id \in Id /\ s \in Series /\ s.minutes \in Seq(Row)
    BY <2>2, RingType DEF TypeOK, PartialFunction
  <2>4. row \in Row /\ << row >> \in Seq(Row)
    BY <2>3, AggregatedType
  <2>5. row.id = id /\ row \in Finalized(views, minute)
    BY <1>4, <2>2 DEF Aggregated, Finalized
  <2>6. MinuteCap \in Nat /\ i \in DOMAIN Pushed(s.minutes, << row >>, MinuteCap)
    BY <2>1, RecorderAssumption
  <2> DEFINE ring == s.minutes
             items == << row >>
  <2> HIDE DEF s, row, ring, items
  <2>7. \/ \E j \in DOMAIN ring : Pushed(ring, items, MinuteCap)[i] = ring[j]
        \/ \E j \in DOMAIN items : Pushed(ring, items, MinuteCap)[i] = items[j]
    <3>1. ring \in Seq(Row) /\ items \in Seq(Row) /\ i \in DOMAIN Pushed(ring, items, MinuteCap)
      BY <2>3, <2>4, <2>6 DEF ring, items
    <3> QED BY <2>6, <3>1, PushedFrom
  <2>8. \A j \in DOMAIN items : items[j] = row
    BY DEF items
  <2> QED BY <2>1, <2>2, <2>5, <2>7, <2>8 DEF ring, items
<1> QED BY <1>2, <1>3, <1>4

LEMMA TickRingInv ==
  ASSUME StepBack = 0, TypeOK, MinutesInv, RingInv, NEW t \in ClockReadings,
         NEW new \in SUBSET Ip, NEW names \in NameTables, Tick(t, new, names)
  PROVE  RingInv'
<1> DEFINE views == Views(seen \cup new, names)
<1>1. /\ Record(views, Readings(views, t), t) /\ now' = t
      /\ pending' = Finalized(views, t \div Minute)
      /\ samples_min' = samples_min /\ lost' = lost
  BY DEF Tick, storeVars
<1>2. views \in SUBSET View /\ t \in Nat /\ now \in Nat /\ now <= t
  BY ViewsType, ClockMovesOn DEF TypeOK
<1>3. pending = {}
  BY DEF Tick, MinutesInv, PendingRowsNew
<1> HIDE DEF views
<1> SUFFICES ASSUME NEW id \in DOMAIN series', NEW i \in DOMAIN series'[id].minutes
             PROVE  LET e == series'[id].minutes[i]
                    IN  /\ e.id = id
                        /\ \/ KeyOf(e) \in DOMAIN samples_min' /\ samples_min'[KeyOf(e)] = e.of
                           \/ e \in pending'
                           \/ e.ts < now' - MinSecs
                           \/ e.of \subseteq lost'
  BY DEF RingInv, Filed, KeyOf
<1> DEFINE entry == series'[id].minutes[i]
<1>4. CASE entry.id = id /\ entry \in Finalized(views, t \div Minute)
  BY <1>1, <1>4 DEF Filed
<1>5. CASE id \in DOMAIN series /\ \E j \in DOMAIN series[id].minutes : entry = series[id].minutes[j]
  <2>1. entry \in Row /\ Filed(id, entry)
    BY <1>5, RingType DEF RingInv
  <2>2. entry.ts < now - MinSecs => entry.ts < t - MinSecs
    BY <1>2, <2>1, StoreAssumption DEF Row
  <2> HIDE DEF entry
  <2> QED BY <1>1, <1>3, <2>1, <2>2 DEF Filed, KeyOf, entry
<1> QED BY <1>1, <1>2, <1>4, <1>5, RecordFiles

LEMMA SaveRingInv ==
  ASSUME TypeOK, MinutesInv, RingInv, NEW row \in pending, InsertRow(row) \/ InsertRowFails(row)
  PROVE  RingInv'
<1>1. series' = series /\ now' = now /\ pending' = pending \ {row}
  BY DEF InsertRow, InsertRowFails, recorderVars
<1> SUFFICES ASSUME NEW id \in DOMAIN series, NEW i \in DOMAIN series[id].minutes
             PROVE  Filed(id, series[id].minutes[i])'
  BY <1>1 DEF RingInv
<1> DEFINE entry == series[id].minutes[i]
<1>2. Filed(id, entry)
  BY DEF RingInv
<1> HIDE DEF entry
<1>3. CASE InsertRow(row)
  <2>1. /\ DOMAIN samples_min' = DOMAIN samples_min \cup {KeyOf(row)}
        /\ samples_min'[KeyOf(row)] = row.of
        /\ \A k \in DOMAIN samples_min : samples_min'[k] = samples_min[k]
    BY <1>3, InsertRowMinutesInv
  <2>2. lost' = lost
    BY <1>3 DEF InsertRow, history
  <2> QED BY <1>1, <1>2, <2>1, <2>2 DEF Filed, KeyOf, entry
<1>4. CASE InsertRowFails(row)
  <2>1. samples_min' = samples_min /\ lost' = lost \cup row.of
    BY <1>4 DEF InsertRowFails, storeVars
  <2> QED BY <1>1, <1>2, <2>1 DEF Filed, KeyOf, entry
<1> QED BY <1>3, <1>4

LEMMA PruneRingInv ==
  ASSUME TypeOK, RingInv, PruneMin
  PROVE  RingInv'
<1>1. /\ series' = series /\ now' = now /\ pending' = pending /\ lost' = lost
      /\ samples_min' = Pruned(samples_min, now - MinSecs)
  BY DEF PruneMin, DeleteMin, GoTo, recorderVars
<1> SUFFICES ASSUME NEW id \in DOMAIN series, NEW i \in DOMAIN series[id].minutes
             PROVE  Filed(id, series[id].minutes[i])'
  BY <1>1 DEF RingInv
<1> DEFINE entry == series[id].minutes[i]
<1>2. Filed(id, entry) /\ entry \in Row
  BY RingType DEF RingInv
<1> HIDE DEF entry
<1>3. entry.ts \in Nat /\ now - MinSecs \in Int /\ KeyOf(entry).ts = entry.ts
  BY <1>2, StoreAssumption DEF TypeOK, Row, KeyOf
<1>4. KeyOf(entry) \in DOMAIN samples_min /\ entry.ts >= now - MinSecs
         => KeyOf(entry) \in DOMAIN samples_min' /\ samples_min'[KeyOf(entry)] = samples_min[KeyOf(entry)]
  BY <1>1, <1>3 DEF Pruned
<1> QED BY <1>1, <1>2, <1>3, <1>4 DEF Filed, KeyOf, entry

LEMMA RestRingInv ==
  ASSUME RingInv,
         \/ \E view \in todo : Upsert(view) \/ UpsertFails(view)
         \/ Saved \/ (Maintain /\ ~PruneMin) \/ Publish \/ Restart \/ Crash \/ UNCHANGED vars
  PROVE  RingInv'
<1>1. CASE Crash
  BY <1>1 DEF Crash, RingInv
<1>2. CASE ~Crash
  <2>1. /\ series' = series /\ now' = now /\ lost' = lost
        /\ pending' = pending /\ samples_min' = samples_min
    BY <1>2 DEF Upsert, UpsertClient, UpsertFails, Saved, Maintain, RollupHour,
           RollupMinToHour, RollupDay, RollupHourToDay, RollupFails, PruneHour, DeleteHour,
           PruneDay, DeleteDay, PruneFails, Publish, Restart, GoTo, vars, loopVars,
           recorderVars, storeVars, history
  <2> QED BY <2>1 DEF RingInv, Filed, KeyOf
<1> QED BY <1>1, <1>2

LEMMA NextRingInv ==
  ASSUME StepBack = 0
  PROVE  TypeOK /\ MinutesInv /\ RingInv /\ [Next]_vars => RingInv'
BY TickRingInv, SaveRingInv, PruneRingInv, RestRingInv DEF Next, Scan, Save, Maintain

(* While the clock is not set back, the Day chart shows what the database  *)
(* holds: a minute read from the ring is the row samples_min has for it,   *)
(* unless its insert is still to come, failed, or its row has expired.     *)
THEOREM RingAlwaysAgrees ==
  ASSUME StepBack = 0
  PROVE  Spec => []RingAgreesWithStore
<1>1. TypeOK /\ MinutesInv /\ RingInv /\ [Next]_vars => RingInv'
  BY NextRingInv
<1>2. TypeOK /\ MinutesInv /\ [Next]_vars => MinutesInv'
  BY NextMinutesInv
<1>3. RingInv => RingAgreesWithStore
  <2> SUFFICES ASSUME RingInv, NEW id \in DOMAIN series, NEW i \in DOMAIN series[id].minutes
               PROVE  LET entry == series[id].minutes[i]
                          key == [ts |-> entry.ts, id |-> id]
                      IN  \/ key \in DOMAIN samples_min /\ samples_min[key] = entry.of
                          \/ entry \in pending
                          \/ entry.ts < now - MinSecs
                          \/ entry.of \subseteq lost
    BY DEF RingAgreesWithStore
  <2>1. Filed(id, series[id].minutes[i])
    BY DEF RingInv
  <2> QED BY <2>1 DEF Filed, KeyOf
<1> QED BY <1>1, <1>2, <1>3, InitRingInv, InitMinutesInv, TypeCorrect, PTL DEF Spec

-------------------------------------------------------------------------------
(* Charts.                                                                 *)

LEMMA ListingLength ==
  ASSUME NEW n \in Nat, NEW f, f = [ i \in 1 .. n |-> f[i] ]
  PROVE  Len(f) = n /\ f \in Seq({ f[i] : i \in 1 .. n })
<1> DEFINE T == { f[i] : i \in 1 .. n }
<1>1. f \in [1 .. n -> T]
  OBVIOUS
<1>2. f \in Seq(T)
  <2>1. f \in UNION { [1 .. k -> T] : k \in Nat }
    BY <1>1
  <2> HIDE DEF T
  <2> QED BY <2>1, SeqDef
<1>3. DOMAIN f = 1 .. n
  BY <1>1
<1> HIDE DEF T
<1>4. Len(f) \in Nat /\ 1 .. Len(f) = 1 .. n
  BY <1>2, <1>3, LenProperties
<1>5. Len(f) = n
  BY <1>4, IntervalLength
<1> QED BY <1>2, <1>5 DEF T

(* The chart has one point per time of points, in order, and at each time  *)
(* the readings of all of them.                                            *)
Groups(chart, points) ==
    /\ chart # << >> => Len(chart) # 0
    /\ Len(chart) \in Nat /\ DOMAIN chart = 1 .. Len(chart)
    /\ \A i, j \in DOMAIN chart : i < j => chart[i].ts < chart[j].ts
    /\ \A i \in DOMAIN chart :
          /\ \E p \in points : p.ts = chart[i].ts
          /\ chart[i].of = UNION { p.of : p \in { q \in points : q.ts = chart[i].ts } }
    /\ \A p \in points : \E i \in DOMAIN chart : chart[i].ts = p.ts

LEMMA ByTimeGroups ==
  ASSUME NEW lo \in Int, NEW hi \in Int, NEW points, \A p \in points : p.ts \in lo .. hi
  PROVE  Groups(ByTime(points), points)
<1> DEFINE T == { p.ts : p \in points }
           times == Ascending(T)
           n == Cardinality(T)
           chart == ByTime(points)
<1>1. T \in SUBSET (lo .. hi) /\ T \subseteq Int
  OBVIOUS
<1>2. IsFiniteSet(T)
  <2>1. IsFiniteSet(lo .. hi)
    BY FS_Interval
  <2> HIDE DEF T
  <2> QED BY <1>1, <2>1, FS_Subset
<1>3. chart = [ i \in DOMAIN times |->
            [ts |-> times[i], of |-> UNION { p.of : p \in { q \in points : q.ts = times[i] } }] ]
  BY DEF ByTime
<1>4. /\ \A t \in T : \E p \in points : p.ts = t
      /\ \A p \in points : p.ts \in T
  OBVIOUS
<1> HIDE DEF T, chart
<1>5. /\ n \in Nat /\ times \in [1 .. n -> T]
      /\ \A i, j \in 1 .. n : i < j => times[i] < times[j]
      /\ \A t \in T : \E i \in 1 .. n : times[i] = t
  BY <1>1, <1>2, AscendingSorts
<1> HIDE DEF times, n
<1>6. /\ DOMAIN times = 1 .. n /\ \A i \in 1 .. n : times[i] \in T
      /\ DOMAIN chart = 1 .. n
  BY <1>3, <1>5
<1>7. \A i \in 1 .. n : /\ chart[i].ts = times[i]
                        /\ chart[i].of = UNION { p.of : p \in { q \in points : q.ts = times[i] } }
  BY <1>3, <1>6
<1>8. \A i \in 1 .. n : chart[i].of = UNION { p.of : p \in { q \in points : q.ts = chart[i].ts } }
  BY <1>7
<1>9. \A i, j \in DOMAIN chart : i < j => chart[i].ts < chart[j].ts
  BY <1>5, <1>6, <1>7
<1>10. \A i \in DOMAIN chart : \E p \in points : p.ts = chart[i].ts
  BY <1>4, <1>6, <1>7
<1>11. Len(chart) = n /\ (chart # << >> => Len(chart) # 0)
  <2>1. chart = [ i \in 1 .. n |-> chart[i] ]
    BY <1>3, <1>6
  <2> QED BY <1>5, <2>1, ListingLength, EmptySeq
<1>12. \A p \in points : \E i \in DOMAIN chart : chart[i].ts = p.ts
  <2> SUFFICES ASSUME NEW p \in points PROVE \E i \in DOMAIN chart : chart[i].ts = p.ts
    OBVIOUS
  <2>1. PICK i \in 1 .. n : times[i] = p.ts
    BY <1>4, <1>5
  <2> QED BY <1>6, <1>7, <2>1
<1> QED BY <1>5, <1>6, <1>8, <1>9, <1>10, <1>11, <1>12 DEF chart, Groups

(* When every reading belongs to the time of its point, no two points of   *)
(* the chart have a reading in common.                                     *)
LEMMA ByTimeApart ==
  ASSUME NEW lo \in Int, NEW hi \in Int, NEW points, \A p \in points : p.ts \in lo .. hi,
         NEW time, \A p \in points : \A s \in p.of : time[s] = p.ts,
         NEW i \in DOMAIN ByTime(points), NEW j \in DOMAIN ByTime(points), i # j
  PROVE  ByTime(points)[i].of \cap ByTime(points)[j].of = {}
<1> DEFINE chart == ByTime(points)
<1>1. Groups(chart, points)
  BY ByTimeGroups
<1> HIDE DEF chart
<1>2. ASSUME NEW k \in DOMAIN chart, NEW s \in chart[k].of PROVE time[s] = chart[k].ts
  BY <1>1, <1>2 DEF Groups
<1>3. \A k \in DOMAIN chart : k \in Int /\ chart[k].ts \in Int
  BY <1>1 DEF Groups
<1>4. chart[i].ts # chart[j].ts
  <2>1. i \in DOMAIN chart /\ j \in DOMAIN chart /\ (i < j \/ j < i)
    BY <1>3 DEF chart
  <2>2. chart[i].ts < chart[j].ts \/ chart[j].ts < chart[i].ts
    BY <1>1, <2>1 DEF Groups
  <2> QED BY <1>3, <2>1, <2>2
<1> QED BY <1>2, <1>4 DEF chart

(* A chart from RAM is the samples of the ring in range, in the order of   *)
(* the ring.                                                               *)
LEMMA RamSeriesKeeps ==
  ASSUME NEW tier, NEW id, NEW from, NEW to,
         NEW n \in Nat, DOMAIN RamSamples(tier, id) = 1 .. n
  PROVE  LET samples == RamSamples(tier, id)
             chart == RamSeries(tier, id, from, to)
         IN  /\ Len(chart) \in Nat /\ DOMAIN chart = 1 .. Len(chart)
             /\ \A i, j \in DOMAIN chart : i < j =>
                   \E k, l \in 1 .. n : k < l /\ chart[i] = samples[k] /\ chart[j] = samples[l]
             /\ Range(chart) = { samples[k] : k \in { l \in 1 .. n : InRange(samples[l], from, to) } }
<1> DEFINE samples == RamSamples(tier, id)
           chart == RamSeries(tier, id, from, to)
           T == { l \in 1 .. n : InRange(samples[l], from, to) }
           kept == Ascending(T)
           k == Cardinality(T)
<1>1. T \in SUBSET (1 .. n) /\ T \subseteq Int
  OBVIOUS
<1>2. IsFiniteSet(T)
  <2>1. IsFiniteSet(1 .. n)
    BY FS_Interval
  <2> HIDE DEF T
  <2> QED BY <1>1, <2>1, FS_Subset
<1>3. chart = [ i \in DOMAIN kept |-> samples[kept[i]] ]
  BY DEF RamSeries
<1> HIDE DEF T, chart, samples
<1>4. /\ k \in Nat /\ kept \in [1 .. k -> T]
      /\ \A i, j \in 1 .. k : i < j => kept[i] < kept[j]
      /\ \A t \in T : \E i \in 1 .. k : kept[i] = t
  BY <1>1, <1>2, AscendingSorts
<1> HIDE DEF kept, k
<1>5. DOMAIN chart = 1 .. k /\ \A i \in 1 .. k : chart[i] = samples[kept[i]] /\ kept[i] \in 1 .. n
  BY <1>1, <1>3, <1>4
<1>6. ASSUME NEW i \in DOMAIN chart, NEW j \in DOMAIN chart, i < j
      PROVE  \E x, y \in 1 .. n : x < y /\ chart[i] = samples[x] /\ chart[j] = samples[y]
  <2>1. i \in 1 .. k /\ j \in 1 .. k
    BY <1>5
  <2>2. kept[i] < kept[j] /\ kept[i] \in 1 .. n /\ kept[j] \in 1 .. n
    BY <1>4, <1>5, <1>6, <2>1
  <2> QED BY <1>5, <2>1, <2>2
<1>7. Len(chart) = k
  <2>1. chart = [ i \in 1 .. k |-> chart[i] ]
    BY <1>3, <1>5
  <2> QED BY <1>4, <2>1, ListingLength
<1>8. Range(chart) = { samples[t] : t \in T }
  <2>1. Range(chart) = { chart[i] : i \in 1 .. k }
    BY <1>5 DEF Range
  <2>2. ASSUME NEW t \in T PROVE samples[t] \in { chart[i] : i \in 1 .. k }
    BY <1>4, <1>5
  <2>3. ASSUME NEW i \in 1 .. k PROVE chart[i] \in { samples[t] : t \in T }
    BY <1>4, <1>5
  <2> QED BY <2>1, <2>2, <2>3
<1> QED BY <1>4, <1>5, <1>6, <1>7, <1>8 DEF chart, samples, T

(* The ring a scan finds of id, empty for one it has not seen. *)
RealtimeOf(id) == IF id \in DOMAIN series THEN series[id].realtime ELSE << >>

(* The ring of id grew by some of these readings, all of them id's. *)
GrewBy(id, readings) ==
  \E items \in Seq(Sample) :
     /\ series'[id].realtime = Pushed(RealtimeOf(id), items, RealtimeCap)
     /\ \A j \in DOMAIN items : items[j] \in readings /\ items[j].id = id

(* record pushes the readings of a client onto its ring. *)
LEMMA RecordPushes ==
  ASSUME TypeOK, NEW views \in SUBSET View, NEW readings \in SUBSET Sample,
         IsFiniteSet(readings), NEW t, Record(views, readings, t), NEW id \in Viewed(views)
  PROVE  /\ RealtimeOf(id) \in Seq(Sample)
         /\ id \in DOMAIN series'
         /\ GrewBy(id, readings)
<1> DEFINE mine == { r \in readings : r.id = id }
           old == RealtimeOf(id)
<1>1. mine \in SUBSET Sample /\ IsFiniteSet(mine)
  BY FS_Subset
<1>2. old \in Seq(Sample)
  <2>1. CASE id \in DOMAIN series
    BY <2>1, RingType DEF RealtimeOf, Series
  <2>2. CASE id \notin DOMAIN series
    BY <2>2 DEF RealtimeOf
  <2> QED BY <2>1, <2>2
<1>3. id \in DOMAIN series' /\ series'[id].realtime = Pushed(old, SetToSeq(mine), RealtimeCap)
  <2>1. SeriesOf(id, t \div Minute).realtime = old
    BY DEF SeriesOf, RealtimeOf
  <2> HIDE DEF mine, old
  <2> QED BY <2>1 DEF Record, AfterRecord, mine
<1>4. \A r \in mine : r \in readings /\ r.id = id
  OBVIOUS
<1> HIDE DEF mine, old
<1>5. SetToSeq(mine) \in Seq(Sample)
      /\ \A j \in DOMAIN SetToSeq(mine) : SetToSeq(mine)[j] \in mine
  BY <1>1, SetToSeqType, SetToSeqAll
<1>6. PICK items \in Seq(Sample) : items = SetToSeq(mine)
  BY <1>5
<1>7. \A j \in DOMAIN items : items[j] \in readings /\ items[j].id = id
  BY <1>4, <1>5, <1>6
<1>8. series'[id].realtime = Pushed(RealtimeOf(id), items, RealtimeCap)
  BY <1>3, <1>6 DEF old
<1>9. GrewBy(id, readings)
  BY <1>7, <1>8 DEF GrewBy
<1> QED BY <1>2, <1>3, <1>9 DEF old

(* So what the ring of a client then shows is one of them, or was there.   *)
LEMMA RecordExtends ==
  ASSUME TypeOK, NEW views \in SUBSET View, NEW readings \in SUBSET Sample,
         IsFiniteSet(readings), NEW t, Record(views, readings, t),
         NEW id \in DOMAIN series', NEW i \in DOMAIN series'[id].realtime
  PROVE  LET r == series'[id].realtime[i]
         IN  \/ r \in readings /\ r.id = id
             \/ id \in DOMAIN series /\ \E j \in DOMAIN series[id].realtime : r = series[id].realtime[j]
<1>1. DOMAIN series' = DOMAIN series \cup Viewed(views)
      /\ \A d \in DOMAIN series \ Viewed(views) : series'[d] = series[d]
  BY RecordMinutes
<1>2. CASE id \notin Viewed(views)
  BY <1>1, <1>2
<1>3. CASE id \in Viewed(views)
  <2> DEFINE old == RealtimeOf(id)
  <2>1. old \in Seq(Sample) /\ GrewBy(id, readings)
    BY <1>3, RecordPushes
  <2>2. PICK items \in Seq(Sample) :
           /\ series'[id].realtime = Pushed(old, items, RealtimeCap)
           /\ \A j \in DOMAIN items : items[j] \in readings /\ items[j].id = id
    BY <2>1 DEF GrewBy
  <2>3. (\E j \in DOMAIN old : j \in DOMAIN old) => id \in DOMAIN series /\ old = series[id].realtime
    <3>1. DOMAIN << >> = {}
      OBVIOUS
    <3> QED BY <3>1 DEF RealtimeOf
  <2> HIDE DEF old
  <2>4. RealtimeCap \in Nat /\ i \in DOMAIN Pushed(old, items, RealtimeCap)
    BY <2>2, RecorderAssumption
  <2>5. \/ \E j \in DOMAIN old : series'[id].realtime[i] = old[j]
        \/ \E j \in DOMAIN items : series'[id].realtime[i] = items[j]
    BY <2>1, <2>2, <2>4, PushedFrom
  <2> QED BY <2>2, <2>3, <2>5
<1> QED BY <1>2, <1>3

(* The time of the point a reading belongs to. *)
PointTime(tier, s) ==
    IF tier = "realtime" THEN s.ts
    ELSE Bucket(s.ts, IF tier = "day" THEN Minute ELSE IF tier = "week" THEN Hour ELSE Day)

(* p is a point a chart of the tier may show now. *)
Point(tier, p) ==
    /\ p.ts \in 0 .. now + Day
    /\ \A s \in p.of : s \in Sample /\ PointTime(tier, s) = p.ts

(* A client's rings hold its own readings, the ring of finished minutes    *)
(* each under its own minute.                                              *)
RingRows ==
    \A id \in DOMAIN series :
        /\ \A i \in DOMAIN series[id].realtime : series[id].realtime[i].id = id
        /\ \A i \in DOMAIN series[id].minutes : \A s \in series[id].minutes[i].of :
              s.id = id /\ Bucket(s.ts, Minute) = series[id].minutes[i].ts

LEMMA NextRingRows == TypeOK /\ RowsInv /\ RowsInv' /\ RingRows /\ [Next]_vars => RingRows'
<1> SUFFICES ASSUME TypeOK, RowsInv', RingRows, [Next]_vars PROVE RingRows'
  OBVIOUS
<1>1. ASSUME NEW t \in ClockReadings, NEW new \in SUBSET Ip, NEW names \in NameTables,
             Tick(t, new, names)
      PROVE  RingRows'
  <2> DEFINE views == Views(seen \cup new, names)
             readings == Readings(views, t)
  <2>1. /\ Record(views, readings, t)
        /\ pending' = Finalized(views, t \div Minute)
    BY <1>1 DEF Tick
  <2>2. t \in Nat /\ seen \cup new \in SUBSET Ip
    BY ClockIsNat DEF TypeOK
  <2>3. views \in SUBSET View /\ readings \in SUBSET Sample /\ IsFiniteSet(readings)
    BY <1>1, <2>2, ViewsType, ReadingsType, ReadingsFinite DEF Tick
  <2> HIDE DEF views, readings
  <2>4. ASSUME NEW id \in DOMAIN series', NEW i \in DOMAIN series'[id].realtime
        PROVE  series'[id].realtime[i].id = id
    <3> DEFINE r == series'[id].realtime[i]
    <3>1. \/ r \in readings /\ r.id = id
          \/ id \in DOMAIN series /\ \E j \in DOMAIN series[id].realtime : r = series[id].realtime[j]
      BY <2>1, <2>3, RecordExtends
    <3> HIDE DEF r
    <3>2. r.id = id
      BY <3>1 DEF RingRows
    <3> QED BY <3>2 DEF r
  <2>5. ASSUME NEW id \in DOMAIN series', NEW i \in DOMAIN series'[id].minutes,
               NEW s \in series'[id].minutes[i].of
        PROVE  s.id = id /\ Bucket(s.ts, Minute) = series'[id].minutes[i].ts
    <3> DEFINE entry == series'[id].minutes[i]
    <3>1. CASE id \in DOMAIN series /\ \E j \in DOMAIN series[id].minutes : entry = series[id].minutes[j]
      BY <2>5, <3>1 DEF RingRows
    <3>2. CASE entry.id = id /\ entry \in Finalized(views, t \div Minute)
      BY <2>1, <2>5, <3>2 DEF RowsInv, PendingMatches
    <3> QED BY <2>1, <2>2, <2>3, <3>1, <3>2, RecordFiles
  <2> QED BY <2>4, <2>5 DEF RingRows
<1>2. CASE Crash
  BY <1>2 DEF Crash, RingRows
<1>3. CASE Save \/ Maintain \/ Publish \/ Restart \/ UNCHANGED vars
  <2>1. series' = series
    BY <1>3
       DEF Save, InsertRow, InsertRowFails, Upsert, UpsertFails, Saved, Maintain, RollupHour,
           RollupDay, RollupFails, PruneMin, PruneHour, PruneDay, PruneFails, Publish,
           Restart, GoTo, vars, recorderVars
  <2> QED BY <2>1 DEF RingRows
<1> QED BY <1>1, <1>2, <1>3 DEF Next, Scan

LEMMA RamSamplesType ==
  ASSUME TypeOK, RingRows, NEW tier \in RamTiers, NEW id
  PROVE  LET samples == RamSamples(tier, id)
         IN  /\ \E n \in Nat : DOMAIN samples = 1 .. n
             /\ id \notin DOMAIN series => DOMAIN samples = {}
             /\ \A i \in DOMAIN samples :
                   /\ samples[i].ts \in Nat
                   /\ \A s \in samples[i].of :
                         s \in Sample /\ PointTime(tier, s) = samples[i].ts /\ s.id = id
<1>1. CASE id \notin DOMAIN series
  <2>1. RamSamples(tier, id) = << >>
    BY <1>1 DEF RamSamples
  <2>2. DOMAIN << >> = {} /\ DOMAIN << >> = 1 .. 0
    OBVIOUS
  <2> QED BY <1>1, <2>1, <2>2
<1>2. CASE id \in DOMAIN series /\ tier = "realtime"
  <2> DEFINE ring == series[id].realtime
  <2>1. RamSamples(tier, id) = [ i \in DOMAIN ring |-> [ts |-> ring[i].ts, of |-> {ring[i]}] ]
    BY <1>2 DEF RamSamples
  <2>2. ring \in Seq(Sample)
    BY <1>2, RingType DEF Series
  <2> HIDE DEF ring
  <2>3. DOMAIN ring = 1 .. Len(ring) /\ Len(ring) \in Nat /\ \A i \in DOMAIN ring : ring[i] \in Sample
    BY <2>2, LenProperties, ElementOfSeq
  <2>4. \A i \in DOMAIN ring : ring[i].ts \in Nat
    BY <2>3 DEF Sample
  <2>5. \A i \in DOMAIN ring : ring[i].id = id
    BY <1>2 DEF RingRows, ring
  <2> QED BY <1>2, <2>1, <2>3, <2>4, <2>5 DEF PointTime
<1>3. CASE id \in DOMAIN series /\ tier = "day"
  <2> DEFINE ring == series[id].minutes
  <2>1. RamSamples(tier, id) = [ i \in DOMAIN ring |-> [ts |-> ring[i].ts, of |-> ring[i].of] ]
    BY <1>3 DEF RamSamples
  <2>2. ring \in Seq(Row)
    BY <1>3, RingType
  <2>3. \A i \in DOMAIN ring : \A s \in ring[i].of :
           s.id = id /\ Bucket(s.ts, Minute) = ring[i].ts
    BY <1>3 DEF RingRows
  <2> HIDE DEF ring
  <2>4. DOMAIN ring = 1 .. Len(ring) /\ Len(ring) \in Nat /\ \A i \in DOMAIN ring : ring[i] \in Row
    BY <2>2, LenProperties, ElementOfSeq
  <2>5. \A i \in DOMAIN ring : ring[i].ts \in Nat /\ ring[i].of \subseteq Sample
    BY <2>4 DEF Row
  <2> QED BY <1>3, <2>1, <2>3, <2>4, <2>5 DEF PointTime
<1> QED BY <1>1, <1>2, <1>3 DEF RamTiers

LEMMA RamChart ==
  ASSUME TypeOK, RingRows, NEW tier \in RamTiers, NEW id
  PROVE  LET chart == RamSeries(tier, id, 0, now + Day)
         IN  /\ \A p \in Range(chart) : Point(tier, p) /\ \A s \in p.of : s.id = id
             /\ id \notin DOMAIN series => Range(chart) = {}
<1> DEFINE samples == RamSamples(tier, id)
           chart == RamSeries(tier, id, 0, now + Day)
<1>1. /\ \E n \in Nat : DOMAIN samples = 1 .. n
      /\ id \notin DOMAIN series => DOMAIN samples = {}
      /\ \A i \in DOMAIN samples :
            /\ samples[i].ts \in Nat
            /\ \A s \in samples[i].of :
                  s \in Sample /\ PointTime(tier, s) = samples[i].ts /\ s.id = id
  BY RamSamplesType
<1>2. PICK n \in Nat : DOMAIN samples = 1 .. n
  BY <1>1
<1>3. Range(chart) = { samples[k] : k \in { l \in 1 .. n : InRange(samples[l], 0, now + Day) } }
  BY <1>2, RamSeriesKeeps
<1> HIDE DEF samples, chart
<1>4. now + Day \in Nat
  BY StoreAssumption DEF TypeOK
<1>5. \A p \in Range(chart) : Point(tier, p) /\ \A s \in p.of : s.id = id
  <2> SUFFICES ASSUME NEW k \in 1 .. n, InRange(samples[k], 0, now + Day)
               PROVE  Point(tier, samples[k]) /\ \A s \in samples[k].of : s.id = id
    BY <1>3
  <2> QED BY <1>1, <1>2, <1>4 DEF Point, InRange
<1>6. ASSUME id \notin DOMAIN series PROVE Range(chart) = {}
  BY <1>1, <1>2, <1>3, <1>6
<1> QED BY <1>5, <1>6 DEF chart

LEMMA StorePoints ==
  ASSUME TypeOK, RowsMatchBuckets, NEW tier \in HistTier \ RamTiers,
         NEW row \in StoreRows(tier, 0, now + Day)
  PROVE  Point(tier, row) /\ row.id \in Id /\ \A s \in row.of : s.id = row.id
<1> DEFINE table == IF tier = "week" THEN samples_hour ELSE samples_day
           n == IF tier = "week" THEN Hour ELSE Day
<1>1. Table(table) /\ RowsMatch(table, n)
  BY DEF TypeOK, RowsMatchBuckets
<1>2. tier \in {"week", "month"}
  BY DEF HistTier
<1>3. PICK k \in DOMAIN table : /\ InRange(k, 0, now + Day)
                                /\ row = [ts |-> k.ts, id |-> k.id, of |-> table[k]]
  BY DEF StoreRows
<1> HIDE DEF table
<1>4. k \in Key /\ table[k] \in SUBSET Sample
  BY <1>1, <1>3 DEF Table, PartialFunction
<1>5. now + Day \in Nat /\ k.ts \in Nat /\ k.id \in Id
  BY <1>4, StoreAssumption DEF TypeOK, Key
<1>6. k.ts \in 0 .. now + Day
  BY <1>3, <1>5 DEF InRange
<1>7. \A s \in table[k] : s \in Sample /\ s.id = k.id /\ Bucket(s.ts, n) = k.ts
  BY <1>1, <1>3, <1>4 DEF RowsMatch
<1>8. \A s \in table[k] : PointTime(tier, s) = Bucket(s.ts, n)
  BY <1>2 DEF PointTime
<1> QED BY <1>3, <1>5, <1>6, <1>7, <1>8 DEF Point

(* The points the total of a tier sums, one by one; and that each client   *)
(* alone has those of its own.                                             *)
TotalPoints(tier) ==
    IF tier \in RamTiers
    THEN UNION { Range(RamSeries(tier, id, 0, now + Day)) : id \in DOMAIN series }
    ELSE StoreRows(tier, 0, now + Day)

ClientPoints(tier, id) ==
    IF tier \in RamTiers
    THEN Range(RamSeries(tier, id, 0, now + Day))
    ELSE { row \in StoreRows(tier, 0, now + Day) : row.id = id }

(* A chart shows the readings of these points, and no others, each at the  *)
(* time of its point.                                                      *)
Shows(chart, points) ==
    /\ \A p \in Range(chart) :
          /\ \E r \in points : r.ts = p.ts
          /\ \A s \in p.of : \E r \in points : r.ts = p.ts /\ s \in r.of
    /\ \A r \in points : \A s \in r.of : \E p \in Range(chart) : p.ts = r.ts /\ s \in p.of

LEMMA GroupsShow ==
  ASSUME NEW chart, NEW points, Groups(chart, points)
  PROVE  Shows(chart, points)
<1>1. Range(chart) = { chart[i] : i \in DOMAIN chart }
  BY DEF Range
<1>2. ASSUME NEW i \in DOMAIN chart
      PROVE  /\ \E r \in points : r.ts = chart[i].ts
             /\ \A s \in chart[i].of : \E r \in points : r.ts = chart[i].ts /\ s \in r.of
  BY DEF Groups
<1>3. ASSUME NEW r \in points, NEW s \in r.of
      PROVE  \E i \in DOMAIN chart : chart[i].ts = r.ts /\ s \in chart[i].of
  <2>1. PICK i \in DOMAIN chart : chart[i].ts = r.ts
    BY DEF Groups
  <2>2. chart[i].of = UNION { p.of : p \in { q \in points : q.ts = chart[i].ts } }
    BY DEF Groups
  <2> QED BY <2>1, <2>2
<1> QED BY <1>1, <1>2, <1>3 DEF Shows

LEMMA ChartsSumPoints ==
  ASSUME TypeOK, RingRows, RowsMatchBuckets, NEW tier \in HistTier
  PROVE  /\ Always(tier, Everyone) = ByTime(TotalPoints(tier))
         /\ \A p \in TotalPoints(tier) : Point(tier, p)
         /\ TotalPoints(tier) = UNION { ClientPoints(tier, id) : id \in Id }
         /\ \A id \in Id :
               /\ Shows(Always(tier, id), ClientPoints(tier, id))
               /\ \A p \in ClientPoints(tier, id) : \A s \in p.of : s.id = id
<1>1. Always(tier, Everyone) = ByTime(TotalPoints(tier))
  BY DEF Always, Answer, Charted, RamTotal, StoreTotal, TotalPoints
<1>2. \A id \in Id : id # Everyone
  BY HistoryAssumption
<1>3. DOMAIN series \subseteq Id
  BY DEF TypeOK, PartialFunction
<1>4. CASE tier \in RamTiers
  <2>1. \A id : /\ \A p \in Range(RamSeries(tier, id, 0, now + Day)) :
                      Point(tier, p) /\ \A s \in p.of : s.id = id
                /\ id \notin DOMAIN series => Range(RamSeries(tier, id, 0, now + Day)) = {}
    BY <1>4, RamChart
  <2>2. \A id \in Id : Always(tier, id) = RamSeries(tier, id, 0, now + Day)
    BY <1>2, <1>4 DEF Always, Answer, Charted
  <2>3. /\ TotalPoints(tier) = UNION { Range(RamSeries(tier, id, 0, now + Day)) : id \in DOMAIN series }
        /\ \A id : ClientPoints(tier, id) = Range(RamSeries(tier, id, 0, now + Day))
    BY <1>4 DEF TotalPoints, ClientPoints
  <2>4. \A p \in TotalPoints(tier) : Point(tier, p)
    BY <2>1, <2>3
  <2>5. TotalPoints(tier) = UNION { ClientPoints(tier, id) : id \in Id }
    BY <1>3, <2>1, <2>3
  <2>6. \A id \in Id : Shows(Always(tier, id), ClientPoints(tier, id))
    BY <2>2, <2>3 DEF Shows
  <2>7. \A id \in Id : \A p \in ClientPoints(tier, id) : \A s \in p.of : s.id = id
    BY <2>1, <2>3
  <2> QED BY <1>1, <2>4, <2>5, <2>6, <2>7
<1>5. CASE tier \notin RamTiers
  <2> DEFINE rows == StoreRows(tier, 0, now + Day)
  <2>1. \A row \in rows : Point(tier, row) /\ row.id \in Id /\ \A s \in row.of : s.id = row.id
    BY <1>5, StorePoints
  <2>2. \A id \in Id : Always(tier, id) = ByTime({ row \in rows : row.id = id })
    BY <1>2, <1>5 DEF Always, Answer, Charted, StoreSeries
  <2> HIDE DEF rows
  <2>3. TotalPoints(tier) = rows /\ \A id : ClientPoints(tier, id) = { row \in rows : row.id = id }
    BY <1>5 DEF TotalPoints, ClientPoints, rows
  <2>4. TotalPoints(tier) = UNION { ClientPoints(tier, id) : id \in Id }
    BY <2>1, <2>3
  <2>5. ASSUME NEW id \in Id
        PROVE  Shows(ByTime(ClientPoints(tier, id)), ClientPoints(tier, id))
    <3>1. \A p \in ClientPoints(tier, id) : p.ts \in 0 .. now + Day
      BY <2>1, <2>3 DEF Point
    <3>2. 0 \in Int /\ now + Day \in Int
      BY StoreAssumption DEF TypeOK
    <3> QED BY <3>1, <3>2, ByTimeGroups, GroupsShow
  <2>6. \A id \in Id : \A p \in ClientPoints(tier, id) : \A s \in p.of : s.id = id
    BY <2>1, <2>3
  <2> QED BY <1>1, <2>1, <2>2, <2>3, <2>4, <2>5, <2>6
<1> QED BY <1>4, <1>5

(* What a request is answered, whatever its SELECT does. *)
LEMMA AnswerOrNothing ==
  ASSUME NEW tier \in HistTier, NEW client, NEW fails \in SelectFails(tier)
  PROVE  /\ ~fails => Answer(tier, client, fails) = Always(tier, client)
         /\ \/ Answer(tier, client, fails) = Always(tier, client)
            \/ DOMAIN Answer(tier, client, fails) = {} /\ Range(Answer(tier, client, fails)) = {}
<1>1. CASE fails = FALSE
  BY <1>1 DEF Always
<1>2. CASE fails = TRUE
  <2>1. Answer(tier, client, fails) = << >>
    BY <1>2 DEF SelectFails, Answer, Charted
  <2>2. DOMAIN << >> = {} /\ Range(<< >>) = {}
    BY DEF Range
  <2> QED BY <1>2, <2>1, <2>2
<1> QED BY <1>1, <1>2 DEF SelectFails

(* Whatever crashes or happens to the clock, and whichever SELECT fails,   *)
(* the total of a chart counts each reading at one point only, a client's  *)
(* chart has readings of that client alone, and each has what the other    *)
(* has at the same time unless its own SELECT failed.                      *)
THEOREM TotalAlwaysItsClients == Spec => []TotalIsItsClients
<1>1. TypeOK /\ RingRows /\ RowsInv => TotalIsItsClients
  <2> SUFFICES ASSUME TypeOK, RingRows, RowsMatchBuckets, NEW tier \in HistTier,
                      NEW totalFails \in SelectFails(tier)
               PROVE  LET total == Answer(tier, Everyone, totalFails)
                      IN  /\ \A i, j \in DOMAIN total : i # j => total[i].of \cap total[j].of = {}
                          /\ \A id \in Id, chartFails \in SelectFails(tier) :
                                LET chart == Answer(tier, id, chartFails)
                                IN  /\ \A p \in Range(chart) :
                                          /\ \A s \in p.of : s.id = id
                                          /\ ~totalFails =>
                                                \E q \in Range(total) :
                                                    q.ts = p.ts /\ p.of \subseteq q.of
                                    /\ ~chartFails =>
                                          \A q \in Range(total) : \A s \in q.of : s.id = id =>
                                              \E p \in Range(chart) : p.ts = q.ts /\ s \in p.of
    BY DEF TotalIsItsClients, RowsInv
  <2> DEFINE total == Answer(tier, Everyone, totalFails)
             points == TotalPoints(tier)
             mine(c) == ClientPoints(tier, c)
             whole == Always(tier, Everyone)
             time == [ s \in Sample |-> PointTime(tier, s) ]
  <2>1. /\ whole = ByTime(points)
        /\ \A p \in points : Point(tier, p)
        /\ points = UNION { mine(c) : c \in Id }
    BY ChartsSumPoints
  <2>2. \A c \in Id : /\ Shows(Always(tier, c), mine(c))
                       /\ \A p \in mine(c) : \A s \in p.of : s.id = c
    BY ChartsSumPoints
  <2>3. 0 \in Int /\ now + Day \in Int
    BY StoreAssumption DEF TypeOK
  <2>4. /\ ~totalFails => total = whole
        /\ total = whole \/ (DOMAIN total = {} /\ Range(total) = {})
    BY AnswerOrNothing
  <2> HIDE DEF points, mine, total, whole
  <2>5. /\ \A p \in points : p.ts \in 0 .. now + Day
        /\ \A p \in points : \A s \in p.of : time[s] = p.ts
    BY <2>1 DEF Point
  <2> HIDE DEF time
  <2>6. \A i, j \in DOMAIN whole : i # j => whole[i].of \cap whole[j].of = {}
    BY <2>1, <2>3, <2>5, ByTimeApart
  <2>7. Groups(whole, points)
    BY <2>1, <2>3, <2>5, ByTimeGroups
  <2>8. Shows(whole, points)
    BY <2>7, GroupsShow
  <2>9. \A i, j \in DOMAIN total : i # j => total[i].of \cap total[j].of = {}
    BY <2>4, <2>6
  <2>10. ASSUME NEW id \in Id, NEW chartFails \in SelectFails(tier)
        PROVE  LET chart == Answer(tier, id, chartFails)
               IN  /\ \A p \in Range(chart) :
                         /\ \A s \in p.of : s.id = id
                         /\ ~totalFails =>
                               \E q \in Range(total) : q.ts = p.ts /\ p.of \subseteq q.of
                   /\ ~chartFails =>
                         \A q \in Range(total) : \A s \in q.of : s.id = id =>
                             \E p \in Range(chart) : p.ts = q.ts /\ s \in p.of
    <3> DEFINE chart == Answer(tier, id, chartFails)
               own == Always(tier, id)
    <3>1. /\ ~chartFails => chart = own
          /\ chart = own \/ (DOMAIN chart = {} /\ Range(chart) = {})
      BY AnswerOrNothing
    <3>2. Shows(own, mine(id)) /\ \A p \in mine(id) : \A s \in p.of : s.id = id
      BY <2>2
    <3> HIDE DEF chart, own
    <3>3. ASSUME NEW p \in Range(own)
          PROVE  /\ \A s \in p.of : s.id = id
                 /\ \E q \in Range(whole) : q.ts = p.ts /\ p.of \subseteq q.of
      <4>1. /\ \E r \in mine(id) : r.ts = p.ts
            /\ \A s \in p.of : \E r \in mine(id) : r.ts = p.ts /\ s \in r.of
        BY <3>2 DEF Shows
      <4>2. mine(id) \subseteq points
        BY <2>1
      <4>3. PICK i \in DOMAIN whole : whole[i].ts = p.ts
        BY <2>7, <4>1, <4>2 DEF Groups
      <4>4. whole[i].of = UNION { r.of : r \in { q \in points : q.ts = whole[i].ts } }
        BY <2>7 DEF Groups
      <4>5. \A s \in p.of : s \in whole[i].of
        BY <4>1, <4>2, <4>3, <4>4
      <4>6. whole[i] \in Range(whole)
        BY DEF Range
      <4>7. \A s \in p.of : s.id = id
        BY <3>2, <4>1
      <4> QED BY <4>3, <4>5, <4>6, <4>7
    <3>4. ASSUME NEW q \in Range(whole), NEW s \in q.of, s.id = id
          PROVE  \E p \in Range(own) : p.ts = q.ts /\ s \in p.of
      <4>1. PICK r \in points : r.ts = q.ts /\ s \in r.of
        BY <2>8 DEF Shows
      <4>2. PICK c \in Id : r \in mine(c)
        BY <2>1
      <4>3. c = id
        BY <2>2, <3>4, <4>1, <4>2
      <4> QED BY <3>2, <4>1, <4>2, <4>3 DEF Shows
    <3>5. \A p \in Range(chart) :
              /\ \A s \in p.of : s.id = id
              /\ ~totalFails => \E q \in Range(total) : q.ts = p.ts /\ p.of \subseteq q.of
      BY <2>4, <3>1, <3>3
    <3>6. ~chartFails =>
              \A q \in Range(total) : \A s \in q.of : s.id = id =>
                  \E p \in Range(chart) : p.ts = q.ts /\ s \in p.of
      BY <2>4, <3>1, <3>4
    <3> QED BY <3>5, <3>6 DEF chart
  <2> QED BY <2>9, <2>10 DEF total
<1>2. Init => RingRows
  BY DEF Init, RecorderInit, RingRows
<1> QED BY <1>1, <1>2, InitRowsInv, NextRowsInv, NextRingRows, TypeCorrect, PTL DEF Spec

-------------------------------------------------------------------------------
(* Charts run forward in time.                                             *)

(* The rings are in the order of the clock, and a finished minute is       *)
(* earlier than the one open.                                              *)
RealtimeInOrder ==
    \A id \in DOMAIN series :
        LET ring == series[id].realtime
        IN  /\ \A i, j \in DOMAIN ring : i < j => ring[i].ts <= ring[j].ts
            /\ \A i \in DOMAIN ring : ring[i].ts <= now

MinutesInOrder ==
    \A id \in DOMAIN series :
        LET ring == series[id].minutes
        IN  /\ \A i, j \in DOMAIN ring : i < j => ring[i].ts < ring[j].ts
            /\ \A i \in DOMAIN ring : ring[i].ts < series[id].cur_minute * Minute

OrderInv == RealtimeInOrder /\ MinutesInOrder

(* What is pushed in order onto a ring in order leaves it in order.        *)
LEMMA PushedInOrder ==
  ASSUME NEW T, NEW ring \in Seq(T), NEW items \in Seq(T), NEW c \in Nat,
         NEW i \in DOMAIN Pushed(ring, items, c), NEW j \in DOMAIN Pushed(ring, items, c), i < j
  PROVE  LET p == Pushed(ring, items, c)
         IN  \/ \E k, l \in DOMAIN ring : k < l /\ p[i] = ring[k] /\ p[j] = ring[l]
             \/ \E k \in DOMAIN ring, l \in DOMAIN items : p[i] = ring[k] /\ p[j] = items[l]
             \/ \E k, l \in DOMAIN items : k < l /\ p[i] = items[k] /\ p[j] = items[l]
<1> DEFINE p == Pushed(ring, items, c)
           all == ring \o items
           n == Len(ring)
<1>1. /\ n \in Nat /\ DOMAIN ring = 1 .. n
      /\ Len(items) \in Nat /\ DOMAIN items = 1 .. Len(items)
      /\ Len(all) = n + Len(items)
      /\ \A k \in 1 .. n : all[k] = ring[k]
      /\ \A k \in 1 .. Len(items) : all[n + k] = items[k]
  BY ConcatAt
<1>2. PICK drop \in Nat : Slice(p, all, drop)
  BY PushedSlice
<1> HIDE DEF p, all, n
<1>3. /\ i \in 1 .. n + Len(items) - drop /\ j \in 1 .. n + Len(items) - drop
      /\ p[i] = all[i + drop] /\ p[j] = all[j + drop]
  BY <1>1, <1>2 DEF Slice, p
<1> DEFINE k == i + drop
           l == j + drop
<1>4. k \in 1 .. n + Len(items) /\ l \in 1 .. n + Len(items) /\ k < l
  BY <1>1, <1>3
<1>5. p[i] = all[k] /\ p[j] = all[l]
  BY <1>3
<1> HIDE DEF k, l
<1>6. CASE l <= n
  <2>1. k \in DOMAIN ring /\ l \in DOMAIN ring
    BY <1>1, <1>4, <1>6
  <2>2. p[i] = ring[k] /\ p[j] = ring[l]
    BY <1>1, <1>5, <2>1
  <2> QED BY <1>4, <2>1, <2>2 DEF p
<1>7. CASE k <= n /\ l > n
  <2>1. k \in DOMAIN ring /\ l - n \in DOMAIN items /\ n + (l - n) = l
    BY <1>1, <1>4, <1>7
  <2>2. p[i] = ring[k] /\ p[j] = items[l - n]
    BY <1>1, <1>5, <2>1
  <2> QED BY <2>1, <2>2 DEF p
<1>8. CASE k > n
  <2>1. /\ k \in Int /\ l \in Int /\ k - n < l - n
        /\ n + (k - n) = k /\ n + (l - n) = l
    BY <1>1, <1>4
  <2>2. k - n \in 1 .. Len(items) /\ l - n \in 1 .. Len(items)
    BY <1>1, <1>4, <1>8, <2>1
  <2>3. k - n \in DOMAIN items /\ l - n \in DOMAIN items
    BY <1>1, <2>2
  <2>4. p[i] = items[k - n] /\ p[j] = items[l - n]
    BY <1>1, <1>5, <2>1, <2>2
  <2> QED BY <2>1, <2>3, <2>4 DEF p
<1> QED BY <1>1, <1>4, <1>6, <1>7, <1>8

LEMMA RingTimes ==
  ASSUME TypeOK, NEW id \in DOMAIN series
  PROVE  LET s == series[id]
         IN  /\ s.realtime \in Seq(Sample) /\ s.minutes \in Seq(Row)
             /\ \A i \in DOMAIN s.realtime : s.realtime[i].ts \in Nat
             /\ \A i \in DOMAIN s.minutes : s.minutes[i].ts \in Nat
<1>1. series[id].realtime \in Seq(Sample) /\ series[id].minutes \in Seq(Row)
  BY RingType DEF Series
<1>2. /\ \A i \in DOMAIN series[id].realtime : series[id].realtime[i] \in Sample
      /\ \A i \in DOMAIN series[id].minutes : series[id].minutes[i] \in Row
  BY <1>1, ElementOfSeq, LenProperties
<1> QED BY <1>1, <1>2 DEF Sample, Row

(* The readings of one scan all carry its time. *)
LEMMA TickRealtimeInOrder ==
  ASSUME StepBack = 0, TypeOK, RealtimeInOrder, NEW t \in ClockReadings,
         NEW new \in SUBSET Ip, NEW names \in NameTables, Tick(t, new, names)
  PROVE  RealtimeInOrder'
<1> DEFINE views == Views(seen \cup new, names)
           readings == Readings(views, t)
           minute == t \div Minute
<1>1. Record(views, readings, t) /\ now' = t /\ ticks < MaxTicks
  BY DEF Tick
<1>2. now \in Nat /\ t \in Nat /\ now <= t /\ minute \in Nat
  BY ClockMovesOn DEF TypeOK
<1>3. readings \subseteq Sample /\ IsFiniteSet(readings) /\ \A r \in readings : r.ts = t
  BY <1>1, <1>2, ViewsType, ReadingsType, ReadingsFinite DEF Readings, Reading, TypeOK
<1> HIDE DEF views, readings
<1>4. DOMAIN series' = DOMAIN series \cup Viewed(views)
      /\ \A d \in DOMAIN series \ Viewed(views) : series'[d] = series[d]
  BY <1>1, RecordMinutes
<1> SUFFICES ASSUME NEW id \in DOMAIN series'
             PROVE  LET ring == series'[id].realtime
                    IN  /\ \A i, j \in DOMAIN ring : i < j => ring[i].ts <= ring[j].ts
                        /\ \A i \in DOMAIN ring : ring[i].ts <= t
  BY <1>1 DEF RealtimeInOrder
<1>5. CASE id \notin Viewed(views)
  <2>1. id \in DOMAIN series /\ series'[id] = series[id]
    BY <1>4, <1>5
  <2> DEFINE ring == series[id].realtime
  <2>2. /\ \A i, j \in DOMAIN ring : i < j => ring[i].ts <= ring[j].ts
        /\ \A i \in DOMAIN ring : ring[i].ts <= now /\ ring[i].ts \in Nat
    BY <2>1, RingTimes DEF RealtimeInOrder
  <2> HIDE DEF ring
  <2>3. \A i \in DOMAIN ring : ring[i].ts <= t
    BY <1>2, <2>2
  <2> QED BY <2>1, <2>2, <2>3 DEF ring
<1>6. CASE id \in Viewed(views)
  <2> DEFINE old == SeriesOf(id, minute).realtime
             items == SetToSeq({ r \in readings : r.id = id })
             ring == Pushed(old, items, RealtimeCap)
  <2>1. series'[id].realtime = ring
    BY <1>1, <1>6 DEF Record, AfterRecord
  <2>2. /\ items \in Seq(Sample)
        /\ \A j \in DOMAIN items : items[j].ts = t
    <3> DEFINE mine == { r \in readings : r.id = id }
    <3>1. mine \subseteq readings /\ IsFiniteSet(mine)
      BY <1>3, FS_Subset
    <3> HIDE DEF mine
    <3>2. SetToSeq(mine) \in Seq(Sample)
          /\ \A j \in DOMAIN SetToSeq(mine) : SetToSeq(mine)[j] \in mine
      BY <1>3, <3>1, SetToSeqAll, SetToSeqType
    <3> QED BY <1>3, <3>1, <3>2 DEF mine
  <2>3. /\ old \in Seq(Sample)
        /\ \A i, j \in DOMAIN old : i < j => old[i].ts <= old[j].ts
        /\ \A i \in DOMAIN old : old[i].ts \in Nat /\ old[i].ts <= now
    <3>1. CASE id \in DOMAIN series
      <4>1. old = series[id].realtime
        BY <3>1 DEF SeriesOf
      <4> HIDE DEF old
      <4> QED BY <3>1, <4>1, RingTimes DEF RealtimeInOrder
    <3>2. CASE id \notin DOMAIN series
      <4>1. old = << >>
        BY <3>2 DEF SeriesOf
      <4>2. << >> \in Seq(Sample) /\ DOMAIN << >> = {}
        OBVIOUS
      <4> HIDE DEF old
      <4> QED BY <4>1, <4>2
    <3> QED BY <3>1, <3>2
  <2>4. RealtimeCap \in Nat
    BY RecorderAssumption
  <2> HIDE DEF old, items
  <2>5. ASSUME NEW i \in DOMAIN ring, NEW j \in DOMAIN ring, i < j
        PROVE  ring[i].ts <= ring[j].ts
    <3>1. \/ \E k, l \in DOMAIN old : k < l /\ ring[i] = old[k] /\ ring[j] = old[l]
          \/ \E k \in DOMAIN old, l \in DOMAIN items : ring[i] = old[k] /\ ring[j] = items[l]
          \/ \E k, l \in DOMAIN items : k < l /\ ring[i] = items[k] /\ ring[j] = items[l]
      BY <2>2, <2>3, <2>4, <2>5, PushedInOrder
    <3> HIDE DEF ring
    <3>2. CASE \E k, l \in DOMAIN old : k < l /\ ring[i] = old[k] /\ ring[j] = old[l]
      BY <2>3, <3>2
    <3>3. CASE \E k \in DOMAIN old, l \in DOMAIN items : ring[i] = old[k] /\ ring[j] = items[l]
      <4>1. PICK k \in DOMAIN old, l \in DOMAIN items : ring[i] = old[k] /\ ring[j] = items[l]
        BY <3>3
      <4>2. old[k].ts \in Nat /\ old[k].ts <= now /\ items[l].ts = t
        BY <2>2, <2>3
      <4> QED BY <1>2, <4>1, <4>2
    <3>4. CASE \E k, l \in DOMAIN items : k < l /\ ring[i] = items[k] /\ ring[j] = items[l]
      BY <1>2, <2>2, <3>4
    <3> QED BY <3>1, <3>2, <3>3, <3>4
  <2>6. ASSUME NEW i \in DOMAIN ring PROVE ring[i].ts <= t
    <3>1. \/ \E j \in DOMAIN old : ring[i] = old[j]
          \/ \E j \in DOMAIN items : ring[i] = items[j]
      BY <2>2, <2>3, <2>4, PushedFrom
    <3> HIDE DEF ring
    <3> QED BY <1>2, <2>2, <2>3, <3>1
  <2> QED BY <2>1, <2>5, <2>6
<1> QED BY <1>5, <1>6

LEMMA TickMinutesInOrder ==
  ASSUME StepBack = 0, TypeOK, MinutesInv, MinutesInOrder, NEW t \in ClockReadings,
         NEW new \in SUBSET Ip, NEW names \in NameTables, Tick(t, new, names)
  PROVE  MinutesInOrder'
<1> DEFINE views == Views(seen \cup new, names)
           minute == t \div Minute
<1>1. Record(views, Readings(views, t), t)
  BY DEF Tick
<1>2. now \in Nat /\ t \in Nat /\ minute \in Nat /\ now \div Minute <= minute
      /\ now \div Minute \in Nat
  BY ClockMovesOn DEF TypeOK
<1> HIDE DEF views
<1>3. /\ DOMAIN series' = DOMAIN series \cup Viewed(views)
      /\ \A d \in DOMAIN series \ Viewed(views) : series'[d] = series[d]
      /\ \A d \in Viewed(views) : series'[d].cur_minute = minute
  BY <1>1, RecordMinutes
<1> SUFFICES ASSUME NEW id \in DOMAIN series'
             PROVE  LET ring == series'[id].minutes
                    IN  /\ \A i, j \in DOMAIN ring : i < j => ring[i].ts < ring[j].ts
                        /\ \A i \in DOMAIN ring : ring[i].ts < series'[id].cur_minute * Minute
  BY DEF MinutesInOrder
<1>4. CASE id \notin Viewed(views)
  BY <1>3, <1>4 DEF MinutesInOrder
<1>5. CASE id \in Viewed(views) /\ id \notin DOMAIN series
  <2>1. series'[id].minutes = << >>
    BY <1>1, <1>5 DEF Record, AfterRecord, SeriesOf, RollsOver
  <2>2. DOMAIN series'[id].minutes = {}
    BY <2>1
  <2> QED BY <2>2
<1>6. CASE id \in Viewed(views) /\ id \in DOMAIN series
  <2> DEFINE old == series[id].minutes
             row == Aggregated(id, series[id])
             open == series[id].cur_minute
  <2>1. /\ old \in Seq(Row)
        /\ \A i, j \in DOMAIN old : i < j => old[i].ts < old[j].ts
        /\ \A i \in DOMAIN old : old[i].ts \in Nat /\ old[i].ts < open * Minute
    BY <1>6, RingTimes DEF MinutesInOrder
  <2>2. series[id] \in Series /\ id \in Id /\ open \in Nat /\ open * Minute \in Nat
    BY <1>6, RingType, OpenMinuteStart DEF TypeOK, PartialFunction, Series
  <2>3. open <= minute
    <3>1. open <= now \div Minute
      BY <1>6 DEF MinutesInv, OpenMinutesReached
    <3> HIDE DEF open, minute
    <3> QED BY <1>2, <2>2, <3>1
  <2>4. open * Minute <= minute * Minute /\ minute * Minute \in Nat
        /\ (open # minute => open * Minute < minute * Minute)
    <3>1. Minute \in Nat \ {0}
      BY RecorderAssumption
    <3>2. minute * Minute \in Nat
      BY <1>2, <3>1
    <3> HIDE DEF open, minute
    <3>3. open # minute => open < minute
      BY <1>2, <2>2, <2>3
    <3> QED BY <1>2, <2>2, <2>3, <3>1, <3>2, <3>3, TimesMonotone
  <2>5. series'[id].cur_minute = minute
    BY <1>1, <1>6, RecordMinutes
  <2>6. CASE ~RollsOver(series[id], minute)
    <3>1. series'[id].minutes = old
      BY <1>1, <1>6, <2>6 DEF Record, AfterRecord, SeriesOf
    <3> HIDE DEF old, open, minute
    <3>2. \A i \in DOMAIN old : old[i].ts < minute * Minute
      BY <2>1, <2>2, <2>4
    <3> QED BY <2>1, <2>5, <3>1, <3>2
  <2>7. CASE RollsOver(series[id], minute)
    <3> DEFINE items == << row >>
               ring == Pushed(old, items, MinuteCap)
    <3>1. series'[id].minutes = ring
      BY <1>1, <1>6, <2>7 DEF Record, AfterRecord, SeriesOf
    <3>2. open # minute /\ row.ts = open * Minute
      BY <2>7 DEF RollsOver, Aggregated
    <3>3. row \in Row
      BY <2>2, AggregatedType
    <3> HIDE DEF row
    <3>4. items \in Seq(Row) /\ DOMAIN items = {1} /\ items[1] = row /\ MinuteCap \in Nat
      BY <3>3, RecorderAssumption
    <3> HIDE DEF old, items, open, minute
    <3>5. ASSUME NEW i \in DOMAIN ring, NEW j \in DOMAIN ring, i < j
          PROVE  ring[i].ts < ring[j].ts
      <4>1. \/ \E k, l \in DOMAIN old : k < l /\ ring[i] = old[k] /\ ring[j] = old[l]
            \/ \E k \in DOMAIN old, l \in DOMAIN items : ring[i] = old[k] /\ ring[j] = items[l]
            \/ \E k, l \in DOMAIN items : k < l /\ ring[i] = items[k] /\ ring[j] = items[l]
        BY <2>1, <3>4, <3>5, PushedInOrder
      <4>2. ~ \E k, l \in DOMAIN items : k < l
        BY <3>4
      <4> HIDE DEF ring
      <4> QED BY <2>1, <3>2, <3>4, <4>1, <4>2
    <3>6. ASSUME NEW i \in DOMAIN ring PROVE ring[i].ts < minute * Minute
      <4>1. \/ \E j \in DOMAIN old : ring[i] = old[j]
            \/ \E j \in DOMAIN items : ring[i] = items[j]
        BY <2>1, <3>4, PushedFrom
      <4> HIDE DEF ring
      <4>2. CASE \E j \in DOMAIN old : ring[i] = old[j]
        BY <2>1, <2>2, <2>4, <4>2
      <4>3. CASE \E j \in DOMAIN items : ring[i] = items[j]
        BY <2>4, <3>2, <3>4, <4>3
      <4> QED BY <4>1, <4>2, <4>3
    <3> QED BY <2>5, <3>1, <3>5, <3>6
  <2> QED BY <2>6, <2>7
<1> QED BY <1>4, <1>5, <1>6

LEMMA NextOrderInv ==
  ASSUME StepBack = 0
  PROVE  TypeOK /\ MinutesInv /\ OrderInv /\ [Next]_vars => OrderInv'
<1> SUFFICES ASSUME TypeOK, MinutesInv, OrderInv, [Next]_vars PROVE OrderInv'
  OBVIOUS
<1>1. ASSUME NEW t \in ClockReadings, NEW new \in SUBSET Ip, NEW names \in NameTables,
             Tick(t, new, names)
      PROVE  OrderInv'
  BY <1>1, TickRealtimeInOrder, TickMinutesInOrder DEF OrderInv
<1>2. CASE Crash
  BY <1>2 DEF Crash, OrderInv, RealtimeInOrder, MinutesInOrder
<1>3. CASE Save \/ Maintain \/ Publish \/ Restart \/ UNCHANGED vars
  <2>1. series' = series /\ now' = now
    BY <1>3
       DEF Save, InsertRow, InsertRowFails, Upsert, UpsertFails, Saved, Maintain, RollupHour,
           RollupDay, RollupFails, PruneMin, PruneHour, PruneDay, PruneFails, Publish,
           Restart, GoTo, vars, loopVars, recorderVars
  <2> QED BY <2>1 DEF OrderInv, RealtimeInOrder, MinutesInOrder
<1> QED BY <1>1, <1>2, <1>3 DEF Next, Scan

(* The history charts run forward in time while the clock is not set back, *)
(* whatever crashes or fails: strictly, but for the readings of one scan   *)
(* in the real-time chart of one client.                                   *)
THEOREM ChartsAlwaysAscend ==
  ASSUME StepBack = 0
  PROVE  Spec => []ChartsAscend
<1>1. TypeOK /\ RingRows /\ RowsInv /\ OrderInv => ChartsAscend
  <2> SUFFICES ASSUME TypeOK, RingRows, RowsMatchBuckets, OrderInv,
                      NEW tier \in HistTier, NEW client \in Id \cup {Everyone},
                      NEW i \in 1 .. Len(Always(tier, client)) - 1
               PROVE  LET chart == Always(tier, client)
                      IN  IF tier = "realtime" /\ client # Everyone
                          THEN chart[i].ts <= chart[i + 1].ts
                          ELSE chart[i].ts < chart[i + 1].ts
    BY DEF ChartsAscend, Ascends, RowsInv
  <2> DEFINE chart == Always(tier, client)
  <2>1. 0 \in Int /\ now + Day \in Int
    BY StoreAssumption DEF TypeOK
  <2>2. CASE tier \notin RamTiers \/ client = Everyone
    <3>1. PICK points : /\ chart = ByTime(points)
                        /\ \A p \in points : p.ts \in 0 .. now + Day
      <4>1. CASE client = Everyone
        BY <4>1, ChartsSumPoints DEF Point
      <4>2. CASE client # Everyone
        <5>1. chart = ByTime({ row \in StoreRows(tier, 0, now + Day) : row.id = client })
          BY <2>2, <4>2 DEF Always, Answer, Charted, StoreSeries
        <5>2. \A row \in StoreRows(tier, 0, now + Day) : row.ts \in 0 .. now + Day
          BY <2>2, <4>2, StorePoints DEF Point
        <5> QED BY <5>1, <5>2
      <4> QED BY <4>1, <4>2
    <3>2. Groups(chart, points)
      BY <2>1, <3>1, ByTimeGroups
    <3>3. tier = "realtime" => client = Everyone
      BY <2>2 DEF RamTiers
    <3>4. i \in 1 .. Len(chart) - 1
      OBVIOUS
    <3> HIDE DEF chart
    <3>5. i \in DOMAIN chart /\ i + 1 \in DOMAIN chart /\ i < i + 1
      BY <3>2, <3>4 DEF Groups
    <3>6. chart[i].ts < chart[i + 1].ts
      BY <3>2, <3>5 DEF Groups
    <3> QED BY <3>3, <3>6 DEF chart
  <2>3. CASE tier \in RamTiers /\ client # Everyone
    <3> DEFINE samples == RamSamples(tier, client)
    <3>1. chart = RamSeries(tier, client, 0, now + Day)
      BY <2>3 DEF Always, Answer, Charted
    <3>2. /\ \E n \in Nat : DOMAIN samples = 1 .. n
          /\ client \notin DOMAIN series => DOMAIN samples = {}
      BY <2>3, RamSamplesType
    <3>3. PICK n \in Nat : DOMAIN samples = 1 .. n
      BY <3>2
    <3>4. /\ Len(chart) \in Nat /\ DOMAIN chart = 1 .. Len(chart)
          /\ \A a, b \in DOMAIN chart : a < b =>
                \E k, l \in 1 .. n : k < l /\ chart[a] = samples[k] /\ chart[b] = samples[l]
      BY <3>1, <3>3, RamSeriesKeeps
    <3>5. i \in 1 .. Len(chart) - 1
      OBVIOUS
    <3> HIDE DEF chart, samples
    <3>6. i \in DOMAIN chart /\ i + 1 \in DOMAIN chart /\ i < i + 1
      BY <3>4, <3>5
    <3>7. PICK k \in 1 .. n, l \in 1 .. n :
             k < l /\ chart[i] = samples[k] /\ chart[i + 1] = samples[l]
      BY <3>4, <3>6
    <3>8. client \in DOMAIN series
      BY <3>2, <3>3
    <3>9. CASE tier = "realtime"
      <4> DEFINE ring == series[client].realtime
      <4>1. samples = [ x \in DOMAIN ring |-> [ts |-> ring[x].ts, of |-> {ring[x]}] ]
        BY <3>8, <3>9 DEF samples, RamSamples
      <4>2. \A x, y \in DOMAIN ring : x < y => ring[x].ts <= ring[y].ts
        BY <3>8 DEF OrderInv, RealtimeInOrder
      <4> HIDE DEF ring
      <4>3. DOMAIN ring = 1 .. n
        BY <3>3, <4>1
      <4>4. samples[k].ts = ring[k].ts /\ samples[l].ts = ring[l].ts
        BY <4>1, <4>3
      <4>5. chart[i].ts <= chart[i + 1].ts
        BY <3>7, <4>2, <4>3, <4>4
      <4> QED BY <2>3, <3>9, <4>5 DEF chart
    <3>10. CASE tier = "day"
      <4> DEFINE ring == series[client].minutes
      <4>1. samples = [ x \in DOMAIN ring |-> [ts |-> ring[x].ts, of |-> ring[x].of] ]
        BY <3>8, <3>10 DEF samples, RamSamples
      <4>2. \A x, y \in DOMAIN ring : x < y => ring[x].ts < ring[y].ts
        BY <3>8 DEF OrderInv, MinutesInOrder
      <4> HIDE DEF ring
      <4>3. DOMAIN ring = 1 .. n
        BY <3>3, <4>1
      <4> QED BY <3>7, <3>10, <4>1, <4>2, <4>3 DEF chart
    <3> QED BY <2>3, <3>9, <3>10 DEF RamTiers
  <2> QED BY <2>2, <2>3
<1>2. Init => RingRows /\ OrderInv
  BY DEF Init, RecorderInit, RingRows, OrderInv, RealtimeInOrder, MinutesInOrder
<1>3. /\ TypeOK /\ MinutesInv /\ OrderInv /\ [Next]_vars => OrderInv'
      /\ TypeOK /\ MinutesInv /\ [Next]_vars => MinutesInv'
  BY NextOrderInv, NextMinutesInv
<1> QED BY <1>1, <1>2, <1>3, InitRowsInv, NextRowsInv, NextRingRows, InitMinutesInv,
           TypeCorrect, PTL DEF Spec

-------------------------------------------------------------------------------
(* A point of the total in real time is one scan.                          *)

(* Each second has one scan, and a scan one reading per address; the       *)
(* latest is at the clock.                                                 *)
ScansInv ==
    /\ \A r, s \in recorded : r.ts = s.ts => r.tick = s.tick
    /\ \A r, s \in recorded : r.tick = s.tick /\ r.ip = s.ip => r = s
    /\ \A s \in recorded : s.tick = ticks => s.ts = now

InRing(s) == \E i \in DOMAIN series[s.id].realtime : series[s.id].realtime[i] = s

(* A ring holds recorded readings of its client, of addresses the scan     *)
(* still counts.                                                           *)
RingsRecorded ==
    \A id \in DOMAIN series : \A i \in DOMAIN series[id].realtime :
        LET r == series[id].realtime[i]
        IN  r \in recorded /\ r.ip \in seen /\ r.id = id

(* Of a scan a ring still shows, every reading is in the ring of its own   *)
(* client, unless that ring is full.                                       *)
KeptOrFull ==
    \A id \in DOMAIN series : \A i \in DOMAIN series[id].realtime : \A s \in recorded :
        s.tick = series[id].realtime[i].tick =>
            /\ s.id \in DOMAIN series
            /\ InRing(s) \/ Len(series[s.id].realtime) = RealtimeCap

(* Every address counted is in the latest scan. *)
SeenRecorded ==
    \A ip \in seen : last_ts # NoTime /\ \E s \in Latest : s.ip = ip

RingsInv == RingsRecorded /\ KeptOrFull /\ SeenRecorded

LEMMA NextScansInv ==
  ASSUME StepBack = 0
  PROVE  TypeOK /\ SpansInv /\ ScansInv /\ [Next]_vars => ScansInv'
<1> SUFFICES ASSUME TypeOK, SpansInv, ScansInv, [Next]_vars PROVE ScansInv'
  OBVIOUS
<1>1. ASSUME NEW t \in ClockReadings, NEW new \in SUBSET Ip, NEW names \in NameTables,
             Tick(t, new, names)
      PROVE  ScansInv'
  <2> DEFINE readings == Readings(Views(seen \cup new, names), t)
  <2>1. /\ recorded' = recorded \cup readings /\ now' = t /\ ticks' = ticks + 1
        /\ now \in Nat /\ t \in Nat /\ ticks \in Nat /\ now < t
    <3>1. now < t /\ t \in Nat
      BY ScanLoopAssumption DEF ClockReadings, TypeOK
    <3> QED BY <1>1, <3>1 DEF Tick, TypeOK
  <2>2. \A r \in readings : r.tick = ticks + 1 /\ r.ts = t
    BY DEF Readings, Reading
  <2>3. \A r, s \in readings : r.ip = s.ip => r = s
    BY DEF Readings, Reading, Views
  <2> HIDE DEF readings
  <2>4. \A s \in recorded : s.ts \in Nat /\ s.tick \in Nat /\ s.ts <= now /\ s.tick <= ticks
    BY ScanLoopAssumption DEF TypeOK, Sample, SpansInv
  <2>5. \A r \in recorded, s \in readings : r.ts # s.ts /\ r.tick # s.tick
    BY <2>1, <2>2, <2>4
  <2>6. \A r, s \in recorded' : r.ts = s.ts => r.tick = s.tick
    BY <2>1, <2>2, <2>5 DEF ScansInv
  <2>7. \A r, s \in recorded' : r.tick = s.tick /\ r.ip = s.ip => r = s
    BY <2>1, <2>3, <2>5 DEF ScansInv
  <2>8. \A s \in recorded' : s.tick = ticks' => s.ts = now'
    BY <2>1, <2>2, <2>4
  <2> QED BY <2>6, <2>7, <2>8 DEF ScansInv
<1>2. CASE Save \/ Maintain \/ Publish \/ Crash \/ Restart \/ UNCHANGED vars
  <2>1. recorded' = recorded /\ ticks' = ticks /\ now' = now
    BY <1>2
       DEF Save, InsertRow, InsertRowFails, Upsert, UpsertFails, Saved, Maintain, RollupHour,
           RollupDay, RollupFails, PruneMin, PruneHour, PruneDay, PruneFails, Publish, Crash,
           Restart, GoTo, vars, loopVars, history
  <2> QED BY <2>1 DEF ScansInv
<1> QED BY <1>1, <1>2 DEF Next, Scan

LEMMA TickRingsInv ==
  ASSUME FewAddressesPerClient, StepBack = 0, TypeOK, SpansInv, RingsInv,
         NEW t \in ClockReadings, NEW new \in SUBSET Ip, NEW names \in NameTables,
         Tick(t, new, names)
  PROVE  RingsInv'
<1> DEFINE ips == seen \cup new
           views == Views(ips, names)
           readings == Readings(views, t)
<1>1. /\ Record(views, readings, t) /\ recorded' = recorded \cup readings
      /\ ticks' = ticks + 1 /\ seen' = ips /\ last_ts' = t /\ ticks < MaxTicks
  BY DEF Tick, Record
<1>2. t \in Nat /\ ips \in SUBSET Ip /\ ticks \in Nat
  BY ClockIsNat DEF TypeOK
<1>3. views \in SUBSET View /\ readings \in SUBSET Sample /\ IsFiniteSet(readings)
  BY <1>1, <1>2, ViewsType, ReadingsType, ReadingsFinite
<1>4. /\ \A r \in readings : r.tick = ticks + 1 /\ r.ip \in ips
      /\ \A ip \in ips : \E r \in readings : r.ip = ip
  <2>1. ASSUME NEW r \in readings PROVE r.tick = ticks + 1 /\ r.ip \in ips
    BY DEF Readings, Reading, Views
  <2>2. ASSUME NEW ip \in ips PROVE \E r \in readings : r.ip = ip
    <3>1. [mac |-> names[ip], ip |-> ip] \in views
      BY DEF Views
    <3>2. Reading([mac |-> names[ip], ip |-> ip], ticks + 1, t) \in readings
      BY <3>1 DEF Readings
    <3> QED BY <3>2 DEF Reading
  <2> QED BY <2>1, <2>2
<1>5. \A r \in readings :
         /\ r.id \in DOMAIN series'
         /\ \E i \in DOMAIN series'[r.id].realtime : series'[r.id].realtime[i] = r
  BY <1>1, <1>2, RecordShows
<1>6. \A s \in recorded : s.tick \in Nat /\ s.tick <= ticks
  BY ScanLoopAssumption DEF TypeOK, Sample, SpansInv
<1> HIDE DEF views, readings, ips
<1>7. DOMAIN series' = DOMAIN series \cup Viewed(views)
      /\ \A d \in DOMAIN series \ Viewed(views) : series'[d] = series[d]
  BY <1>1, RecordMinutes
<1>8. \A d \in Viewed(views) : RealtimeOf(d) \in Seq(Sample) /\ GrewBy(d, readings)
  BY <1>1, <1>3, RecordPushes
<1>9. ASSUME NEW id \in DOMAIN series', NEW i \in DOMAIN series'[id].realtime
      PROVE  LET r == series'[id].realtime[i]
             IN  \/ r \in readings /\ r.id = id
                 \/ id \in DOMAIN series /\ \E j \in DOMAIN series[id].realtime : r = series[id].realtime[j]
  BY <1>1, <1>3, RecordExtends
<1>10. RingsRecorded'
  <2> SUFFICES ASSUME NEW id \in DOMAIN series', NEW i \in DOMAIN series'[id].realtime
               PROVE  LET r == series'[id].realtime[i]
                      IN  r \in recorded' /\ r.ip \in seen' /\ r.id = id
    BY DEF RingsRecorded
  <2>1. seen \subseteq ips
    BY DEF ips
  <2> QED BY <1>1, <1>4, <1>9, <2>1 DEF RingsInv, RingsRecorded
<1>11. KeptOrFull'
  <2> SUFFICES ASSUME NEW id \in DOMAIN series', NEW i \in DOMAIN series'[id].realtime,
                      NEW s \in recorded', s.tick = series'[id].realtime[i].tick
               PROVE  /\ s.id \in DOMAIN series'
                      /\ \/ \E j \in DOMAIN series'[s.id].realtime : series'[s.id].realtime[j] = s
                         \/ Len(series'[s.id].realtime) = RealtimeCap
    BY DEF KeptOrFull, InRing
  <2>1. CASE s \in readings
    BY <1>5, <2>1
  <2>2. CASE s \in recorded
    <3>1. PICK d \in DOMAIN series : \E j \in DOMAIN series[d].realtime :
                 s.tick = series[d].realtime[j].tick
      <4>1. series'[id].realtime[i] \notin readings
        BY <1>2, <1>4, <1>6, <2>2
      <4> QED BY <1>9, <4>1
    <3>2. s.id \in DOMAIN series /\ (InRing(s) \/ Len(series[s.id].realtime) = RealtimeCap)
      BY <2>2, <3>1 DEF RingsInv, KeptOrFull
    <3>3. CASE s.id \notin Viewed(views)
      BY <1>7, <3>2, <3>3 DEF InRing
    <3>4. CASE s.id \in Viewed(views)
      <4> DEFINE old == RealtimeOf(s.id)
      <4>1. old \in Seq(Sample)
        BY <1>8, <3>4
      <4>2. PICK items \in Seq(Sample) : series'[s.id].realtime = Pushed(old, items, RealtimeCap)
        BY <1>8, <3>4 DEF GrewBy
      <4>3. (\E j \in DOMAIN old : old[j] = s) \/ Len(old) = RealtimeCap
        BY <3>2 DEF RealtimeOf, InRing
      <4> HIDE DEF old
      <4>4. RealtimeCap \in Nat
        BY RecorderAssumption
      <4>5. /\ Len(old) = RealtimeCap => Len(Pushed(old, items, RealtimeCap)) = RealtimeCap
            /\ \A j \in DOMAIN old : \/ Len(Pushed(old, items, RealtimeCap)) = RealtimeCap
                                     \/ \E k \in DOMAIN Pushed(old, items, RealtimeCap) :
                                           Pushed(old, items, RealtimeCap)[k] = old[j]
        BY <4>1, <4>4, PushedKeeps
      <4>6. s.id \in DOMAIN series'
        BY <1>7, <3>2
      <4> QED BY <4>2, <4>3, <4>5, <4>6
    <3> QED BY <3>3, <3>4
  <2> QED BY <1>1, <2>1, <2>2
<1>12. SeenRecorded'
  <2>1. \A r \in readings : r \in recorded' /\ r.tick = ticks'
    BY <1>1, <1>4
  <2>2. t # NoTime
    BY <1>2 DEF NoTime
  <2>3. \A ip \in seen' : \E r \in recorded' : r.tick = ticks' /\ r.ip = ip
    BY <1>1, <1>4, <2>1
  <2> QED BY <1>1, <2>2, <2>3 DEF SeenRecorded, Latest
<1> QED BY <1>10, <1>11, <1>12 DEF RingsInv

LEMMA NextRingsInv ==
  ASSUME FewAddressesPerClient, StepBack = 0
  PROVE  TypeOK /\ SpansInv /\ RingsInv /\ [Next]_vars => RingsInv'
<1> SUFFICES ASSUME TypeOK, SpansInv, RingsInv, [Next]_vars PROVE RingsInv'
  OBVIOUS
<1>1. ASSUME NEW t \in ClockReadings, NEW new \in SUBSET Ip, NEW names \in NameTables,
             Tick(t, new, names)
      PROVE  RingsInv'
  BY <1>1, TickRingsInv
<1>2. CASE Crash
  BY <1>2 DEF Crash, RingsInv, RingsRecorded, KeptOrFull, SeenRecorded
<1>3. CASE Save \/ Maintain \/ Publish \/ Restart \/ UNCHANGED vars
  <2>1. series' = series /\ recorded' = recorded /\ seen' = seen /\ ticks' = ticks
        /\ last_ts' = last_ts
    BY <1>3
       DEF Save, InsertRow, InsertRowFails, Upsert, UpsertFails, Saved, Maintain, RollupHour,
           RollupDay, RollupFails, PruneMin, PruneHour, PruneDay, PruneFails, Publish,
           Restart, GoTo, vars, loopVars, recorderVars, history
  <2> QED BY <2>1 DEF RingsInv, RingsRecorded, KeptOrFull, SeenRecorded, InRing, Latest
<1> QED BY <1>1, <1>2, <1>3 DEF Next, Scan

(* What all realtime rings hold. *)
InRings == UNION { Range(series[id].realtime) : id \in DOMAIN series }

(* A point of the total sums all of its time that the rings hold. *)
LEMMA RealtimeTotal ==
  ASSUME TypeOK, RingRows, RowsMatchBuckets, RealtimeInOrder
  PROVE  LET total == Always("realtime", Everyone)
         IN  /\ total # << >> => Len(total) # 0
             /\ Len(total) \in Nat /\ DOMAIN total = 1 .. Len(total)
             /\ \A i, j \in DOMAIN total : i < j => total[i].ts < total[j].ts
             /\ \A i \in DOMAIN total :
                   /\ total[i].of = { r \in InRings : r.ts = total[i].ts }
                   /\ \E r \in InRings : r.ts = total[i].ts
             /\ \A r \in InRings : \E i \in DOMAIN total : total[i].ts = r.ts
<1> DEFINE total == Always("realtime", Everyone)
           points == TotalPoints("realtime")
           Alone(r) == [ts |-> r.ts, of |-> {r}]
<1>1. "realtime" \in HistTier /\ "realtime" \in RamTiers
  BY DEF HistTier, RamTiers
<1>2. total = ByTime(points) /\ \A p \in points : p.ts \in 0 .. now + Day
  BY <1>1, ChartsSumPoints DEF Point
<1>3. 0 \in Int /\ now + Day \in Int /\ now \in Nat /\ Day \in Nat
  BY StoreAssumption DEF TypeOK
<1>4. Groups(total, points)
  BY <1>2, <1>3, ByTimeGroups
<1>5. points = { Alone(r) : r \in InRings }
  <2>1. ASSUME NEW id \in DOMAIN series
        PROVE  Range(RamSeries("realtime", id, 0, now + Day))
                 = { Alone(r) : r \in Range(series[id].realtime) }
    <3> DEFINE ring == series[id].realtime
               samples == RamSamples("realtime", id)
    <3>1. samples = [ i \in DOMAIN ring |-> Alone(ring[i]) ]
      BY DEF RamSamples
    <3>2. ring \in Seq(Sample) /\ \A i \in DOMAIN ring : ring[i].ts \in Nat /\ ring[i].ts <= now
      BY RingTimes DEF RealtimeInOrder
    <3> HIDE DEF ring, samples
    <3>3. Len(ring) \in Nat /\ DOMAIN ring = 1 .. Len(ring) /\ DOMAIN samples = 1 .. Len(ring)
      BY <3>1, <3>2, LenProperties
    <3>4. Range(RamSeries("realtime", id, 0, now + Day))
            = { samples[k] : k \in { l \in 1 .. Len(ring) : InRange(samples[l], 0, now + Day) } }
      BY <3>3, RamSeriesKeeps DEF samples
    <3>5. \A k \in 1 .. Len(ring) : InRange(samples[k], 0, now + Day) /\ samples[k] = Alone(ring[k])
      <4> SUFFICES ASSUME NEW k \in 1 .. Len(ring)
                   PROVE  InRange(samples[k], 0, now + Day) /\ samples[k] = Alone(ring[k])
        OBVIOUS
      <4>1. samples[k] = Alone(ring[k]) /\ ring[k].ts \in Nat /\ ring[k].ts <= now
        BY <3>1, <3>2, <3>3
      <4>2. samples[k].ts = ring[k].ts
        BY <4>1
      <4>3. ring[k].ts >= 0 /\ ring[k].ts <= now + Day
        BY <1>3, <4>1
      <4> QED BY <4>1, <4>2, <4>3 DEF InRange
    <3>6. Range(ring) = { ring[k] : k \in 1 .. Len(ring) }
      BY <3>3 DEF Range
    <3> HIDE DEF Alone
    <3> QED BY <3>4, <3>5, <3>6 DEF ring
  <2>2. points = UNION { Range(RamSeries("realtime", id, 0, now + Day)) : id \in DOMAIN series }
    BY <1>1 DEF TotalPoints
  <2> HIDE DEF points, Alone
  <2> QED BY <2>1, <2>2 DEF InRings
<1>6. \A r : Alone(r).ts = r.ts /\ Alone(r).of = {r}
  OBVIOUS
<1> HIDE DEF total, points, Alone
<1>7. ASSUME NEW i \in DOMAIN total
      PROVE  /\ total[i].of = { r \in InRings : r.ts = total[i].ts }
             /\ \E r \in InRings : r.ts = total[i].ts
  <2>1. /\ \E p \in points : p.ts = total[i].ts
        /\ total[i].of = UNION { p.of : p \in { q \in points : q.ts = total[i].ts } }
    BY <1>4 DEF Groups
  <2>2. \A s : s \in total[i].of <=> s \in InRings /\ s.ts = total[i].ts
    BY <1>5, <1>6, <2>1
  <2> QED BY <1>5, <1>6, <2>1, <2>2
<1>8. ASSUME NEW r \in InRings PROVE \E i \in DOMAIN total : total[i].ts = r.ts
  <2>1. Alone(r) \in points /\ Alone(r).ts = r.ts
    BY <1>5, <1>6
  <2> QED BY <1>4, <2>1 DEF Groups
<1>9. /\ total # << >> => Len(total) # 0
      /\ Len(total) \in Nat /\ DOMAIN total = 1 .. Len(total)
      /\ \A i, j \in DOMAIN total : i < j => total[i].ts < total[j].ts
  BY <1>4 DEF Groups
<1> QED BY <1>7, <1>8, <1>9 DEF total

(* While the clock is not set back and few enough addresses share a        *)
(* client, each point of the total in real time is one scan, without a     *)
(* reading twice and with all that the rings have not had to drop, and the *)
(* newest is the latest scan, whole.                                       *)
THEOREM TotalIsAlwaysOneScan ==
  ASSUME FewAddressesPerClient, StepBack = 0
  PROVE  Spec => []TotalIsOneScan
<1>1. /\ TypeOK /\ RingRows /\ RowsInv /\ OrderInv
      /\ ReadersInv /\ ScansInv /\ SpansInv /\ RingsInv
      => TotalIsOneScan
  <2> SUFFICES ASSUME TypeOK, RingRows, RowsMatchBuckets, RealtimeInOrder,
                      ReadersInv, ScansInv, SpansInv, RingsInv, last_ts # NoTime
               PROVE  LET total == Always("realtime", Everyone)
                      IN  /\ \A i \in DOMAIN total :
                                /\ \A r, s \in total[i].of : r.tick = s.tick /\ (r.ip = s.ip => r = s)
                                /\ \A s \in recorded :
                                      s.ts = total[i].ts =>
                                         \/ s \in total[i].of
                                         \/ Len(series[s.id].realtime) = RealtimeCap
                          /\ total # << >> => Last(total).of = Latest
    BY DEF TotalIsOneScan, RowsInv, OrderInv
  <2> DEFINE total == Always("realtime", Everyone)
  <2>1. /\ total # << >> => Len(total) # 0
        /\ Len(total) \in Nat /\ DOMAIN total = 1 .. Len(total)
        /\ \A i, j \in DOMAIN total : i < j => total[i].ts < total[j].ts
        /\ \A i \in DOMAIN total :
              /\ total[i].of = { r \in InRings : r.ts = total[i].ts }
              /\ \E r \in InRings : r.ts = total[i].ts
        /\ \A r \in InRings : \E i \in DOMAIN total : total[i].ts = r.ts
    BY RealtimeTotal
  <2> HIDE DEF total
  <2>2. \A s : s.id \in DOMAIN series /\ InRing(s) => s \in InRings
    BY DEF InRings, InRing, Range
  <2>3. \A r \in InRings : \E id \in DOMAIN series : \E i \in DOMAIN series[id].realtime :
           r = series[id].realtime[i]
    BY DEF InRings, Range
  <2>4. \A r \in InRings : r \in recorded /\ r.ip \in seen
    BY <2>3 DEF RingsInv, RingsRecorded
  <2>5. ASSUME NEW i \in DOMAIN total, NEW r \in total[i].of, NEW s \in total[i].of
        PROVE  r.tick = s.tick /\ (r.ip = s.ip => r = s)
    <3>1. r \in recorded /\ s \in recorded /\ r.ts = s.ts
      BY <2>1, <2>4
    <3> QED BY <3>1 DEF ScansInv
  <2>6. ASSUME NEW i \in DOMAIN total, NEW s \in recorded, s.ts = total[i].ts
        PROVE  s \in total[i].of \/ Len(series[s.id].realtime) = RealtimeCap
    <3>1. PICK r \in InRings : r.ts = total[i].ts
      BY <2>1
    <3>2. s.tick = r.tick
      BY <2>4, <2>6, <3>1 DEF ScansInv
    <3>3. PICK id \in DOMAIN series : \E k \in DOMAIN series[id].realtime : r = series[id].realtime[k]
      BY <2>3
    <3>4. s.id \in DOMAIN series /\ (InRing(s) \/ Len(series[s.id].realtime) = RealtimeCap)
      BY <3>2, <3>3 DEF RingsInv, KeptOrFull
    <3> QED BY <2>1, <2>2, <2>6, <3>4
  <2>7. ASSUME total # << >> PROVE Last(total).of = Latest
    <3> DEFINE n == Len(total)
    <3>1. n \in DOMAIN total /\ \A i \in DOMAIN total : i # n => i < n
      BY <2>1, <2>7
    <3>2. PICK r \in InRings : r.ts = total[n].ts
      BY <2>1, <3>1
    <3>3. PICK s \in Latest : s.ip = r.ip
      BY <2>4, <3>2 DEF RingsInv, SeenRecorded
    <3>4. \A l \in Latest : l \in InRings /\ l.ts = now
      BY <2>2 DEF ReadersInv, InRing, ScansInv, Latest
    <3>5. \A l \in InRings : l.ts = now => l \in Latest
      <4>1. s \in recorded /\ s.tick = ticks /\ s.ts = now
        BY <3>3, <3>4 DEF Latest
      <4> QED BY <2>4, <4>1 DEF ScansInv, Latest
    <3>6. PICK i \in DOMAIN total : total[i].ts = now
      <4>1. s \in InRings /\ s.ts = now
        BY <3>3, <3>4
      <4>2. \A x \in InRings : \E i \in DOMAIN total : total[i].ts = x.ts
        BY <2>1
      <4> QED BY <4>1, <4>2
    <3>7. total[n].ts \in Nat /\ total[n].ts <= now /\ now \in Nat
      <4>1. r \in recorded /\ r \in Sample
        BY <2>4, <3>2 DEF TypeOK
      <4>2. r.ts \in Nat /\ r.ts <= now
        BY <4>1 DEF Sample, SpansInv
      <4> QED BY <3>2, <4>2 DEF TypeOK
    <3>8. i = n
      <4>1. i # n => total[i].ts < total[n].ts
        BY <2>1, <3>1
      <4> HIDE DEF n
      <4> QED BY <3>6, <3>7, <4>1
    <3>9. total[n].of = Latest
      BY <2>1, <3>1, <3>4, <3>5, <3>6, <3>8
    <3> QED BY <3>9 DEF Last
  <2> QED BY <2>5, <2>6, <2>7 DEF total
<1>2. Init => RingRows /\ OrderInv /\ ScansInv /\ RingsInv /\ TicksInv
  BY DEF Init, RecorderInit, RingRows, OrderInv, RealtimeInOrder, MinutesInOrder, ScansInv,
         RingsInv, RingsRecorded, KeptOrFull, SeenRecorded, TicksInv
<1>3. /\ TypeOK /\ MinutesInv /\ OrderInv /\ [Next]_vars => OrderInv'
      /\ TypeOK /\ MinutesInv /\ [Next]_vars => MinutesInv'
      /\ TypeOK /\ SpansInv /\ [Next]_vars => SpansInv'
      /\ TypeOK /\ SpansInv /\ ScansInv /\ [Next]_vars => ScansInv'
      /\ TypeOK /\ SpansInv /\ RingsInv /\ [Next]_vars => RingsInv'
  BY NextOrderInv, NextMinutesInv, NextSpansInv, NextScansInv, NextRingsInv
<1>4. TypeOK /\ TicksInv /\ ReadersInv /\ [Next]_vars => ReadersInv'
  BY TickReadersInv, RestReadersInv DEF TicksInv, Next, Scan
<1> QED BY <1>1, <1>2, <1>3, <1>4, InitRowsInv, NextRowsInv, NextRingRows, InitMinutesInv,
           InitSpansInv, InitReadersInv, NextTicksInv, TypeCorrect, PTL DEF Spec
===============================================================================
