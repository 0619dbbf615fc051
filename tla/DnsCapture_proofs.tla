--------------------------- MODULE DnsCapture_proofs ---------------------------
(***************************************************************************)
(* Safety of the DNS statistics for every value of the constants: types,   *)
(* the window and its cap, the day a query is filed under, and that every  *)
(* query is counted exactly once.                                          *)
(***************************************************************************)
EXTENDS DnsTop, Data_proofs

-------------------------------------------------------------------------------
(* Arithmetic and tables.                                                  *)

LEMMA BucketFits ==
  ASSUME NEW t \in Nat
  PROVE  /\ Bucket(t, Day) \in Nat /\ Bucket(t, Day) <= t /\ t < Bucket(t, Day) + Day
         /\ Bucket(t, Day) % Day = 0
<1> DEFINE q == t \div Day
           r == t % Day
<1>1. Day \in Nat \ {0}
  BY DnsAssumption
<1>2. q \in Nat /\ r \in 0 .. Day - 1 /\ t = Day * q + r
  BY <1>1
<1>3. Bucket(t, Day) = t - r
  BY DEF Bucket
<1> HIDE DEF q, r
<1>4. Day * q \in Nat /\ Bucket(t, Day) = Day * q
  BY <1>1, <1>2, <1>3
<1>5. (Day * q) % Day = 0
  BY <1>1, <1>2
<1> QED BY <1>1, <1>2, <1>4, <1>5

LEMMA ClockIsNat ==
  ASSUME NEW t \in ClockReadings
  PROVE  t \in Int /\ t >= 0 /\ t \in Nat
<1>1. t \in Int /\ t >= 0
  BY DEF ClockReadings
<1> QED BY <1>1

(* What one more query does to the window.                                 *)
CountsOneMore(query, key) ==
    /\ DOMAIN counts' = DOMAIN counts \cup {key}
    /\ \A k \in DOMAIN counts : counts[k] \subseteq counts'[k]
    /\ query \in counts'[key]
    /\ \A k \in DOMAIN counts' : \A q \in counts'[k] :
          (k \in DOMAIN counts /\ q \in counts[k]) \/ (k = key /\ q = query)
    /\ counts' = [ k \in DOMAIN counts' |-> counts'[k] ]

LEMMA CountedShape ==
  ASSUME NEW mac, NEW domain, NEW query, counts' = Counted(mac, domain, query)
  PROVE  CountsOneMore(query, [mac |-> mac, domain |-> domain])
<1> DEFINE key == [mac |-> mac, domain |-> domain]
<1>1. counts' = [ k \in DOMAIN counts \cup {key} |->
                    (IF k \in DOMAIN counts THEN counts[k] ELSE {})
                      \cup (IF k = key THEN {query} ELSE {}) ]
  BY DEF Counted
<1> HIDE DEF key
<1>2. CountsOneMore(query, key)
  BY <1>1 DEF CountsOneMore
<1> QED BY <1>2 DEF key

(* A packet that is counted: its query and where it is filed.              *)
LEMMA ReceiveShape ==
  ASSUME TypeOK, Numbered, NEW ip \in Ip, NEW domain \in Domain, Receive(ip, domain)
  PROVE  \E query \in Query : \E key \in CountKey :
           /\ query \notin queries /\ query.n = Cardinality(queries) + 1
           /\ query.domain = domain /\ query.ts = now /\ query.mac = key.mac
           /\ key.domain = Filed(domain)
           /\ CountsOneMore(query, key)
           /\ seen_domains' = SeenWith(Filed(domain))
           /\ queries' = queries \cup {query}
<1> DEFINE query == [n |-> Cardinality(queries) + 1, mac |-> names[ip], domain |-> domain,
                     ts |-> now]
           key == [mac |-> names[ip], domain |-> Filed(domain)]
<1>1. Cardinality(queries) \in Nat
  BY FS_CardinalityType DEF Numbered
<1>2. names[ip] \in Mac
  <2>1. ip \in DOMAIN names
    BY DEF Receive
  <2>2. PICK known \in SUBSET Ip : names \in [known -> Mac]
    BY DEF TypeOK, NameTables
  <2> QED BY <2>1, <2>2
<1>3. /\ Cardinality(queries) < MaxQueries
      /\ CountsOneMore(query, key)
      /\ seen_domains' = SeenWith(Filed(domain))
      /\ queries' = queries \cup {query}
  BY CountedShape DEF Receive
<1>4. Filed(domain) \in Domain \cup {Other}
  BY DEF Filed
<1>5. query \in Query
  <2>1. Cardinality(queries) + 1 \in 1 .. MaxQueries /\ now \in Nat
    BY <1>1, <1>3, DnsAssumption DEF TypeOK
  <2> QED BY <1>2, <2>1 DEF Query
<1>6. key \in CountKey
  BY <1>2, <1>4 DEF CountKey
<1>7. query \notin queries
  <2> SUFFICES ASSUME query \in queries PROVE FALSE
    OBVIOUS
  <2>1. query.n <= Cardinality(queries)
    BY DEF Numbered
  <2> QED BY <1>1, <2>1
<1>8. /\ query.n = Cardinality(queries) + 1 /\ query.domain = domain /\ query.ts = now
      /\ query.mac = key.mac /\ key.domain = Filed(domain)
  OBVIOUS
<1> HIDE DEF query, key
<1> QED BY <1>3, <1>5, <1>6, <1>7, <1>8

LEMMA WriteShape ==
  ASSUME TypeOK, Write
  PROVE  /\ DOMAIN dns_counts_day' = DOMAIN dns_counts_day \cup Rows
         /\ \A row \in Rows : dns_counts_day'[row] = AddedRow(row)
         /\ \A row \in DOMAIN dns_counts_day \ Rows :
                dns_counts_day'[row] = dns_counts_day[row]
         /\ \A key \in DOMAIN batch : /\ RowKey(key).mac = key.mac
                                      /\ RowKey(key).domain = key.domain
                                      /\ [mac |-> RowKey(key).mac, domain |-> RowKey(key).domain] = key
                                      /\ RowKey(key) \in DayKey /\ RowKey(key).ts = ts_day
<1>1. ASSUME NEW key \in DOMAIN batch
      PROVE  /\ RowKey(key).mac = key.mac
             /\ RowKey(key).domain = key.domain
             /\ [mac |-> RowKey(key).mac, domain |-> RowKey(key).domain] = key
             /\ RowKey(key) \in DayKey /\ RowKey(key).ts = ts_day
  <2>1. key \in CountKey /\ ts_day \in Nat
    BY DEF TypeOK, PartialFunction
  <2>2. key = [mac |-> key.mac, domain |-> key.domain] /\ key.mac \in Mac
        /\ key.domain \in Domain \cup {Other}
    BY <2>1 DEF CountKey
  <2> QED BY <2>1, <2>2 DEF RowKey, DayKey
<1> QED BY <1>1 DEF Write

-------------------------------------------------------------------------------
(* Type correctness.                                                       *)

LEMMA EmptyTyped ==
  ASSUME NEW S, NEW T
  PROVE  PartialFunction(EmptyTable, S, T) /\ DOMAIN EmptyTable = {}
BY DEF PartialFunction, EmptyTable

LEMMA InitTypeOK == Init => TypeOK /\ Numbered
<1> SUFFICES ASSUME Init PROVE TypeOK /\ Numbered
  OBVIOUS
<1>1. /\ PartialFunction(counts, CountKey, SUBSET Query)
      /\ PartialFunction(batch, CountKey, SUBSET Query)
      /\ PartialFunction(dns_counts_day, DayKey, SUBSET Query)
  BY EmptyTyped DEF Init
<1>2. Numbered
  BY FS_EmptySet DEF Init, Numbered
<1> QED BY <1>1, <1>2, DnsAssumption DEF Init, TypeOK

LEMMA ReceiveType ==
  ASSUME TypeOK, Numbered, NEW ip \in Ip, NEW domain \in Domain, Receive(ip, domain)
  PROVE  TypeOK' /\ Numbered'
<1>1. PICK query \in Query, key \in CountKey :
           /\ query \notin queries /\ query.n = Cardinality(queries) + 1
           /\ key.domain = Filed(domain)
           /\ CountsOneMore(query, key)
           /\ seen_domains' = SeenWith(Filed(domain))
           /\ queries' = queries \cup {query}
  BY ReceiveShape
<1>2. PartialFunction(counts', CountKey, SUBSET Query)
  <2>1. DOMAIN counts' = DOMAIN counts \cup {key}
    BY <1>1 DEF CountsOneMore
  <2>2. ASSUME NEW k \in DOMAIN counts' PROVE counts'[k] \in SUBSET Query
    <3>1. \A q \in counts'[k] : (k \in DOMAIN counts /\ q \in counts[k]) \/ q = query
      BY <1>1 DEF CountsOneMore
    <3>2. k \in DOMAIN counts => counts[k] \subseteq Query
      BY DEF TypeOK, PartialFunction
    <3> QED BY <3>1, <3>2
  <2>3. counts' = [ k \in DOMAIN counts' |-> counts'[k] ]
    BY <1>1 DEF CountsOneMore
  <2> QED BY <2>1, <2>2, <2>3 DEF TypeOK, PartialFunction
<1>3. seen_domains' \subseteq Domain
  BY <1>1 DEF TypeOK, Filed, SeenWith
<1>4. queries' \subseteq Query /\ lost' \subseteq Query
  BY <1>1 DEF TypeOK, Receive
<1>5. Numbered'
  <2>1. IsFiniteSet(queries') /\ Cardinality(queries') = Cardinality(queries) + 1
    BY <1>1, FS_AddElement DEF Numbered
  <2>2. ASSUME NEW q \in queries' PROVE q.n <= Cardinality(queries')
    <3>1. Cardinality(queries) \in Nat
      BY FS_CardinalityType DEF Numbered
    <3>2. CASE q = query
      BY <1>1, <2>1, <3>1, <3>2
    <3>3. CASE q \in queries
      <4>1. q.n <= Cardinality(queries) /\ q.n \in 1 .. MaxQueries
        BY <3>3 DEF Numbered, TypeOK, Query
      <4> QED BY <2>1, <3>1, <4>1, DnsAssumption
    <3> QED BY <1>1, <3>2, <3>3
  <2> QED BY <2>1, <2>2 DEF Numbered
<1> QED BY <1>2, <1>3, <1>4, <1>5 DEF TypeOK, Receive, NameTables

LEMMA WriteType ==
  ASSUME TypeOK, Numbered, Write
  PROVE  TypeOK' /\ Numbered'
<1>1. PartialFunction(dns_counts_day', DayKey, SUBSET Query)
  <2>1. DOMAIN dns_counts_day' \subseteq DayKey
    BY WriteShape DEF TypeOK, PartialFunction, Rows
  <2>2. ASSUME NEW row \in Rows PROVE AddedRow(row) \subseteq Query
    <3>1. PICK key \in DOMAIN batch : row = RowKey(key)
      BY DEF Rows
    <3>2. [mac |-> row.mac, domain |-> row.domain] = key
      BY <3>1, WriteShape
    <3>3. batch[key] \subseteq Query
      BY DEF TypeOK, PartialFunction
    <3>4. row \in DOMAIN dns_counts_day => dns_counts_day[row] \subseteq Query
      BY DEF TypeOK, PartialFunction
    <3> QED BY <3>2, <3>3, <3>4 DEF AddedRow
  <2>3. ASSUME NEW row \in DOMAIN dns_counts_day'
        PROVE  dns_counts_day'[row] \in SUBSET Query
    <3>1. row \in Rows => dns_counts_day'[row] = AddedRow(row)
      BY WriteShape
    <3>2. row \notin Rows => dns_counts_day'[row] = dns_counts_day[row]
                             /\ row \in DOMAIN dns_counts_day
      BY WriteShape
    <3> QED BY <2>2, <3>1, <3>2 DEF TypeOK, PartialFunction
  <2>4. dns_counts_day' = [ row \in DOMAIN dns_counts_day' |-> dns_counts_day'[row] ]
    BY DEF Write
  <2> QED BY <2>1, <2>3, <2>4 DEF PartialFunction
<1>2. PartialFunction(batch', CountKey, SUBSET Query)
  BY EmptyTyped DEF Write, EndFlush
<1>3. /\ UNCHANGED <<now, leases, counts, seen_domains, crashes, queries, horizon, lost>>
      /\ pc' = "polling" /\ ts_day' = 0 /\ names' = leases /\ last_flush' = now
  BY DEF Write, EndFlush, Refresh
<1>4. Numbered'
  BY <1>3 DEF Numbered
<1> QED BY <1>1, <1>2, <1>3, <1>4 DEF TypeOK

LEMMA PrunedType ==
  ASSUME PartialFunction(dns_counts_day, DayKey, SUBSET Query), NEW cutoff
  PROVE  PartialFunction(Pruned(dns_counts_day, cutoff), DayKey, SUBSET Query)
BY DEF PartialFunction, Pruned

LEMMA NextType == TypeOK /\ Numbered /\ [Next]_vars => TypeOK' /\ Numbered'
<1> SUFFICES ASSUME TypeOK, Numbered, [Next]_vars PROVE TypeOK' /\ Numbered'
  OBVIOUS
<1>1. ASSUME NEW table \in NameTables, Rename(table) PROVE TypeOK' /\ Numbered'
  BY <1>1 DEF Rename, history, TypeOK, Numbered
<1>2. ASSUME NEW t \in ClockReadings, NotDue(t) PROVE TypeOK' /\ Numbered'
  BY <1>2, ClockIsNat DEF NotDue, history, TypeOK, Numbered
<1>3. ASSUME NEW t \in ClockReadings, FlushNothing(t) PROVE TypeOK' /\ Numbered'
  BY <1>3, ClockIsNat DEF FlushNothing, Drained, Refresh, history, TypeOK, Numbered
<1>4. ASSUME NEW t \in ClockReadings, Drain(t) PROVE TypeOK' /\ Numbered'
  <2>1. Bucket(t, Day) \in Nat /\ t \in Nat
    BY BucketFits, ClockIsNat
  <2>2. PartialFunction(counts', CountKey, SUBSET Query)
    BY <1>4, EmptyTyped DEF Drain, Drained
  <2> QED BY <1>4, <2>1, <2>2 DEF Drain, Drained, history, TypeOK, Numbered
<1>5. ASSUME NEW t \in ClockReadings, Prune(t) PROVE TypeOK' /\ Numbered'
  <2>1. horizon' \in Nat
    BY <1>5, ClockIsNat, DnsAssumption DEF Prune, TypeOK
  <2>2. PartialFunction(dns_counts_day', DayKey, SUBSET Query)
    BY <1>5, PrunedType DEF Prune, TypeOK
  <2> QED BY <1>5, <2>1, <2>2 DEF Prune, TypeOK, Numbered
<1>6. ASSUME NEW t \in ClockReadings, Restart(t) PROVE TypeOK' /\ Numbered'
  BY <1>6, ClockIsNat DEF Restart, Refresh, history, TypeOK, Numbered
<1>7. CASE WriteFails
  <2>1. Awaiting \subseteq Query
    BY DEF Awaiting, TypeOK, PartialFunction
  <2>2. PartialFunction(batch', CountKey, SUBSET Query)
    BY <1>7, EmptyTyped DEF WriteFails, EndFlush
  <2> QED BY <1>7, <2>1, <2>2 DEF WriteFails, EndFlush, Refresh, TypeOK, Numbered
<1>8. CASE Crash
  <2>1. Awaiting \subseteq Query /\ Held \subseteq Query
    BY DEF Awaiting, Held, TypeOK, PartialFunction
  <2>2. /\ PartialFunction(batch', CountKey, SUBSET Query)
        /\ PartialFunction(counts', CountKey, SUBSET Query)
    BY <1>8, EmptyTyped DEF Crash
  <2> QED BY <1>8, <2>1, <2>2, DnsAssumption DEF Crash, TypeOK, Numbered
<1>9. CASE UNCHANGED vars
  BY <1>9 DEF vars, history, TypeOK, Numbered
<1> QED BY <1>1, <1>2, <1>3, <1>4, <1>5, <1>6, <1>7, <1>8, <1>9, ReceiveType, WriteType DEF Next

(* Nothing the thread, the files or the scan loop does breaks a type.      *)
THEOREM TypeCorrect == Spec => []TypeOK
BY InitTypeOK, NextType, PTL DEF Spec
-------------------------------------------------------------------------------
(* The window: what it tracks and what it folds into Other.                *)

LEMMA InitWindow == Init => WindowInv /\ OnlyCounted
<1> SUFFICES ASSUME Init PROVE WindowInv /\ OnlyCounted
  OBVIOUS
<1>1. /\ DOMAIN counts = {} /\ DOMAIN batch = {} /\ DOMAIN dns_counts_day = {}
      /\ batch = EmptyTable /\ lost = {}
  BY EmptyTyped DEF Init
<1>2. Held = {} /\ Awaiting = {} /\ Saved = {}
  BY <1>1 DEF Held, Awaiting, Saved
<1>3. CapRespected
  BY <1>1, FS_EmptySet, DnsAssumption DEF CapRespected, Init
<1> QED BY <1>1, <1>2, <1>3 DEF WindowInv, Files, FoldedUntracked, OnlyCounted

(* Counting one more query keeps the window.                               *)
LEMMA ReceiveWindow ==
  ASSUME TypeOK, Numbered, OnlyCounted, WindowInv, NEW ip \in Ip, NEW domain \in Domain,
         Receive(ip, domain)
  PROVE  WindowInv'
<1>1. PICK query \in Query, key \in CountKey :
           /\ query \notin queries
           /\ query.domain = domain /\ query.mac = key.mac
           /\ key.domain = Filed(domain)
           /\ CountsOneMore(query, key)
           /\ seen_domains' = SeenWith(Filed(domain))
  BY ReceiveShape
<1>2. /\ DOMAIN counts' = DOMAIN counts \cup {key}
      /\ \A k \in DOMAIN counts' : \A q \in counts'[k] :
            (k \in DOMAIN counts /\ q \in counts[k]) \/ (k = key /\ q = query)
  BY <1>1 DEF CountsOneMore
<1>3. \A k \in DOMAIN counts : query \notin counts[k]
  BY <1>1 DEF OnlyCounted, Held
<1>4. domain # Other
  BY DnsAssumption
<1>5. Files(counts')
  <2> SUFFICES ASSUME NEW k1 \in DOMAIN counts', NEW q \in counts'[k1]
               PROVE  /\ q.mac = k1.mac
                      /\ k1.domain \in {q.domain, Other}
                      /\ \A k2 \in DOMAIN counts' : q \in counts'[k2] => k1 = k2
    BY DEF Files
  <2>1. CASE q = query
    <3>1. \A k \in DOMAIN counts' : q \in counts'[k] => k = key
      BY <1>2, <1>3, <2>1
    <3>2. k1 = key /\ q.mac = k1.mac
      BY <1>1, <2>1, <3>1
    <3>3. k1.domain \in {q.domain, Other}
      BY <1>1, <2>1, <3>2 DEF Filed
    <3> QED BY <3>1, <3>2, <3>3
  <2>2. CASE q # query
    <3>1. \A k \in DOMAIN counts' : q \in counts'[k] => k \in DOMAIN counts /\ q \in counts[k]
      BY <1>2, <2>2
    <3>2. k1 \in DOMAIN counts /\ q \in counts[k1]
      BY <3>1
    <3> QED BY <3>1, <3>2 DEF WindowInv, Files
  <2> QED BY <2>1, <2>2
<1> DEFINE tracked == { k.domain : k \in DOMAIN counts }
           tracked2 == { k.domain : k \in DOMAIN counts' }
<1>6. tracked2 = tracked \cup {Filed(domain)}
  BY <1>1, <1>2
<1>7. /\ seen_domains = tracked \ {Other}
      /\ Cardinality(seen_domains) <= Cap
      /\ Other \in tracked => Cardinality(seen_domains) = Cap
  BY DEF WindowInv, CapRespected
<1>8. /\ IsFiniteSet(seen_domains) /\ Cardinality(seen_domains) \in Nat /\ Cap \in Nat
  BY FS_Subset, FS_CardinalityType, DnsAssumption DEF TypeOK
<1>9. FoldedUntracked
  BY DEF WindowInv
<1> HIDE DEF tracked, tracked2
<1>10. CASE domain \notin seen_domains /\ Cardinality(seen_domains) >= Cap
  <2>1. Filed(domain) = Other /\ seen_domains' = seen_domains
    BY <1>1, <1>10 DEF Filed, SeenWith
  <2>2. /\ seen_domains' = tracked2 \ {Other}
        /\ Cardinality(seen_domains') <= Cap
        /\ Other \in tracked2 => Cardinality(seen_domains') = Cap
    BY <1>6, <1>7, <1>8, <1>10, <2>1
  <2>3. FoldedUntracked'
    BY <1>1, <1>2, <1>9, <1>10, <2>1 DEF FoldedUntracked
  <2> QED BY <1>5, <2>2, <2>3 DEF WindowInv, CapRespected, tracked2
<1>11. CASE domain \in seen_domains
  <2>1. Filed(domain) = domain /\ seen_domains' = seen_domains
    BY <1>1, <1>4, <1>11 DEF Filed, SeenWith
  <2>2. /\ seen_domains' = tracked2 \ {Other}
        /\ Cardinality(seen_domains') <= Cap
        /\ Other \in tracked2 => Cardinality(seen_domains') = Cap
    BY <1>4, <1>6, <1>7, <1>11, <2>1
  <2>3. FoldedUntracked'
    BY <1>1, <1>2, <1>4, <1>9, <2>1 DEF FoldedUntracked
  <2> QED BY <1>5, <2>2, <2>3 DEF WindowInv, CapRespected, tracked2
<1>12. CASE domain \notin seen_domains /\ ~(Cardinality(seen_domains) >= Cap)
  <2>1. Filed(domain) = domain /\ seen_domains' = seen_domains \cup {domain}
    BY <1>1, <1>4, <1>12 DEF Filed, SeenWith
  <2>2. Cardinality(seen_domains') = Cardinality(seen_domains) + 1
    BY <1>8, <1>12, <2>1, FS_AddElement
  <2>3. Other \notin tracked
    BY <1>7, <1>8, <1>12
  <2>4. /\ seen_domains' = tracked2 \ {Other}
        /\ Cardinality(seen_domains') <= Cap
        /\ Other \notin tracked2
    BY <1>4, <1>6, <1>7, <1>8, <1>12, <2>1, <2>2, <2>3
  <2>5. FoldedUntracked'
    BY <2>4 DEF FoldedUntracked, tracked2
  <2> QED BY <1>5, <2>4, <2>5 DEF WindowInv, CapRespected, tracked2
<1> QED BY <1>10, <1>11, <1>12

LEMMA NextWindow ==
  ASSUME TypeOK, Numbered, OnlyCounted, WindowInv, [Next]_vars
  PROVE  WindowInv'
<1>1. CASE UNCHANGED <<counts, seen_domains>>
  BY <1>1 DEF WindowInv, Files, CapRespected, FoldedUntracked
<1>2. CASE counts' = EmptyTable /\ seen_domains' = {}
  <2>1. DOMAIN counts' = {}
    BY <1>2, EmptyTyped
  <2>2. CapRespected'
    BY <1>2, <2>1, FS_EmptySet, DnsAssumption DEF CapRespected
  <2> QED BY <2>1, <2>2 DEF WindowInv, Files, FoldedUntracked
<1>3. \/ \E ip \in Ip, domain \in Domain : Receive(ip, domain)
      \/ UNCHANGED <<counts, seen_domains>>
      \/ counts' = EmptyTable /\ seen_domains' = {}
  BY DEF Next, Rename, NotDue, FlushNothing, Drain, Drained, Prune, Restart, Write, WriteFails,
         EndFlush, Crash, vars
<1> QED BY <1>1, <1>2, <1>3, ReceiveWindow

LEMMA WindowSplitsNone ==
  ASSUME TypeOK, WindowInv
  PROVE  NeverSplit
<1> SUFFICES ASSUME NEW k1 \in DOMAIN counts, NEW k2 \in DOMAIN counts, NEW q1 \in counts[k1],
                    NEW q2 \in counts[k2], q1.domain = q2.domain
             PROVE  k1.domain = k2.domain
  BY DEF NeverSplit
<1>1. /\ k1.domain \in {q1.domain, Other} /\ k2.domain \in {q2.domain, Other}
  BY DEF WindowInv, Files
<1>2. /\ k1.domain # Other => k1.domain \in seen_domains
      /\ k2.domain # Other => k2.domain \in seen_domains
  BY DEF WindowInv, CapRespected
<1>3. /\ k1.domain = Other => q1.domain \notin seen_domains
      /\ k2.domain = Other => q2.domain \notin seen_domains
  BY DEF WindowInv, FoldedUntracked
<1> QED BY <1>1, <1>2, <1>3

-------------------------------------------------------------------------------
(* The books: each query in one place.                                     *)

BooksInv == TypeOK /\ Numbered /\ OnlyCounted /\ WindowInv /\ CountedOnce

LEMMA InitBooks == Init => CountedOnce /\ Books!Init
<1> SUFFICES ASSUME Init PROVE CountedOnce /\ Books!Init
  OBVIOUS
<1>1. /\ DOMAIN counts = {} /\ DOMAIN batch = {} /\ DOMAIN dns_counts_day = {}
      /\ lost = {} /\ queries = {}
  BY EmptyTyped DEF Init
<1>2. Held = {} /\ Awaiting = {} /\ Saved = {}
  BY <1>1 DEF Held, Awaiting, Saved
<1> QED BY <1>1, <1>2 DEF CountedOnce, Files, Books!Init

(* What the steps do to the places a query can be.                         *)
TakesOne ==
    \E query : /\ query \notin queries /\ queries' = queries \cup {query}
               /\ Held' = Held \cup {query} /\ Awaiting' = Awaiting /\ Saved' = Saved
               /\ lost' = lost

MovesOn ==
    /\ queries' = queries /\ lost' = lost /\ Saved' = Saved
    /\ Held' \cup Awaiting' = Held \cup Awaiting /\ Held' \cap Awaiting' = {}

SavesAll ==
    /\ queries' = queries /\ lost' = lost /\ Held' = Held
    /\ Awaiting' = {} /\ Saved' = Saved \cup Awaiting

LosesAll(some) ==
    /\ queries' = queries /\ Saved' = Saved /\ lost' = lost \cup some
    /\ some \subseteq Held \cup Awaiting /\ Held' = Held \ some /\ Awaiting' = Awaiting \ some

Expires ==
    /\ queries' = queries /\ lost' = lost /\ Held' = Held /\ Awaiting' = Awaiting
    /\ Saved' \subseteq Saved

(* Whether the three tables still file each query once, and that only a    *)
(* write holds a batch.                                                    *)
StillFiled == Files(batch') /\ Files(dns_counts_day') /\ (pc' # "writing" => batch' = EmptyTable)

LEMMA EmptyFiles == Files(EmptyTable)
BY EmptyTyped DEF Files

LEMMA ReceiveBooks ==
  ASSUME BooksInv, NEW ip \in Ip, NEW domain \in Domain, Receive(ip, domain)
  PROVE  TakesOne /\ StillFiled
<1>1. PICK query \in Query, key \in CountKey :
           /\ query \notin queries
           /\ CountsOneMore(query, key)
           /\ queries' = queries \cup {query}
  BY ReceiveShape DEF BooksInv
<1>2. Held' \subseteq Held \cup {query}
  BY <1>1 DEF CountsOneMore, Held
<1>3. Held \cup {query} \subseteq Held'
  BY <1>1 DEF CountsOneMore, Held
<1>4. UNCHANGED <<pc, batch, dns_counts_day, lost>>
  BY DEF Receive
<1>5. Awaiting' = Awaiting /\ Saved' = Saved
  BY <1>4 DEF Awaiting, Saved
<1>6. StillFiled
  BY <1>4 DEF StillFiled, BooksInv, CountedOnce, OnlyCounted
<1> QED BY <1>1, <1>2, <1>3, <1>4, <1>5, <1>6 DEF TakesOne

(* A write keeps each query under one key: those of the batch were in no   *)
(* row, and their row of the day is the only one they are added to.        *)
LEMMA WriteBooks ==
  ASSUME BooksInv, Write
  PROVE  SavesAll /\ StillFiled
<1>1. /\ DOMAIN dns_counts_day' = DOMAIN dns_counts_day \cup Rows
      /\ \A row \in Rows : dns_counts_day'[row] = AddedRow(row)
      /\ \A row \in DOMAIN dns_counts_day \ Rows : dns_counts_day'[row] = dns_counts_day[row]
      /\ \A key \in DOMAIN batch : /\ RowKey(key).mac = key.mac
                                   /\ RowKey(key).domain = key.domain
                                   /\ [mac |-> RowKey(key).mac, domain |-> RowKey(key).domain] = key
  BY WriteShape DEF BooksInv
<1>2. \A row \in Rows : \E key \in DOMAIN batch :
          /\ row = RowKey(key)
          /\ AddedRow(row) = (IF row \in DOMAIN dns_counts_day THEN dns_counts_day[row] ELSE {})
                                \cup batch[key]
  BY <1>1 DEF Rows, AddedRow
<1>3. ASSUME NEW row \in DOMAIN dns_counts_day', NEW q \in dns_counts_day'[row]
      PROVE  \/ row \in DOMAIN dns_counts_day /\ q \in dns_counts_day[row]
             \/ \E key \in DOMAIN batch : row = RowKey(key) /\ q \in batch[key]
  BY <1>1, <1>2
<1>4. ASSUME NEW row \in DOMAIN dns_counts_day
      PROVE  dns_counts_day[row] \subseteq dns_counts_day'[row]
  BY <1>1, <1>2
<1>5. ASSUME NEW key \in DOMAIN batch
      PROVE  RowKey(key) \in DOMAIN dns_counts_day' /\ batch[key] \subseteq dns_counts_day'[RowKey(key)]
  <2>1. RowKey(key) \in Rows
    BY DEF Rows
  <2>2. batch[key] \subseteq AddedRow(RowKey(key))
    BY <1>1 DEF AddedRow
  <2> QED BY <1>1, <2>1, <2>2
<1>6. Saved' \subseteq Saved \cup Awaiting
  BY <1>3 DEF Saved, Awaiting
<1>7. Saved \subseteq Saved'
  BY <1>1, <1>4 DEF Saved
<1>8. Awaiting \subseteq Saved'
  BY <1>5 DEF Saved, Awaiting
<1>9. /\ queries' = queries /\ lost' = lost /\ counts' = counts /\ batch' = EmptyTable
  BY DEF Write, EndFlush
<1>10. Held' = Held /\ Awaiting' = {}
  BY <1>9, EmptyTyped DEF Held, Awaiting
<1>11. Files(dns_counts_day')
  <2> SUFFICES ASSUME NEW k1 \in DOMAIN dns_counts_day', NEW q \in dns_counts_day'[k1]
               PROVE  /\ q.mac = k1.mac
                      /\ k1.domain \in {q.domain, Other}
                      /\ \A k2 \in DOMAIN dns_counts_day' :
                            q \in dns_counts_day'[k2] => k1 = k2
    BY DEF Files
  <2>1. CASE q \in Saved
    <3>1. q \notin Awaiting
      BY <2>1 DEF BooksInv, CountedOnce
    <3>2. \A k \in DOMAIN dns_counts_day' : q \in dns_counts_day'[k] =>
              k \in DOMAIN dns_counts_day /\ q \in dns_counts_day[k]
      BY <1>3, <3>1 DEF Awaiting
    <3>3. k1 \in DOMAIN dns_counts_day /\ q \in dns_counts_day[k1]
      BY <3>2
    <3> QED BY <3>2, <3>3 DEF BooksInv, CountedOnce, Files
  <2>2. CASE q \notin Saved
    <3>1. \A k \in DOMAIN dns_counts_day' : q \in dns_counts_day'[k] =>
              \E key \in DOMAIN batch : k = RowKey(key) /\ q \in batch[key]
      BY <1>3, <2>2 DEF Saved
    <3>2. PICK key \in DOMAIN batch : k1 = RowKey(key) /\ q \in batch[key]
      BY <3>1
    <3>3. /\ q.mac = key.mac /\ key.domain \in {q.domain, Other}
          /\ \A key2 \in DOMAIN batch : q \in batch[key2] => key = key2
      BY <3>2 DEF BooksInv, CountedOnce, Files
    <3>4. \A k2 \in DOMAIN dns_counts_day' : q \in dns_counts_day'[k2] => k1 = k2
      BY <3>1, <3>2, <3>3
    <3> QED BY <1>1, <3>2, <3>3, <3>4
  <2> QED BY <2>1, <2>2
<1> QED BY <1>6, <1>7, <1>8, <1>9, <1>10, <1>11, EmptyFiles DEF SavesAll, StillFiled

LEMMA DrainBooks ==
  ASSUME BooksInv, NEW t, Drain(t)
  PROVE  MovesOn /\ StillFiled
<1>1. /\ batch = EmptyTable /\ batch' = counts /\ counts' = EmptyTable /\ pc' = "writing"
      /\ dns_counts_day' = dns_counts_day /\ queries' = queries /\ lost' = lost
  BY DEF Drain, Drained, BooksInv, OnlyCounted, history
<1>2. Awaiting = {} /\ Held' = {}
  BY <1>1, EmptyTyped DEF Awaiting, Held
<1>3. Awaiting' = Held /\ Saved' = Saved
  BY <1>1 DEF Awaiting, Held, Saved
<1>4. Files(counts) /\ Files(dns_counts_day)
  BY DEF BooksInv, CountedOnce
<1> QED BY <1>1, <1>2, <1>3, <1>4 DEF MovesOn, StillFiled

LEMMA LossBooks ==
  ASSUME BooksInv
  PROVE  /\ WriteFails => LosesAll(Awaiting) /\ StillFiled
         /\ Crash => LosesAll(Held \cup Awaiting) /\ StillFiled
<1>1. Files(dns_counts_day) /\ Held \cap Awaiting = {}
  BY DEF BooksInv, CountedOnce
<1>2. ASSUME WriteFails PROVE LosesAll(Awaiting) /\ StillFiled
  <2>1. /\ lost' = lost \cup Awaiting /\ batch' = EmptyTable /\ counts' = counts
        /\ queries' = queries /\ dns_counts_day' = dns_counts_day
    BY <1>2 DEF WriteFails, EndFlush
  <2>2. Awaiting' = {} /\ Held' = Held /\ Saved' = Saved
    BY <2>1, EmptyTyped DEF Awaiting, Held, Saved
  <2>3. StillFiled
    BY <1>1, <2>1, EmptyFiles DEF StillFiled
  <2> QED BY <1>1, <2>1, <2>2, <2>3 DEF LosesAll
<1>3. ASSUME Crash PROVE LosesAll(Held \cup Awaiting) /\ StillFiled
  <2>1. /\ lost' = lost \cup Held \cup Awaiting /\ batch' = EmptyTable /\ counts' = EmptyTable
        /\ queries' = queries /\ dns_counts_day' = dns_counts_day
    BY <1>3 DEF Crash
  <2>2. Awaiting' = {} /\ Held' = {} /\ Saved' = Saved
    BY <2>1, EmptyTyped DEF Awaiting, Held, Saved
  <2>3. StillFiled
    BY <1>1, <2>1, EmptyFiles DEF StillFiled
  <2> QED BY <2>1, <2>2, <2>3 DEF LosesAll
<1> QED BY <1>2, <1>3

LEMMA RestBooks ==
  ASSUME BooksInv,
         \/ \E table \in NameTables : Rename(table)
         \/ \E t \in ClockReadings : NotDue(t) \/ FlushNothing(t) \/ Prune(t) \/ Restart(t)
         \/ UNCHANGED vars
  PROVE  Expires /\ StillFiled
<1>1. /\ queries' = queries /\ lost' = lost /\ batch' = batch /\ counts' = counts
      /\ pc' # "writing" => pc # "writing"
  BY DEF Rename, NotDue, FlushNothing, Drained, Prune, Restart, vars, history
<1>2. /\ DOMAIN dns_counts_day' \subseteq DOMAIN dns_counts_day
      /\ \A k \in DOMAIN dns_counts_day' : dns_counts_day'[k] = dns_counts_day[k]
  BY DEF Rename, NotDue, FlushNothing, Prune, Restart, vars, Pruned
<1>3. Held' = Held /\ Awaiting' = Awaiting
  BY <1>1 DEF Held, Awaiting
<1>4. Saved' \subseteq Saved
  BY <1>2 DEF Saved
<1>5. Files(dns_counts_day')
  BY <1>2 DEF BooksInv, CountedOnce, Files
<1>6. Files(batch') /\ (pc' # "writing" => batch' = EmptyTable)
  BY <1>1 DEF BooksInv, CountedOnce, OnlyCounted
<1> QED BY <1>1, <1>3, <1>4, <1>5, <1>6 DEF Expires, StillFiled

LEMMA NextMoves ==
  ASSUME BooksInv, [Next]_vars
  PROVE  /\ TakesOne \/ MovesOn \/ SavesAll \/ Expires \/ \E some : LosesAll(some)
         /\ StillFiled
BY ReceiveBooks, WriteBooks, DrainBooks, LossBooks, RestBooks DEF Next

LEMMA NextCountedOnce ==
  ASSUME BooksInv, [Next]_vars
  PROVE  OnlyCounted' /\ CountedOnce'
<1>1. /\ Held \cap (Awaiting \cup Saved) = {} /\ Awaiting \cap Saved = {}
      /\ lost \cap (Held \cup Awaiting \cup Saved) = {}
      /\ Held \cup Awaiting \cup Saved \cup lost \subseteq queries
  BY DEF BooksInv, CountedOnce, OnlyCounted
<1>2. /\ Held' \cap (Awaiting' \cup Saved') = {} /\ Awaiting' \cap Saved' = {}
      /\ lost' \cap (Held' \cup Awaiting' \cup Saved') = {}
      /\ Held' \cup Awaiting' \cup Saved' \cup lost' \subseteq queries'
  <2>1. CASE TakesOne
    BY <1>1, <2>1 DEF TakesOne
  <2>2. CASE MovesOn
    BY <1>1, <2>2 DEF MovesOn
  <2>3. CASE SavesAll
    BY <1>1, <2>3 DEF SavesAll
  <2>4. CASE Expires
    BY <1>1, <2>4 DEF Expires
  <2>5. ASSUME NEW some, LosesAll(some)
        PROVE  /\ Held' \cap (Awaiting' \cup Saved') = {} /\ Awaiting' \cap Saved' = {}
               /\ lost' \cap (Held' \cup Awaiting' \cup Saved') = {}
               /\ Held' \cup Awaiting' \cup Saved' \cup lost' \subseteq queries'
    BY <1>1, <2>5 DEF LosesAll
  <2> QED BY <2>1, <2>2, <2>3, <2>4, <2>5, NextMoves
<1>3. StillFiled
  BY NextMoves
<1>4. Files(counts')
  BY NextWindow DEF BooksInv, WindowInv
<1> QED BY <1>2, <1>3, <1>4 DEF StillFiled, OnlyCounted, CountedOnce

LEMMA NextBooks == BooksInv /\ [Next]_vars => BooksInv'
BY NextType, NextWindow, NextCountedOnce DEF BooksInv

LEMMA NextBalances ==
  ASSUME BooksInv, [Next]_vars
  PROVE  [Books!Next]_(Books!ledger)
<1> DEFINE waiting == Held \cup Awaiting
           gone == queries \ (Held \cup Awaiting \cup Saved \cup lost)
<1>1. /\ Held \cap (Awaiting \cup Saved) = {} /\ Awaiting \cap Saved = {}
      /\ lost \cap (Held \cup Awaiting \cup Saved) = {}
      /\ Held \cup Awaiting \cup Saved \cup lost \subseteq queries
  BY DEF BooksInv, CountedOnce, OnlyCounted
<1>2. CASE TakesOne
  <2>1. waiting \subseteq waiting' /\ (waiting' \ waiting) \cap (Saved \cup lost \cup gone) = {}
    BY <1>1, <1>2 DEF TakesOne
  <2>2. gone' = gone /\ Saved' = Saved /\ lost' = lost
    BY <1>1, <1>2 DEF TakesOne
  <2> QED BY <2>1, <2>2 DEF Books!Next, Books!Take
<1>3. CASE MovesOn
  <2>1. waiting' = waiting /\ Saved' = Saved /\ lost' = lost /\ gone' = gone
    BY <1>3 DEF MovesOn
  <2> QED BY <2>1 DEF Books!ledger
<1>4. CASE SavesAll
  <2>1. waiting' \subseteq waiting /\ Saved' = Saved \cup (waiting \ waiting')
    BY <1>1, <1>4 DEF SavesAll
  <2>2. gone' = gone /\ lost' = lost
    BY <1>4 DEF SavesAll
  <2> QED BY <2>1, <2>2 DEF Books!Next, Books!Save, Books!Moves
<1>5. ASSUME NEW some, LosesAll(some) PROVE Books!Next
  <2>1. waiting' \subseteq waiting /\ lost' = lost \cup (waiting \ waiting')
    BY <1>5 DEF LosesAll
  <2>2. gone' = gone /\ Saved' = Saved
    BY <1>5 DEF LosesAll
  <2> QED BY <2>1, <2>2 DEF Books!Next, Books!Lose, Books!Moves
<1>6. CASE Expires
  <2>1. Saved' \subseteq Saved /\ gone' = gone \cup (Saved \ Saved')
    BY <1>1, <1>6 DEF Expires
  <2>2. waiting' = waiting /\ lost' = lost
    BY <1>6 DEF Expires
  <2> QED BY <2>1, <2>2 DEF Books!Next, Books!Expire, Books!Moves
<1> QED BY <1>2, <1>3, <1>4, <1>5, <1>6, NextMoves

LEMMA BooksAlways == Spec => []BooksInv
<1>1. Init => BooksInv
  BY InitTypeOK, InitWindow, InitBooks DEF BooksInv
<1> QED BY <1>1, NextBooks, PTL DEF Spec

(* Whatever fails, crashes or sets the clock back, every query is in one   *)
(* row of one of the window, the drained batch and the table, under its    *)
(* own client, or lost and in none.                                        *)
THEOREM EachQueryOnce == Spec => []CountedOnce
<1>1. BooksInv => CountedOnce
  BY DEF BooksInv
<1> QED BY <1>1, BooksAlways, PTL

(* The window never tracks more than Cap domains, and folds only when full. *)
THEOREM WindowBounded == Spec => []CapRespected
<1>1. BooksInv => CapRespected
  BY DEF BooksInv, WindowInv
<1> QED BY <1>1, BooksAlways, PTL

(* Within a window all queries for one domain are filed under one name.    *)
THEOREM OneNamePerDomain == Spec => []NeverSplit
<1>1. BooksInv => NeverSplit
  BY WindowSplitsNone DEF BooksInv
<1> QED BY <1>1, BooksAlways, PTL

(* The DNS thread implements the abstract Ledger.                          *)
THEOREM QueriesBalance == Spec => DnsBooksBalance
<1>1. BooksInv /\ [Next]_vars => [Books!Next]_(Books!ledger)
  BY NextBalances
<1> QED BY <1>1, InitBooks, BooksAlways, PTL DEF Spec, DnsBooksBalance, Books!Spec
-------------------------------------------------------------------------------
(* The day a query is filed under, while the clock is not set back.        *)

LEMMA ClockMovesOn ==
  ASSUME StepBack = 0, now \in Nat, NEW t \in ClockReadings
  PROVE  t \in Nat /\ now <= t /\ t <= now + MaxGap
BY DnsAssumption DEF ClockReadings

LEMMA QueryTimes ==
  ASSUME TypeOK
  PROVE  /\ now \in Nat /\ last_flush \in Nat /\ ts_day \in Nat
         /\ Day \in Nat \ {0} /\ FlushSecs \in Nat /\ MaxGap \in Nat
         /\ \A q \in Held \cup Awaiting \cup Saved : q.ts \in Nat
         /\ \A k \in DOMAIN dns_counts_day : k.ts \in Nat
<1>1. Held \cup Awaiting \cup Saved \subseteq Query
  BY DEF TypeOK, PartialFunction, Held, Awaiting, Saved
<1>2. \A q \in Held \cup Awaiting \cup Saved : q.ts \in Nat
  BY <1>1 DEF Query
<1>3. \A k \in DOMAIN dns_counts_day : k.ts \in Nat
  BY DEF TypeOK, PartialFunction, DayKey
<1> QED BY <1>2, <1>3, DnsAssumption DEF TypeOK

LEMMA InitDays == Init => DaysInv
<1> SUFFICES ASSUME Init PROVE DaysInv
  OBVIOUS
<1>1. DOMAIN counts = {} /\ DOMAIN batch = {} /\ DOMAIN dns_counts_day = {}
  BY EmptyTyped DEF Init
<1>2. Held = {} /\ Awaiting = {}
  BY <1>1 DEF Held, Awaiting
<1>3. 0 % Day = 0 /\ Start <= Start + FlushSecs
  BY DnsAssumption
<1>4. FiledNearItsDay
  BY <1>1 DEF FiledNearItsDay
<1> QED BY <1>2, <1>3, <1>4, DnsAssumption DEF DaysInv, SinceFlush, Init

LEMMA ReceiveDays ==
  ASSUME BooksInv, DaysInv, NEW ip \in Ip, NEW domain \in Domain, Receive(ip, domain)
  PROVE  DaysInv'
<1>1. PICK query \in Query, key \in CountKey : query.ts = now /\ CountsOneMore(query, key)
  BY ReceiveShape DEF BooksInv
<1>2. /\ UNCHANGED <<pc, now, last_flush, batch, ts_day, dns_counts_day>> /\ pc = "polling"
  BY DEF Receive
<1>3. Held' \subseteq Held \cup {query}
  BY <1>1 DEF CountsOneMore, Held
<1>4. last_flush <= now /\ now <= last_flush + FlushSecs /\ now \in Nat
  BY <1>2, QueryTimes DEF DaysInv, SinceFlush, BooksInv
<1>5. \A q \in Held' : last_flush <= q.ts /\ q.ts <= now
  BY <1>1, <1>3, <1>4 DEF DaysInv, SinceFlush
<1>6. SinceFlush'
  BY <1>2, <1>4, <1>5 DEF SinceFlush
<1>7. Awaiting' = Awaiting /\ FiledNearItsDay'
  BY <1>2 DEF Awaiting, DaysInv, FiledNearItsDay
<1> QED BY <1>2, <1>6, <1>7 DEF DaysInv, FitsDay

LEMMA NotDueDays ==
  ASSUME StepBack = 0, BooksInv, DaysInv, NEW t \in ClockReadings, NotDue(t)
  PROVE  DaysInv'
<1>1. /\ UNCHANGED <<pc, last_flush, counts, batch, ts_day, dns_counts_day>>
      /\ pc = "polling" /\ now' = t /\ ~FlushDue(t)
  BY DEF NotDue
<1>2. t \in Nat /\ now <= t /\ now \in Nat /\ last_flush \in Nat /\ FlushSecs \in Nat
  BY ClockMovesOn, QueryTimes DEF BooksInv
<1>3. last_flush <= t /\ t <= last_flush + FlushSecs
  BY <1>1, <1>2 DEF FlushDue, DaysInv, SinceFlush
<1>4. Held' = Held /\ Awaiting' = Awaiting
  BY <1>1 DEF Held, Awaiting
<1>5. \A q \in Held : last_flush <= q.ts /\ q.ts <= t
  <2> SUFFICES ASSUME NEW q \in Held PROVE last_flush <= q.ts /\ q.ts <= t
    OBVIOUS
  <2>1. last_flush <= q.ts /\ q.ts <= now /\ q.ts \in Nat
    BY QueryTimes DEF DaysInv, SinceFlush, BooksInv
  <2> QED BY <1>2, <2>1
<1>6. SinceFlush'
  BY <1>1, <1>3, <1>4, <1>5 DEF SinceFlush
<1>7. FiledNearItsDay'
  BY <1>1 DEF DaysInv, FiledNearItsDay
<1> QED BY <1>1, <1>4, <1>6, <1>7 DEF DaysInv, FitsDay

(* A flush drains what at most one flush period and one iteration of the   *)
(* loop has gathered.                                                      *)
LEMMA DrainDays ==
  ASSUME StepBack = 0, BooksInv, DaysInv, NEW t \in ClockReadings, Drain(t)
  PROVE  DaysInv'
<1>1. /\ UNCHANGED <<last_flush, dns_counts_day>>
      /\ pc = "polling" /\ pc' = "writing" /\ now' = t
      /\ batch' = counts /\ counts' = EmptyTable /\ ts_day' = Bucket(t, Day)
  BY DEF Drain, Drained
<1>2. t \in Nat /\ now <= t /\ t <= now + MaxGap /\ now \in Nat /\ last_flush \in Nat
      /\ FlushSecs \in Nat /\ MaxGap \in Nat /\ Day \in Nat
  BY ClockMovesOn, QueryTimes DEF BooksInv
<1>3. last_flush <= now /\ now <= last_flush + FlushSecs
  BY <1>1 DEF DaysInv, SinceFlush
<1>4. /\ Bucket(t, Day) \in Nat /\ Bucket(t, Day) <= t /\ t < Bucket(t, Day) + Day
      /\ Bucket(t, Day) % Day = 0
  BY <1>2, BucketFits
<1>5. Held' = {} /\ Awaiting' = Held
  BY <1>1, EmptyTyped DEF Held, Awaiting
<1>6. \A q \in Held : FitsDay(q, Bucket(t, Day))
  <2> SUFFICES ASSUME NEW q \in Held PROVE FitsDay(q, Bucket(t, Day))
    OBVIOUS
  <2>1. last_flush <= q.ts /\ q.ts <= now /\ q.ts \in Nat
    BY QueryTimes DEF DaysInv, SinceFlush, BooksInv
  <2> QED BY <1>2, <1>3, <1>4, <2>1 DEF FitsDay
<1>7. SinceFlush'
  BY <1>1, <1>5 DEF SinceFlush
<1>8. FiledNearItsDay'
  BY <1>1 DEF DaysInv, FiledNearItsDay
<1> QED BY <1>1, <1>4, <1>5, <1>6, <1>7, <1>8 DEF DaysInv, FitsDay

(* After any refresh the flush period begins anew, with an empty window or *)
(* with what came while the thread held none.                              *)
LEMMA EmptyRefresh ==
  ASSUME BooksInv, last_flush' = now', now' \in Nat, counts' = EmptyTable, batch' = EmptyTable,
         ts_day' % Day = 0, FiledNearItsDay'
  PROVE  DaysInv'
<1>1. Held' = {} /\ Awaiting' = {}
  BY EmptyTyped DEF Held, Awaiting
<1>2. last_flush' <= now' /\ now' <= last_flush' + FlushSecs
  <2>1. \A t \in Nat : t <= t /\ t <= t + FlushSecs
    BY DnsAssumption
  <2>2. now' <= now' /\ now' <= now' + FlushSecs
    BY <2>1
  <2> QED BY <2>2
<1>3. SinceFlush'
  BY <1>1, <1>2 DEF SinceFlush
<1>4. \A q \in Awaiting' : FitsDay(q, ts_day')
  BY <1>1
<1> QED BY <1>3, <1>4 DEF DaysInv, FitsDay

(* While the drained counts are being written the window is empty.         *)
WritingEmpty == pc = "writing" => counts = EmptyTable

LEMMA NextWritingEmpty == WritingEmpty /\ [Next]_vars => WritingEmpty'
BY DEF WritingEmpty, Next, Rename, Receive, NotDue, FlushNothing, Drain, Drained, Prune,
       Restart, Write, WriteFails, EndFlush, Crash, vars

LEMMA WriteDays ==
  ASSUME BooksInv, DaysInv, WritingEmpty, Write \/ WriteFails
  PROVE  DaysInv'
<1>1. /\ pc = "writing" /\ now' = now /\ last_flush' = now /\ ts_day' = 0
      /\ batch' = EmptyTable /\ counts' = counts
  BY DEF Write, WriteFails, EndFlush, Refresh
<1>2. counts' = EmptyTable
  BY <1>1 DEF WritingEmpty
<1>3. 0 % Day = 0 /\ now \in Nat
  BY DnsAssumption, QueryTimes DEF BooksInv
<1>4. CASE WriteFails
  <2>1. FiledNearItsDay'
    BY <1>4 DEF WriteFails, DaysInv, FiledNearItsDay
  <2> QED BY <1>1, <1>2, <1>3, <2>1, EmptyRefresh
<1>5. CASE Write
  <2>1. /\ DOMAIN dns_counts_day' = DOMAIN dns_counts_day \cup Rows
        /\ \A row \in Rows : dns_counts_day'[row] = AddedRow(row)
        /\ \A row \in DOMAIN dns_counts_day \ Rows : dns_counts_day'[row] = dns_counts_day[row]
        /\ \A key \in DOMAIN batch :
              /\ [mac |-> RowKey(key).mac, domain |-> RowKey(key).domain] = key
              /\ RowKey(key).ts = ts_day
    BY <1>5, WriteShape DEF BooksInv
  <2>2. ASSUME NEW row \in Rows, NEW q \in AddedRow(row)
        PROVE  /\ row.ts = ts_day
               /\ (row \in DOMAIN dns_counts_day /\ q \in dns_counts_day[row]) \/ q \in Awaiting
    <3>1. PICK key \in DOMAIN batch : row = RowKey(key)
      BY DEF Rows
    <3>2. /\ row.ts = ts_day
          /\ AddedRow(row) = (IF row \in DOMAIN dns_counts_day THEN dns_counts_day[row] ELSE {})
                                \cup batch[key]
      BY <2>1, <3>1 DEF AddedRow
    <3> QED BY <3>2 DEF Awaiting
  <2>3. ASSUME NEW row \in DOMAIN dns_counts_day', NEW q \in dns_counts_day'[row]
        PROVE  row.ts % Day = 0 /\ q.ts < row.ts + Day /\ row.ts <= q.ts + FlushSecs + MaxGap
    <3>1. CASE row \in DOMAIN dns_counts_day /\ q \in dns_counts_day[row]
      BY <3>1 DEF DaysInv, FiledNearItsDay
    <3>2. CASE q \in Awaiting /\ row.ts = ts_day
      BY <3>2 DEF DaysInv, FitsDay
    <3> QED BY <2>1, <2>2, <3>1, <3>2
  <2>4. FiledNearItsDay'
    BY <2>3 DEF FiledNearItsDay
  <2> QED BY <1>1, <1>2, <1>3, <2>4, EmptyRefresh
<1> QED BY <1>4, <1>5

LEMMA RestDays ==
  ASSUME BooksInv, DaysInv,
         \/ \E table \in NameTables : Rename(table)
         \/ \E t \in ClockReadings : FlushNothing(t) \/ Prune(t) \/ Restart(t)
         \/ Crash \/ UNCHANGED vars
  PROVE  DaysInv'
<1>1. 0 % Day = 0
  BY DnsAssumption
<1>2. /\ DOMAIN dns_counts_day' \subseteq DOMAIN dns_counts_day
      /\ \A k \in DOMAIN dns_counts_day' : dns_counts_day'[k] = dns_counts_day[k]
  BY DEF Rename, FlushNothing, Prune, Restart, Crash, vars, Pruned
<1>3. FiledNearItsDay'
  BY <1>2 DEF DaysInv, FiledNearItsDay
<1>4. CASE UNCHANGED <<pc, now, last_flush, counts, batch, ts_day>>
  <2>1. Held' = Held /\ Awaiting' = Awaiting
    BY <1>4 DEF Held, Awaiting
  <2>2. SinceFlush'
    BY <1>4, <2>1 DEF DaysInv, SinceFlush
  <2>3. \A q \in Awaiting' : FitsDay(q, ts_day')
    BY <1>4, <2>1 DEF DaysInv
  <2> QED BY <1>3, <1>4, <2>2, <2>3 DEF DaysInv, FitsDay
<1>5. ASSUME NEW t \in ClockReadings, FlushNothing(t) \/ Restart(t) PROVE DaysInv'
  <2>1. pc # "writing"
    BY <1>5 DEF FlushNothing, Restart
  <2>2. batch' = EmptyTable /\ ts_day' = ts_day /\ now' = t /\ last_flush' = t
    BY <1>5, <2>1 DEF FlushNothing, Restart, Refresh, BooksInv, OnlyCounted
  <2>3. counts' = EmptyTable
    BY <1>5 DEF FlushNothing, Drained, Restart, DaysInv, SinceFlush
  <2>4. t \in Nat /\ ts_day' % Day = 0
    BY <2>2, ClockIsNat DEF DaysInv
  <2> QED BY <1>3, <2>2, <2>3, <2>4, EmptyRefresh
<1>6. CASE Crash
  <2>1. pc' = "down" /\ counts' = EmptyTable /\ batch' = EmptyTable /\ ts_day' = 0
    BY <1>6 DEF Crash
  <2>2. Held' = {} /\ Awaiting' = {}
    BY <2>1, EmptyTyped DEF Held, Awaiting
  <2> QED BY <1>1, <1>3, <2>1, <2>2 DEF DaysInv, SinceFlush
<1>7. \/ UNCHANGED <<pc, now, last_flush, counts, batch, ts_day>>
      \/ \E t \in ClockReadings : FlushNothing(t) \/ Restart(t)
      \/ Crash
  BY DEF Rename, Prune, vars
<1> QED BY <1>4, <1>5, <1>6, <1>7

LEMMA NextDays ==
  ASSUME StepBack = 0
  PROVE  BooksInv /\ WritingEmpty /\ DaysInv /\ [Next]_vars => DaysInv'
BY ReceiveDays, NotDueDays, DrainDays, WriteDays, RestDays DEF Next

LEMMA DaysAlways ==
  ASSUME StepBack = 0
  PROVE  Spec => []DaysInv
<1>1. Init => WritingEmpty
  BY DEF Init, WritingEmpty
<1>2. BooksInv /\ WritingEmpty /\ DaysInv /\ [Next]_vars => DaysInv'
  BY NextDays
<1> QED BY <1>1, <1>2, InitDays, NextWritingEmpty, BooksAlways, PTL DEF Spec

(* While the clock is not set back, a query is filed under its own day or  *)
(* under one that began at most a flush period and an iteration after it.  *)
THEOREM FiledOnTime ==
  ASSUME StepBack = 0
  PROVE  Spec => []FiledNearItsDay
<1>1. DaysInv => FiledNearItsDay
  BY DEF DaysInv
<1> QED BY <1>1, DaysAlways, PTL
-------------------------------------------------------------------------------
(* Nothing counted vanishes, but by prune.                                 *)

LEMMA BucketAtMost ==
  ASSUME NEW t \in Nat, NEW d \in Nat, d % Day = 0, t < d + Day
  PROVE  Bucket(t, Day) <= d
<1> DEFINE q == t \div Day
           p == d \div Day
<1>1. Day \in Nat \ {0}
  BY DnsAssumption
<1>2. q \in Nat /\ t % Day \in 0 .. Day - 1 /\ t = Day * q + (t % Day)
  BY <1>1
<1>3. p \in Nat /\ d = Day * p + (d % Day)
  BY <1>1
<1>4. Bucket(t, Day) = t - (t % Day)
  BY DEF Bucket
<1> HIDE DEF q, p
<1>5. Day * q \in Nat /\ Day * p \in Nat /\ d = Day * p
  BY <1>1, <1>2, <1>3
<1>6. Bucket(t, Day) = Day * q /\ Day * q < Day * p + Day
  <2> DEFINE r == t % Day
             dq == Day * q
             dp == Day * p
  <2>1. r \in Nat /\ t = dq + r /\ Bucket(t, Day) = t - r
    BY <1>1, <1>2, <1>4
  <2>2. dq \in Nat /\ dp \in Nat /\ t < dp + Day /\ Day \in Nat
    BY <1>1, <1>5
  <2> HIDE DEF r, dq, dp
  <2>3. Bucket(t, Day) = dq /\ dq < dp + Day
    BY <2>1, <2>2
  <2> QED BY <2>3 DEF dq, dp
<1>7. q <= p
  <2> SUFFICES ASSUME p + 1 <= q PROVE FALSE
    BY <1>2, <1>3
  <2>1. PICK e \in Nat : q = p + 1 + e
    <3>1. q - (p + 1) \in Nat /\ q = p + 1 + (q - (p + 1))
      BY <1>2, <1>3
    <3> QED BY <3>1
  <2>2. Day * q = Day * p + Day + Day * e /\ Day * e \in Nat
    BY <1>1, <1>3, <2>1
  <2> QED BY <1>1, <1>5, <1>6, <2>2
<1>8. Day * q <= Day * p
  <2>1. PICK e \in Nat : p = q + e
    <3>1. p - q \in Nat /\ p = q + (p - q)
      BY <1>2, <1>3, <1>7
    <3> QED BY <3>1
  <2>2. Day * p = Day * q + Day * e /\ Day * e \in Nat
    BY <1>1, <1>2, <2>1
  <2> QED BY <1>5, <2>2
<1> QED BY <1>5, <1>6, <1>8

LEMMA HorizonGrows ==
  ASSUME TypeOK, [Next]_vars
  PROVE  horizon \in Nat /\ horizon' \in Nat /\ horizon <= horizon'
<1>1. horizon \in Nat /\ horizon <= horizon
  BY DEF TypeOK
<1>2. CASE horizon' = horizon
  BY <1>1, <1>2
<1>3. ASSUME NEW t \in ClockReadings, Prune(t)
      PROVE  horizon' \in Nat /\ horizon <= horizon'
  BY <1>1, <1>3, ClockIsNat, DnsAssumption DEF Prune
<1>4. horizon' = horizon \/ \E t \in ClockReadings : Prune(t)
  BY DEF Next, Rename, Receive, NotDue, FlushNothing, Drain, Restart, Write, WriteFails,
         EndFlush, Crash, vars, history
<1> QED BY <1>1, <1>2, <1>3, <1>4

(* Whatever a prune takes is of a day before its cutoff.                   *)
LEMMA PruneExpires ==
  ASSUME BooksInv, FiledNearItsDay, NEW t \in ClockReadings, Prune(t), NEW q \in Saved
  PROVE  q \in Saved' \/ Bucket(q.ts, Day) < horizon'
<1>1. PICK k \in DOMAIN dns_counts_day : q \in dns_counts_day[k]
  BY DEF Saved
<1>2. q.ts \in Nat /\ k.ts \in Nat /\ Day \in Nat
  BY QueryTimes DEF BooksInv
<1>3. k.ts % Day = 0 /\ q.ts < k.ts + Day
  BY <1>1 DEF FiledNearItsDay
<1>4. Bucket(q.ts, Day) <= k.ts /\ Bucket(q.ts, Day) \in Nat
  BY <1>2, <1>3, BucketAtMost, BucketFits
<1> DEFINE cutoff == t - DnsSecs
<1>5. cutoff \in Int /\ cutoff <= horizon' /\ horizon' \in Int
  BY ClockIsNat, DnsAssumption DEF Prune, BooksInv, TypeOK
<1>6. dns_counts_day' = Pruned(dns_counts_day, cutoff)
  BY DEF Prune
<1> HIDE DEF cutoff
<1>7. CASE k.ts >= cutoff
  BY <1>1, <1>6, <1>7 DEF Pruned, Saved
<1>8. CASE k.ts < cutoff
  BY <1>2, <1>4, <1>5, <1>8
<1> QED BY <1>2, <1>5, <1>7, <1>8

LEMMA NextConserved ==
  ASSUME BooksInv, FiledNearItsDay, QueriesConserved, [Next]_vars
  PROVE  QueriesConserved'
<1> SUFFICES ASSUME NEW q \in queries' \ lost'
             PROVE  q \in Held' \cup Awaiting' \cup Saved' \/ Bucket(q.ts, Day) < horizon'
  BY DEF QueriesConserved
<1>1. CASE q \notin queries
  <2>1. q \in Held'
    BY <1>1, NextMoves DEF TakesOne, MovesOn, SavesAll, LosesAll, Expires
  <2> QED BY <2>1
<1>2. q \in queries => q \notin lost
  BY NextMoves DEF TakesOne, MovesOn, SavesAll, LosesAll, Expires
<1>3. CASE q \in queries /\ Bucket(q.ts, Day) < horizon
  <2>1. q.ts \in Nat
    BY <1>3 DEF BooksInv, TypeOK, Query
  <2>2. Bucket(q.ts, Day) \in Nat
    BY <2>1, BucketFits
  <2>3. horizon \in Nat /\ horizon' \in Nat /\ horizon <= horizon'
    BY HorizonGrows DEF BooksInv
  <2> QED BY <1>3, <2>2, <2>3
<1>4. CASE q \in Held \cup Awaiting \cup Saved
  <2>1. CASE ~Expires
    <3>1. q \notin lost'
      OBVIOUS
    <3> QED BY <1>4, <2>1, <3>1, NextMoves DEF TakesOne, MovesOn, SavesAll, LosesAll
  <2>2. CASE Expires /\ q \in Held \cup Awaiting
    BY <2>2 DEF Expires
  <2>3. CASE q \in Saved
    <3>1. CASE \E t \in ClockReadings : Prune(t)
      BY <2>3, <3>1, PruneExpires
    <3>2. CASE ~\E t \in ClockReadings : Prune(t)
      <4>1. CASE dns_counts_day' = dns_counts_day
        BY <2>3, <4>1 DEF Saved
      <4>2. CASE Write
        BY <2>3, <4>2, WriteBooks DEF SavesAll
      <4>3. dns_counts_day' = dns_counts_day \/ Write
        BY <3>2 DEF Next, Rename, Receive, NotDue, FlushNothing, Drain, Restart, WriteFails,
                    Crash, vars
      <4> QED BY <4>1, <4>2, <4>3
    <3> QED BY <3>1, <3>2
  <2> QED BY <1>4, <2>1, <2>2, <2>3
<1> QED BY <1>1, <1>2, <1>3, <1>4 DEF QueriesConserved

(* While the clock is not set back, every query counted is in RAM, in the  *)
(* table, lost with its flush or its process, or of a day already pruned.  *)
THEOREM NoQueryVanishes ==
  ASSUME StepBack = 0
  PROVE  Spec => []QueriesConserved
<1>1. Init => QueriesConserved
  BY DEF Init, QueriesConserved
<1> QED BY <1>1, FiledOnTime, NextConserved, BooksAlways, PTL DEF Spec

-------------------------------------------------------------------------------
(* What a reader is told of a domain.                                      *)

(* No count and no row is of nothing, and no row is of a day to come.      *)
NoEmptyRows ==
    /\ \A k \in DOMAIN counts : counts[k] # {}
    /\ \A k \in DOMAIN batch : batch[k] # {}
    /\ \A k \in DOMAIN dns_counts_day : dns_counts_day[k] # {}

NothingAhead == ts_day <= now /\ \A k \in DOMAIN dns_counts_day : k.ts <= now

LEMMA InitRows == Init => NoEmptyRows /\ NothingAhead
<1> SUFFICES ASSUME Init PROVE NoEmptyRows /\ NothingAhead
  OBVIOUS
<1>1. DOMAIN counts = {} /\ DOMAIN batch = {} /\ DOMAIN dns_counts_day = {}
  BY EmptyTyped DEF Init
<1> QED BY <1>1, DnsAssumption DEF NoEmptyRows, NothingAhead, Init

LEMMA NextNoEmptyRows ==
  ASSUME BooksInv, NoEmptyRows, [Next]_vars
  PROVE  NoEmptyRows'
<1>1. DOMAIN EmptyTable = {}
  BY EmptyTyped
<1>2. \A k \in DOMAIN counts' : counts'[k] # {}
  <2>1. CASE \E ip \in Ip, domain \in Domain : Receive(ip, domain)
    <3>1. PICK query \in Query, key \in CountKey : CountsOneMore(query, key)
      BY <2>1, ReceiveShape DEF BooksInv
    <3>2. ASSUME NEW k \in DOMAIN counts' PROVE counts'[k] # {}
      <4>1. CASE k = key
        BY <3>1, <4>1 DEF CountsOneMore
      <4>2. CASE k \in DOMAIN counts
        BY <3>1, <4>2 DEF CountsOneMore, NoEmptyRows
      <4> QED BY <3>1, <3>2, <4>1, <4>2 DEF CountsOneMore
    <3> QED BY <3>2
  <2>2. (\E ip \in Ip, domain \in Domain : Receive(ip, domain))
        \/ counts' = counts \/ counts' = EmptyTable
    BY DEF Next, Rename, NotDue, FlushNothing, Drain, Drained, Prune, Restart, Write, WriteFails,
           EndFlush, Crash, vars
  <2> QED BY <1>1, <2>1, <2>2 DEF NoEmptyRows
<1>3. \A k \in DOMAIN batch' : batch'[k] # {}
  <2>1. batch' = batch \/ batch' = EmptyTable \/ batch' = counts
    BY DEF Next, Rename, Receive, NotDue, FlushNothing, Drain, Prune, Restart, Write, WriteFails,
           EndFlush, Crash, vars
  <2> QED BY <1>1, <2>1 DEF NoEmptyRows
<1>4. \A k \in DOMAIN dns_counts_day' : dns_counts_day'[k] # {}
  <2>1. CASE Write
    <3>1. /\ DOMAIN dns_counts_day' = DOMAIN dns_counts_day \cup Rows
          /\ \A row \in Rows : dns_counts_day'[row] = AddedRow(row)
          /\ \A row \in DOMAIN dns_counts_day \ Rows : dns_counts_day'[row] = dns_counts_day[row]
          /\ \A key \in DOMAIN batch :
                [mac |-> RowKey(key).mac, domain |-> RowKey(key).domain] = key
      BY <2>1, WriteShape DEF BooksInv
    <3>2. ASSUME NEW row \in Rows PROVE AddedRow(row) # {}
      <4>1. PICK key \in DOMAIN batch : row = RowKey(key)
        BY DEF Rows
      <4>2. batch[key] \subseteq AddedRow(row)
        BY <3>1, <4>1 DEF AddedRow
      <4> QED BY <4>2 DEF NoEmptyRows
    <3> QED BY <3>1, <3>2 DEF NoEmptyRows
  <2>2. CASE \E t \in ClockReadings : Prune(t)
    BY <2>2 DEF Prune, Pruned, NoEmptyRows
  <2>3. Write \/ (\E t \in ClockReadings : Prune(t)) \/ dns_counts_day' = dns_counts_day
    BY DEF Next, Rename, Receive, NotDue, FlushNothing, Drain, Restart, WriteFails, Crash, vars
  <2> QED BY <2>1, <2>2, <2>3 DEF NoEmptyRows
<1> QED BY <1>2, <1>3, <1>4 DEF NoEmptyRows

LEMMA NextNothingAhead ==
  ASSUME StepBack = 0, BooksInv, NothingAhead, [Next]_vars
  PROVE  NothingAhead'
<1>1. /\ now \in Nat /\ ts_day \in Nat /\ \A k \in DOMAIN dns_counts_day : k.ts \in Nat
  BY QueryTimes DEF BooksInv
<1>2. now' \in Nat /\ now <= now'
  <2>1. now' = now \/ now' \in ClockReadings
    BY DEF Next, Rename, Receive, NotDue, FlushNothing, Drain, Prune, Restart, Write, WriteFails,
           EndFlush, Crash, vars
  <2> QED BY <1>1, <2>1, ClockMovesOn
<1>3. ts_day' <= now'
  <2>1. ts_day' = ts_day \/ ts_day' = 0 \/ \E t \in ClockReadings : ts_day' = Bucket(t, Day) /\ now' = t
    BY DEF Next, Rename, Receive, NotDue, FlushNothing, Drain, Prune, Restart, Write, WriteFails,
           EndFlush, Crash, vars
  <2>2. ASSUME NEW t \in ClockReadings PROVE Bucket(t, Day) <= t
    BY <1>1, ClockIsNat, BucketFits
  <2>3. CASE ts_day' = ts_day
    BY <1>1, <1>2, <2>3 DEF NothingAhead
  <2> QED BY <1>2, <2>1, <2>2, <2>3
<1>4. ASSUME NEW k \in DOMAIN dns_counts_day' PROVE k.ts <= now'
  <2>1. k \in DOMAIN dns_counts_day \/ (Write /\ k \in Rows)
    <3>1. Write \/ (\E t \in ClockReadings : Prune(t)) \/ dns_counts_day' = dns_counts_day
      BY DEF Next, Rename, Receive, NotDue, FlushNothing, Drain, Restart, WriteFails, Crash, vars
    <3>2. ASSUME Write PROVE DOMAIN dns_counts_day' = DOMAIN dns_counts_day \cup Rows
      BY <3>2 DEF Write
    <3>3. ASSUME NEW t \in ClockReadings, Prune(t)
          PROVE  DOMAIN dns_counts_day' \subseteq DOMAIN dns_counts_day
      BY <3>3 DEF Prune, Pruned
    <3>4. CASE Write
      <4>1. DOMAIN dns_counts_day' = DOMAIN dns_counts_day \cup Rows
        BY <3>2, <3>4
      <4> QED BY <1>4, <3>4, <4>1
    <3>5. CASE \E t \in ClockReadings : Prune(t)
      BY <1>4, <3>3, <3>5
    <3>6. CASE dns_counts_day' = dns_counts_day
      BY <1>4, <3>6
    <3> QED BY <3>1, <3>4, <3>5, <3>6
  <2>2. CASE k \in DOMAIN dns_counts_day
    BY <1>1, <1>2, <2>2 DEF NothingAhead
  <2>3. CASE Write /\ k \in Rows
    <3>1. k.ts = ts_day
      BY <2>3, WriteShape DEF BooksInv, Rows
    <3> QED BY <1>1, <1>2, <3>1 DEF NothingAhead
  <2> QED BY <2>1, <2>2, <2>3
<1> QED BY <1>3, <1>4 DEF NothingAhead

(* The table is finite: each of its rows has a query of its own.           *)
LEMMA TableFinite ==
  ASSUME BooksInv, NoEmptyRows
  PROVE  /\ IsFiniteSet(DOMAIN dns_counts_day)
         /\ \A k \in DOMAIN dns_counts_day : IsFiniteSet(dns_counts_day[k])
<1> DEFINE D == DOMAIN dns_counts_day
           one == [k \in D |-> CHOOSE q : q \in dns_counts_day[k]]
<1>1. IsFiniteSet(queries) /\ Saved \in SUBSET queries
  BY DEF BooksInv, Numbered, OnlyCounted
<1>2. IsFiniteSet(Saved)
  BY <1>1, FS_Subset
<1>3. \A k \in D : dns_counts_day[k] \in SUBSET Saved
  BY DEF Saved
<1>4. ASSUME NEW k \in D PROVE one[k] \in dns_counts_day[k]
  BY DEF NoEmptyRows
<1> HIDE DEF one
<1>5. one \in [D -> Saved]
  BY <1>3, <1>4 DEF one
<1>6. \A k1, k2 \in D : one[k1] = one[k2] => k1 = k2
  BY <1>4 DEF BooksInv, CountedOnce, Files
<1>7. one \in Injection(D, Saved)
  BY <1>5, <1>6 DEF Injection, IsInjective
<1>8. IsFiniteSet(D)
  BY <1>2, <1>7, FS_Injection
<1> QED BY <1>2, <1>3, <1>8, FS_Subset

(* All the rows of a client, when its whole time is asked for.             *)
RowsOf(client) == { k \in DOMAIN dns_counts_day : Of(client, k.mac) }

LEMMA AllMatch ==
  ASSUME StepBack = 0, BooksInv, NothingAhead, NEW client
  PROVE  Matching(client, 0, now + MaxGap) = RowsOf(client)
<1>1. now \in Nat /\ MaxGap \in Nat /\ \A k \in DOMAIN dns_counts_day : k.ts \in Nat
  BY QueryTimes DEF BooksInv
<1>2. \A k \in DOMAIN dns_counts_day : k.ts >= 0 /\ k.ts <= now + MaxGap
  BY <1>1 DEF NothingAhead
<1> QED BY <1>2 DEF Matching, RowsOf

(* The rows of a domain add up to its queries, and each has one.           *)
LEMMA CountIsQueries ==
  ASSUME BooksInv, NoEmptyRows, NEW client, NEW d
  PROVE  /\ CountOf(d, RowsOf(client)) = Cardinality(FiledUnder(d, client))
         /\ Cardinality(FiledUnder(d, client)) \in Nat
         /\ Cardinality(FiledUnder(d, client)) = 0 <=> \A k \in RowsOf(client) : k.domain # d
<1> DEFINE R == { j \in RowsOf(client) : j.domain = d }
           g == [ k \in R |-> Cardinality(dns_counts_day[k]) ]
           filed == UNION { dns_counts_day[k] : k \in R }
<1>1. R \in SUBSET DOMAIN dns_counts_day
  BY DEF RowsOf
<1>2. IsFiniteSet(R) /\ \A k \in R : IsFiniteSet(dns_counts_day[k])
  BY <1>1, TableFinite, FS_Subset
<1>3. \A k \in R : g[k] = Cardinality(dns_counts_day[k])
  OBVIOUS
<1>4. \A k1, k2 \in R : k1 # k2 => dns_counts_day[k1] \cap dns_counts_day[k2] = {}
  BY <1>1 DEF BooksInv, CountedOnce, Files
<1>5. CountOf(d, RowsOf(client)) = SumFunctionOnSet(g, R)
  BY DEF CountOf, SumFunction
<1>6. filed = FiledUnder(d, client)
  <2>1. ASSUME NEW q \in filed PROVE q \in FiledUnder(d, client)
    <3>1. PICK k \in R : q \in dns_counts_day[k]
      OBVIOUS
    <3>2. k \in DOMAIN dns_counts_day /\ Of(client, k.mac) /\ k.domain = d
      BY DEF RowsOf
    <3>3. q.mac = k.mac
      BY <3>1, <3>2 DEF BooksInv, CountedOnce, Files
    <3> QED BY <3>1, <3>2, <3>3 DEF FiledUnder, Saved
  <2>2. ASSUME NEW q \in FiledUnder(d, client) PROVE q \in filed
    <3>1. PICK k \in DOMAIN dns_counts_day : q \in dns_counts_day[k] /\ k.domain = d
      BY DEF FiledUnder
    <3>2. q.mac = k.mac /\ Of(client, q.mac)
      BY <3>1 DEF BooksInv, CountedOnce, Files, FiledUnder
    <3>3. k \in R
      BY <3>1, <3>2 DEF RowsOf
    <3> QED BY <3>1, <3>3
  <2> QED BY <2>1, <2>2
<1>7. filed = {} <=> \A k \in RowsOf(client) : k.domain # d
  BY <1>1 DEF NoEmptyRows
<1> HIDE DEF R, g
<1>8. IsFiniteSet(filed) /\ SumFunctionOnSet(g, R) = Cardinality(filed)
  BY <1>2, <1>3, <1>4, SumOfParts
<1> HIDE DEF filed
<1>9. Cardinality(filed) \in Nat /\ (Cardinality(filed) = 0 <=> filed = {})
  BY <1>8, FS_CardinalityType, FS_EmptySet
<1> QED BY <1>5, <1>6, <1>7, <1>8, <1>9

(* The domains of a client's rows, and what the query returns of them.     *)
DomainsOf(client) == { k.domain : k \in RowsOf(client) }

Count(d, client) == Cardinality(FiledUnder(d, client))

Entry(d, client) == [domain |-> d, count |-> Count(d, client)]

(* A ranking has one entry per domain, with its queries, most first.       *)
Ranks(ranked, client) ==
    /\ Len(ranked) \in Nat /\ DOMAIN ranked = 1 .. Len(ranked)
    /\ Len(ranked) <= Cardinality(Domain) + 1
    /\ ranked \in Seq(Grouped(RowsOf(client)))
    /\ \A i \in 1 .. Len(ranked) : \E d \in DomainsOf(client) : ranked[i] = Entry(d, client)
    /\ \A d \in DomainsOf(client) : \E i \in 1 .. Len(ranked) : ranked[i] = Entry(d, client)
    /\ \A i, j \in 1 .. Len(ranked) : ranked[i].domain = ranked[j].domain => i = j
    /\ \A i, j \in 1 .. Len(ranked) : i < j => ranked[i].count >= ranked[j].count

LEMMA RankingRanks ==
  ASSUME BooksInv, NoEmptyRows, NEW client, NEW ranked \in Rankings(RowsOf(client))
  PROVE  Ranks(ranked, client)
<1> DEFINE G == Grouped(RowsOf(client))
           S == DomainsOf(client)
           entry == [d \in S |-> Entry(d, client)]
<1>1. G = { Entry(d, client) : d \in S }
  BY CountIsQueries DEF Grouped, DomainsOf, Entry, Count
<1>2. S \in SUBSET (Domain \cup {Other})
  BY DEF DomainsOf, RowsOf, BooksInv, TypeOK, PartialFunction, DayKey
<1>3. /\ IsFiniteSet(Domain \cup {Other})
      /\ Cardinality(Domain \cup {Other}) = Cardinality(Domain) + 1
  BY FS_AddElement, DnsAssumption
<1>4. IsFiniteSet(S) /\ Cardinality(S) <= Cardinality(Domain) + 1
  BY <1>2, <1>3, FS_Subset
<1>5. entry \in Surjection(S, G)
  <2>1. entry \in [S -> G] /\ \A e \in G : \E d \in S : entry[d] = e
    BY <1>1
  <2> QED BY <2>1 DEF Surjection
<1> HIDE DEF entry, S, G
<1>6. IsFiniteSet(G) /\ Cardinality(G) <= Cardinality(S)
  BY <1>4, <1>5, FS_Surjection
<1>7. Cardinality(G) \in Nat /\ Cardinality(S) \in Nat /\ Cardinality(Domain) \in Nat
  BY <1>4, <1>6, FS_CardinalityType, DnsAssumption
<1>8. Cardinality(G) <= Cardinality(Domain) + 1
  BY <1>4, <1>6, <1>7
<1>9. ranked \in SetToSeqs(G)
      /\ \A i, j \in DOMAIN ranked : i < j => ranked[i].count >= ranked[j].count
  BY DEF Rankings, G
<1>10. /\ ranked \in Seq(G) /\ Len(ranked) = Cardinality(G)
       /\ \A e \in G : \E i \in 1 .. Cardinality(G) : ranked[i] = e
  BY <1>6, <1>9, ListingBijects
<1>11. /\ ranked \in [1 .. Cardinality(G) -> G]
       /\ \A i, j \in 1 .. Cardinality(G) : i # j => ranked[i] # ranked[j]
  BY <1>9 DEF SetToSeqs
<1>12. \A i \in 1 .. Cardinality(G) : \E d \in S : ranked[i] = Entry(d, client)
  BY <1>1, <1>11
<1>13. \A d \in S : Entry(d, client).domain = d /\ Entry(d, client) \in G
  BY <1>1 DEF Entry
<1>14. ASSUME NEW i \in 1 .. Cardinality(G), NEW j \in 1 .. Cardinality(G),
              ranked[i].domain = ranked[j].domain
       PROVE  i = j
  <2>1. PICK d \in S : ranked[i] = Entry(d, client)
    BY <1>12
  <2>2. PICK e \in S : ranked[j] = Entry(e, client)
    BY <1>12
  <2>3. d = e
    BY <1>13, <1>14, <2>1, <2>2
  <2> QED BY <1>11, <2>1, <2>2, <2>3
<1>15. DOMAIN ranked = 1 .. Cardinality(G)
  BY <1>11
<1> QED BY <1>7, <1>8, <1>9, <1>10, <1>12, <1>13, <1>14, <1>15 DEF Ranks, G, S

(* The complete answer.                                                    *)
LEMMA CompleteAnswer ==
  ASSUME StepBack = 0, BooksInv, NoEmptyRows, NothingAhead, NEW client,
         NEW all \in Answers(client, 0, now + MaxGap, Cardinality(Domain) + 1),
         NEW d \in Domain \cup {Other}
  PROVE  IF Count(d, client) = 0
         THEN \A i \in DOMAIN all : all[i].domain # d
         ELSE \E i \in DOMAIN all :
                 /\ all[i] = [domain |-> d, count |-> Count(d, client)]
                 /\ \A j \in DOMAIN all : all[j].domain = d => j = i
<1>1. PICK ranked \in Rankings(RowsOf(client)) :
          all = SubSeq(ranked, 1, IF Cardinality(Domain) + 1 < Len(ranked)
                                  THEN Cardinality(Domain) + 1 ELSE Len(ranked))
  BY AllMatch DEF Answers
<1>2. Ranks(ranked, client)
  BY RankingRanks
<1>3. all = SubSeq(ranked, 1, Len(ranked))
  <2>1. Cardinality(Domain) \in Nat
    BY FS_CardinalityType, DnsAssumption
  <2>2. ~(Cardinality(Domain) + 1 < Len(ranked))
    BY <1>2, <2>1 DEF Ranks
  <2> QED BY <1>1, <2>2
<1>4. FirstOf(all, ranked, Len(ranked))
  <2>1. Len(ranked) \in 0 .. Len(ranked) /\ ranked \in Seq(Grouped(RowsOf(client)))
    BY <1>2 DEF Ranks
  <2> QED BY <1>3, <2>1, SubSeqIsFirst
<1>5. DOMAIN all = 1 .. Len(ranked) /\ \A i \in 1 .. Len(ranked) : all[i] = ranked[i]
  BY <1>4 DEF FirstOf
<1>6. Count(d, client) = 0 <=> d \notin DomainsOf(client)
  BY CountIsQueries DEF Count, DomainsOf
<1>7. CASE Count(d, client) = 0
  <2>1. ASSUME NEW i \in DOMAIN all PROVE all[i].domain # d
    <3>1. PICK e \in DomainsOf(client) : ranked[i] = Entry(e, client)
      BY <1>2, <1>5 DEF Ranks
    <3> QED BY <1>5, <1>6, <1>7, <3>1 DEF Entry
  <2> QED BY <1>7, <2>1
<1>8. CASE Count(d, client) # 0
  <2>1. PICK i \in 1 .. Len(ranked) : ranked[i] = Entry(d, client)
    BY <1>2, <1>6, <1>8 DEF Ranks
  <2>2. ranked[i].domain = d
    BY <2>1 DEF Entry
  <2>3. \A j \in DOMAIN all : all[j].domain = d => j = i
    BY <1>2, <1>5, <2>2 DEF Ranks
  <2> QED BY <1>5, <1>8, <2>1, <2>3 DEF Entry
<1> QED BY <1>7, <1>8

(* The first of an answer, the shortest there is.                          *)
LEMMA FirstAnswer ==
  ASSUME StepBack = 0, BooksInv, NoEmptyRows, NothingAhead, NEW client,
         NEW top \in Answers(client, 0, now + MaxGap, 1), NEW i \in DOMAIN top,
         NEW d \in Domain \cup {Other}
  PROVE  Count(d, client) <= top[i].count
<1>1. PICK ranked \in Rankings(RowsOf(client)) :
          top = SubSeq(ranked, 1, IF 1 < Len(ranked) THEN 1 ELSE Len(ranked))
  BY AllMatch DEF Answers
<1>2. Ranks(ranked, client)
  BY RankingRanks
<1> DEFINE k == IF 1 < Len(ranked) THEN 1 ELSE Len(ranked)
<1>3. k \in 0 .. Len(ranked) /\ k <= 1 /\ Len(ranked) \in Nat
  BY <1>2 DEF Ranks
<1> HIDE DEF k
<1>4. FirstOf(top, ranked, k)
  BY <1>1, <1>2, <1>3, SubSeqIsFirst DEF Ranks, k
<1>5. i = 1 /\ 1 \in 1 .. Len(ranked) /\ top[i] = ranked[1]
  BY <1>3, <1>4 DEF FirstOf
<1>6. Count(d, client) \in Nat /\ (Count(d, client) = 0 <=> d \notin DomainsOf(client))
  BY CountIsQueries DEF Count, DomainsOf
<1>7. PICK e \in DomainsOf(client) : ranked[1] = Entry(e, client)
  BY <1>2, <1>5 DEF Ranks
<1>8. ranked[1].count = Count(e, client) /\ Count(e, client) \in Nat
  BY <1>7, CountIsQueries DEF Entry, Count
<1>9. CASE d \notin DomainsOf(client)
  BY <1>5, <1>6, <1>8, <1>9
<1>10. CASE d \in DomainsOf(client)
  <2>1. PICK j \in 1 .. Len(ranked) : ranked[j] = Entry(d, client)
    BY <1>2, <1>10 DEF Ranks
  <2>2. ranked[j].count = Count(d, client)
    BY <2>1 DEF Entry
  <2>3. CASE j = 1
    BY <1>5, <1>6, <2>2, <2>3
  <2>4. CASE 1 < j
    BY <1>2, <1>5, <2>2, <2>4 DEF Ranks
  <2>5. j = 1 \/ 1 < j
    OBVIOUS
  <2> QED BY <1>6, <2>3, <2>4, <2>5, <1>5, <1>8
<1> QED BY <1>9, <1>10

(* While the clock is not set back, dns_top (db.rs:188-214) tells of each  *)
(* domain exactly the queries saved and not yet pruned, over all days and  *)
(* flushes, and leaves out none with more than what it shows.              *)
THEOREM TopAlwaysExact ==
  ASSUME StepBack = 0
  PROVE  Spec => []TopIsExact
<1>1. BooksInv /\ NoEmptyRows /\ [Next]_vars => NoEmptyRows'
  BY NextNoEmptyRows
<1>2. BooksInv /\ NothingAhead /\ [Next]_vars => NothingAhead'
  BY NextNothingAhead
<1>3. BooksInv /\ NoEmptyRows /\ NothingAhead => TopIsExact
  <2> SUFFICES ASSUME BooksInv, NoEmptyRows, NothingAhead PROVE TopIsExact
    OBVIOUS
  <2>1. \A client \in Mac \cup {Everyone} :
           \A all \in Answers(client, 0, now + MaxGap, Cardinality(Domain) + 1) :
              \A d \in Domain \cup {Other} :
                 IF Count(d, client) = 0
                 THEN \A i \in DOMAIN all : all[i].domain # d
                 ELSE \E i \in DOMAIN all :
                         /\ all[i] = [domain |-> d, count |-> Count(d, client)]
                         /\ \A j \in DOMAIN all : all[j].domain = d => j = i
    BY CompleteAnswer
  <2>2. \A client \in Mac \cup {Everyone} :
           \A top \in Answers(client, 0, now + MaxGap, 1) :
              \A i \in DOMAIN top : \A d \in Domain \cup {Other} :
                 Count(d, client) <= top[i].count
    BY FirstAnswer
  <2> QED BY <2>1, <2>2 DEF TopIsExact, Count
<1> QED BY <1>1, <1>2, <1>3, InitRows, BooksAlways, PTL DEF Spec
===============================================================================
