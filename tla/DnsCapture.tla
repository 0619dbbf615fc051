------------------------------ MODULE DnsCapture ------------------------------
(***************************************************************************)
(* The DNS statistics thread of dns_capture.rs: it counts queries per      *)
(* client and domain in RAM and, every flush_secs, drains the counts,      *)
(* takes the mutex of Shared and adds them to dns_counts_day.  The scan    *)
(* loop prunes that table, the lease and ARP files change under the        *)
(* thread's cached copy of them, statements fail and the process dies.     *)
(*                                                                         *)
(* As in Recorder, a count is the set of the queries it counts.  A query   *)
(* starts existing when recv hands it to the thread, parsed: what the      *)
(* socket buffer drops and what parse_dns_query rejects is not modelled.   *)
(***************************************************************************)
EXTENDS Tables, FiniteSets

CONSTANTS Ip, Mac, Domain,
          Other,         \* "__other__", which no client queries
          Cap,           \* CARDINALITY_CAP
          FlushSecs,     \* dns_flush_secs
          Day,           \* the 86400 of ts_day
          DnsSecs,       \* Retention.dns_days, in seconds
          Start, MaxGap, StepBack,   \* bounds on the wall clock
          MaxNow, MaxQueries, MaxCrashes    \* bounds

ASSUME DnsAssumption ==
    /\ IsFiniteSet(Domain) /\ Other \notin Domain
    /\ Cap \in Nat
    /\ FlushSecs \in Nat
    /\ Day \in Nat \ {0}
    /\ DnsSecs \in Nat
    /\ Start \in Nat /\ MaxGap \in Nat /\ StepBack \in Nat /\ MaxNow \in Nat
    /\ MaxQueries \in Nat /\ MaxCrashes \in Nat

VARIABLES pc,              \* "polling", "writing" (the drained counts) or "down"
          now,             \* the wall clock at the latest reading
          leases,          \* address -> MAC, what the files on disk say
          names,           \* the NameTable read at the last flush
          counts,          \* [mac, domain] -> queries
          seen_domains,
          last_flush,
          batch,           \* the drained counts, and ts_day, before the write
          ts_day,
          dns_counts_day,  \* [ts, mac, domain] -> queries
          crashes,
          queries,         \* history: every query counted
          lost,            \* history: those a crash or a failed write lost
          horizon          \* history: the latest cutoff of prune

history == <<queries, lost, horizon>>
vars == <<pc, now, leases, names, counts, seen_domains, last_flush, batch, ts_day,
          dns_counts_day, crashes, history>>

NameTables == UNION { [known -> Mac] : known \in SUBSET Ip }

Init ==
    /\ pc = "polling"
    /\ now = Start
    /\ leases \in NameTables /\ names = leases
    /\ counts = EmptyTable /\ seen_domains = {}
    /\ last_flush = Start
    /\ batch = EmptyTable /\ ts_day = 0
    /\ dns_counts_day = EmptyTable
    /\ crashes = 0
    /\ queries = {} /\ lost = {} /\ horizon = 0

-------------------------------------------------------------------------------
(* The tables on disk that name clients change at any time.                *)
Rename(table) ==
    /\ leases' = table
    /\ UNCHANGED <<pc, now, names, counts, seen_domains, last_flush, batch, ts_day,
                   dns_counts_day, crashes, history>>

(* CaptureState::record: a new domain counts under its own name while the  *)
(* window has fewer than Cap of them, under Other afterwards.              *)
FiledIgnoringSeen(domain) == IF Cardinality(seen_domains) >= Cap THEN Other ELSE domain

Filed(domain) ==
    IF domain \notin seen_domains /\ Cardinality(seen_domains) >= Cap THEN Other ELSE domain

SeenWith(domain) == seen_domains \cup ({domain} \ {Other})

Counted(mac, domain, query) ==
    LET key == [mac |-> mac, domain |-> domain]
    IN  [ k \in DOMAIN counts \cup {key} |->
            (IF k \in DOMAIN counts THEN counts[k] ELSE {}) \cup (IF k = key THEN {query} ELSE {}) ]

(* One packet of the inner while loop.  An address the cached names do not *)
(* know is not counted at all: that changes nothing.                       *)
Receive(ip, domain) ==
    LET query == [n |-> Cardinality(queries) + 1, mac |-> names[ip], domain |-> domain,
                  ts |-> now]
    IN  /\ pc = "polling"
        /\ ip \in DOMAIN names
        /\ Cardinality(queries) < MaxQueries
        /\ counts' = Counted(names[ip], Filed(domain), query)
        /\ seen_domains' = SeenWith(Filed(domain))
        /\ queries' = queries \cup {query}
        /\ UNCHANGED <<pc, now, leases, names, last_flush, batch, ts_day, dns_counts_day,
                       crashes, lost, horizon>>

-------------------------------------------------------------------------------
(* The end of an iteration of the outer loop, at clock t.                  *)

ClockReadings ==
    { t \in now - StepBack .. now + MaxGap : t >= 0 /\ t <= MaxNow /\ (StepBack = 0 => t >= now) }

FlushDue(t) == t - last_flush >= FlushSecs

NotDue(t) ==
    /\ pc = "polling"
    /\ ~FlushDue(t)
    /\ now' = t
    /\ UNCHANGED <<pc, leases, names, counts, seen_domains, last_flush, batch, ts_day,
                   dns_counts_day, crashes, history>>

(* names and last_flush, the last two statements of a flush.               *)
Refresh(t) == names' = leases /\ last_flush' = t

(* state.drain(): the window is empty from here on.                        *)
DrainedNothing == UNCHANGED <<counts, seen_domains>>

DrainedKeepingSeen == counts' = EmptyTable /\ UNCHANGED seen_domains

Drained == counts' = EmptyTable /\ seen_domains' = {}

FlushNothing(t) ==
    /\ pc = "polling"
    /\ FlushDue(t)
    /\ counts = EmptyTable
    /\ now' = t
    /\ Drained
    /\ Refresh(t)
    /\ UNCHANGED <<pc, leases, batch, ts_day, dns_counts_day, crashes, history>>

Drain(t) ==
    /\ pc = "polling"
    /\ FlushDue(t)
    /\ counts # EmptyTable
    /\ pc' = "writing"
    /\ now' = t
    /\ batch' = counts
    /\ ts_day' = Bucket(t, Day)
    /\ Drained
    /\ UNCHANGED <<leases, names, last_flush, dns_counts_day, crashes, history>>

(* add_dns_counts: ON CONFLICT the counts are added.                       *)
RowKey(key) == [ts |-> ts_day, mac |-> key.mac, domain |-> key.domain]

Rows == { RowKey(key) : key \in DOMAIN batch }

AddedReplacing(row) == batch[[mac |-> row.mac, domain |-> row.domain]]

AddedRow(row) ==
    (IF row \in DOMAIN dns_counts_day THEN dns_counts_day[row] ELSE {})
      \cup batch[[mac |-> row.mac, domain |-> row.domain]]

(* The clock of the flush is now: the scan loop may have held the mutex    *)
(* meanwhile, but the thread does not read the clock again.                *)
EndFlush ==
    /\ pc' = "polling"
    /\ batch' = EmptyTable
    /\ ts_day' = 0
    /\ Refresh(now)
    /\ UNCHANGED <<now, leases, counts, seen_domains, crashes, queries, horizon>>

Write ==
    /\ pc = "writing"
    /\ dns_counts_day' = [ row \in DOMAIN dns_counts_day \cup Rows |->
                             IF row \in Rows THEN AddedRow(row) ELSE dns_counts_day[row] ]
    /\ EndFlush
    /\ UNCHANGED lost

Awaiting == UNION { batch[key] : key \in DOMAIN batch }

WriteFails ==
    /\ pc = "writing"
    /\ lost' = lost \cup Awaiting
    /\ EndFlush
    /\ UNCHANGED dns_counts_day

-------------------------------------------------------------------------------
(* The last DELETE of prune, which the scan loop runs at clock t while no   *)
(* flush has the mutex; this thread does not see that reading of the clock. *)
Prune(t) ==
    /\ pc # "down"
    /\ dns_counts_day' = Pruned(dns_counts_day, t - DnsSecs)
    /\ horizon' = IF t - DnsSecs > horizon THEN t - DnsSecs ELSE horizon
    /\ UNCHANGED <<pc, now, leases, names, counts, seen_domains, last_flush, batch, ts_day,
                   crashes, queries, lost>>

Held == UNION { counts[key] : key \in DOMAIN counts }

Crash ==
    /\ pc # "down"
    /\ crashes < MaxCrashes
    /\ pc' = "down"
    /\ counts' = EmptyTable /\ seen_domains' = {}
    /\ batch' = EmptyTable /\ ts_day' = 0
    /\ crashes' = crashes + 1
    /\ lost' = lost \cup Held \cup Awaiting
    /\ UNCHANGED <<now, leases, names, last_flush, dns_counts_day, queries, horizon>>

Restart(t) ==
    /\ pc = "down"
    /\ pc' = "polling"
    /\ now' = t
    /\ Refresh(t)
    /\ UNCHANGED <<leases, counts, seen_domains, batch, ts_day, dns_counts_day, crashes,
                   history>>

Next ==
    \/ \E table \in NameTables : Rename(table)
    \/ \E ip \in Ip, domain \in Domain : Receive(ip, domain)
    \/ \E t \in ClockReadings :
          NotDue(t) \/ FlushNothing(t) \/ Drain(t) \/ Prune(t) \/ Restart(t)
    \/ Write \/ WriteFails \/ Crash

Spec == Init /\ [][Next]_vars

-------------------------------------------------------------------------------
(* Properties.                                                             *)

Query == [n : 1 .. MaxQueries, mac : Mac, domain : Domain, ts : Nat]

CountKey == [mac : Mac, domain : Domain \cup {Other}]

DayKey == [ts : Nat, mac : Mac, domain : Domain \cup {Other}]

PartialFunction(f, S, T) == DOMAIN f \subseteq S /\ f \in [DOMAIN f -> T]

(* Type correctness of the thread, the files it reads and the table.       *)
TypeOK ==
    /\ pc \in {"polling", "writing", "down"}
    /\ now \in Nat /\ last_flush \in Nat /\ ts_day \in Nat /\ horizon \in Nat
    /\ leases \in NameTables /\ names \in NameTables
    /\ PartialFunction(counts, CountKey, SUBSET Query)
    /\ PartialFunction(batch, CountKey, SUBSET Query)
    /\ PartialFunction(dns_counts_day, DayKey, SUBSET Query)
    /\ seen_domains \subseteq Domain
    /\ crashes \in 0 .. MaxCrashes
    /\ queries \subseteq Query /\ lost \subseteq Query

Saved == UNION { dns_counts_day[key] : key \in DOMAIN dns_counts_day }

(* A table files every query under its client and its domain, or Other,    *)
(* and under no second key.                                                *)
Files(table) ==
    \A k1 \in DOMAIN table : \A q \in table[k1] :
        /\ q.mac = k1.mac
        /\ k1.domain \in {q.domain, Other}
        /\ \A k2 \in DOMAIN table : q \in table[k2] => k1 = k2

(* No query is counted twice or for another client: it is in one row of    *)
(* one of the three places a count can be, and a lost one is in none.      *)
CountedOnce ==
    /\ Files(counts) /\ Files(batch) /\ Files(dns_counts_day)
    /\ Held \cap (Awaiting \cup Saved) = {}
    /\ Awaiting \cap Saved = {}
    /\ lost \cap (Held \cup Awaiting \cup Saved) = {}

(* Every query counted waits in RAM and is then in the table or lost; a    *)
(* saved one may be pruned; none is in two places and none comes back.  A  *)
(* flush moves the whole window at once, and a late flush, a rename or a   *)
(* restart moves nothing.                                                  *)
Books == INSTANCE Ledger WITH
             waiting <- Held \cup Awaiting,
             saved <- Saved,
             lost <- lost,
             gone <- queries \ (Held \cup Awaiting \cup Saved \cup lost)

DnsBooksBalance == Books!Spec

(* No query vanishes between recv and dns_counts_day, unless the write     *)
(* that carried it failed (state.drain() empties the window before the     *)
(* mutex is even taken), the process died, or prune dropped its day: the   *)
(* flush adds to the rows of earlier flushes of the day and does not       *)
(* replace them.  Holds while the clock is never set back.                 *)
QueriesConserved ==
    \A q \in queries \ lost :
        q \in Held \cup Awaiting \cup Saved \/ Bucket(q.ts, Day) < horizon

(* The queries of a window for one domain are all filed under one name,    *)
(* its own or Other, whatever else fills the window between them.          *)
NeverSplit ==
    \A k1, k2 \in DOMAIN counts : \A q1 \in counts[k1], q2 \in counts[k2] :
        q1.domain = q2.domain => k1.domain = k2.domain

(* The window tracks at most Cap domains, exactly those that have counts,  *)
(* and folds into Other only when it is full.                              *)
CapRespected ==
    LET tracked == { k.domain : k \in DOMAIN counts }
    IN  /\ seen_domains = tracked \ {Other}
        /\ Cardinality(seen_domains) <= Cap
        /\ Other \in tracked => Cardinality(seen_domains) = Cap

(* A query is filed under its own day or, if the flush came after          *)
(* midnight, under a later day that began at most one flush period (and    *)
(* one iteration of the loop) after it; never under an earlier day.  Holds *)
(* while the clock is never set back.                                      *)
FiledNearItsDay ==
    \A k \in DOMAIN dns_counts_day : \A q \in dns_counts_day[k] :
        /\ k.ts % Day = 0
        /\ q.ts < k.ts + Day
        /\ k.ts <= q.ts + FlushSecs + MaxGap
-------------------------------------------------------------------------------
(* Inductive strengthenings, for the proofs.                               *)

(* Queries are numbered as they come, and only those are anywhere.         *)
Numbered ==
    /\ IsFiniteSet(queries)
    /\ \A q \in queries : q.n <= Cardinality(queries)

OnlyCounted ==
    /\ Held \cup Awaiting \cup Saved \cup lost \subseteq queries
    /\ pc # "writing" => batch = EmptyTable

(* A query under Other is for a domain the window does not track.          *)
FoldedUntracked ==
    \A k \in DOMAIN counts : \A q \in counts[k] : k.domain = Other => q.domain \notin seen_domains

WindowInv == Files(counts) /\ CapRespected /\ FoldedUntracked

(* What is counted now was counted since the last flush, which is at most  *)
(* one flush period ago; what is drained fits the day it is drained under. *)
FitsDay(q, day) == q.ts < day + Day /\ day <= q.ts + FlushSecs + MaxGap

SinceFlush ==
    /\ pc = "polling" => last_flush <= now /\ now <= last_flush + FlushSecs
    /\ \A q \in Held : last_flush <= q.ts /\ q.ts <= now
    /\ pc = "down" => counts = EmptyTable

DaysInv ==
    /\ SinceFlush
    /\ ts_day % Day = 0
    /\ \A q \in Awaiting : FitsDay(q, ts_day)
    /\ FiledNearItsDay
===============================================================================
