------------------------------- MODULE ScanLoop -------------------------------
(***************************************************************************)
(* The monitoring loop of main.rs with the two components it drives, the   *)
(* Recorder in RAM and the Store on disk.  One iteration reads conntrack,  *)
(* records the views, saves the finished minutes and the clients, every    *)
(* MaintPeriod rolls the tables up and prunes them, and publishes the      *)
(* views to the control socket.  The iteration runs under the mutex of     *)
(* Shared, so no other thread sees it half done; but the process can be    *)
(* killed between any two statements and any statement can fail, and then  *)
(* the loop logs the error and goes on.                                    *)
(*                                                                         *)
(* An iteration whose conntrack read fails changes nothing (main.rs:119):  *)
(* it is a stuttering step, and the clock then advances by more than one   *)
(* interval before the next Tick.                                          *)
(***************************************************************************)
EXTENDS Recorder, Store

CONSTANTS Ip,            \* LAN addresses that may appear in conntrack
          Id,            \* identities: IP texts and MACs
          NameTables,    \* the IP -> identity maps leases and ARP can produce
          MaintPeriod,   \* the 300 of main.rs
          Start,         \* the clock when the machine first runs the daemon
          MaxGap,        \* bound: most seconds between two scans
          StepBack,      \* bound: how far the wall clock may be set back
          MaxTicks,      \* bound: scans in a behaviour
          MaxCrashes,    \* bound: process deaths in a behaviour
          MaxFailures    \* bound: database statements that return an error

ASSUME ScanLoopAssumption ==
    /\ IsFiniteSet(Ip)
    /\ NameTables \subseteq [Ip -> Id]
    /\ Hour % Minute = 0
    /\ MaintPeriod \in Nat
    /\ Start \in Nat
    /\ MaxGap \in Nat \ {0}
    /\ StepBack \in Nat
    /\ MaxTicks \in Nat
    /\ MaxCrashes \in Nat
    /\ MaxFailures \in Nat

VARIABLES pc,           \* where the loop is; "down" while no process runs
          now,          \* the wall clock at the latest scan (now_i)
          ticks,        \* scans so far
          crashes,
          seen,         \* addresses in acct.stats(): kept once seen
          snap,         \* the views of this iteration
          pending,      \* finalized rows still to be inserted
          todo,         \* views still to be upserted
          last_maint,
          shown,        \* Shared.clients: what the control socket lists
          recorded,     \* history: every reading ever recorded
          lost,         \* history: readings a crash or a failed insert lost
          failures,     \* history: statements that failed
          unrolled      \* history: a rollup of this maintenance failed

loopVars == <<pc, now, ticks, crashes, seen, snap, pending, todo, last_maint, shown>>
history == <<recorded, lost, failures, unrolled>>
vars == <<recorderVars, storeVars, loopVars, history>>

Init ==
    /\ RecorderInit
    /\ StoreInit
    /\ pc = "sleeping"
    /\ now = Start
    /\ ticks = 0 /\ crashes = 0
    /\ seen = {} /\ snap = {} /\ pending = {} /\ todo = {} /\ shown = {}
    /\ last_maint = 0
    /\ recorded = {} /\ lost = {}
    /\ failures = 0 /\ unrolled = FALSE

-------------------------------------------------------------------------------
(* The scan: accounting, naming, snapshot and record.                      *)

(* A sleep of at least one second passes between two readings of the clock, *)
(* which may have been set back meanwhile.                                 *)
ClockReadings ==
    (now + 1 .. now + MaxGap)
      \cup { t \in now - StepBack .. now : StepBack > 0 /\ t >= 0 }

(* build_snapshot: one view per address ever seen, named by the current    *)
(* lease and ARP tables, or by its own text.                               *)
Views(ips, names) == { [mac |-> names[ip], ip |-> ip] : ip \in ips }

Readings(views, t) == { Reading(v, ticks + 1, t) : v \in views }

Tick(t, new, names) ==
    LET views == Views(seen \cup new, names)
    IN  /\ pc = "sleeping"
        /\ ticks < MaxTicks
        /\ pc' = "saving"
        /\ now' = t
        /\ ticks' = ticks + 1
        /\ seen' = seen \cup new
        /\ snap' = views
        /\ Record(views, Readings(views, t), t)
        /\ pending' = Finalized(views, t \div Minute)
        /\ todo' = views
        /\ recorded' = recorded \cup Readings(views, t)
        /\ UNCHANGED <<storeVars, crashes, last_maint, shown, lost, failures, unrolled>>

-------------------------------------------------------------------------------
(* Saving: one insert per finished minute, then one upsert per view, each  *)
(* in the arbitrary order of the snapshot.                                 *)

InsertRow(row) ==
    /\ pc = "saving"
    /\ row \in pending
    /\ InsertMinute(row)
    /\ pending' = pending \ {row}
    /\ UNCHANGED <<recorderVars, pc, now, ticks, crashes, seen, snap, todo, last_maint,
                   shown, history>>

(* A statement returns an error, which the caller logs.                    *)
StatementFails == failures < MaxFailures /\ failures' = failures + 1

(* insert_samples failed: the row is dropped.                              *)
InsertRowFails(row) ==
    /\ StatementFails
    /\ pc = "saving"
    /\ row \in pending
    /\ pending' = pending \ {row}
    /\ lost' = lost \cup row.of
    /\ UNCHANGED <<recorderVars, storeVars, pc, now, ticks, crashes, seen, snap, todo,
                   last_maint, shown, recorded, unrolled>>

Upsert(view) ==
    /\ pc = "saving"
    /\ pending = {}
    /\ view \in todo
    /\ UpsertClient(view.mac, view.ip, now)
    /\ todo' = todo \ {view}
    /\ UNCHANGED <<recorderVars, pc, now, ticks, crashes, seen, snap, pending, last_maint,
                   shown, history>>

UpsertFails(view) ==
    /\ StatementFails
    /\ pc = "saving"
    /\ pending = {}
    /\ view \in todo
    /\ todo' = todo \ {view}
    /\ UNCHANGED <<recorderVars, storeVars, pc, now, ticks, crashes, seen, snap, pending,
                   last_maint, shown, recorded, lost, unrolled>>

(* if now_i - last_maint >= 300 *)
MaintenanceDue == now - last_maint >= MaintPeriod

GoTo(next) ==
    /\ pc' = next
    /\ UNCHANGED <<recorderVars, now, ticks, crashes, seen, snap, pending, todo, shown,
                   recorded, lost>>

SavedUnrolled ==
    /\ pc = "saving"
    /\ pending = {} /\ todo = {}
    /\ GoTo(IF MaintenanceDue THEN "prune_min" ELSE "publish")
    /\ unrolled' = FALSE
    /\ UNCHANGED <<storeVars, last_maint, failures>>

Saved ==
    /\ pc = "saving"
    /\ pending = {} /\ todo = {}
    /\ GoTo(IF MaintenanceDue THEN "rollup_hour" ELSE "publish")
    /\ unrolled' = FALSE
    /\ UNCHANGED <<storeVars, last_maint, failures>>

-------------------------------------------------------------------------------
(* Maintenance: rollup, then prune whether or not rollup succeeded.  Within *)
(* each, the first error returns (the ? operator) and skips the rest.      *)

RollupHour ==
    /\ pc = "rollup_hour"
    /\ RollupMinToHour
    /\ GoTo("rollup_day")
    /\ UNCHANGED <<last_maint, failures, unrolled>>

RollupDay ==
    /\ pc = "rollup_day"
    /\ RollupHourToDay
    /\ GoTo("prune_min")
    /\ UNCHANGED <<last_maint, failures, unrolled>>

RollupFails ==
    /\ StatementFails
    /\ pc \in {"rollup_hour", "rollup_day"}
    /\ GoTo("prune_min")
    /\ unrolled' = TRUE
    /\ UNCHANGED <<storeVars, last_maint>>

PruneMin ==
    /\ pc = "prune_min"
    /\ DeleteMin(now)
    /\ GoTo("prune_hour")
    /\ UNCHANGED <<last_maint, failures, unrolled>>

PruneHour ==
    /\ pc = "prune_hour"
    /\ DeleteHour(now)
    /\ GoTo("prune_day")
    /\ UNCHANGED <<last_maint, failures, unrolled>>

(* The last DELETE of prune that concerns these tables, and the assignment *)
(* of last_maint after it.                                                 *)
PruneDay ==
    /\ pc = "prune_day"
    /\ DeleteDay(now)
    /\ GoTo("publish")
    /\ last_maint' = now
    /\ UNCHANGED <<failures, unrolled>>

PruneFails ==
    /\ StatementFails
    /\ pc \in {"prune_min", "prune_hour", "prune_day"}
    /\ GoTo("publish")
    /\ last_maint' = now
    /\ UNCHANGED <<storeVars, unrolled>>

-------------------------------------------------------------------------------
(* g.clients = snap, unlock, print, sleep.                                 *)
PublishOnce ==
    /\ pc = "publish"
    /\ shown' = IF shown = {} THEN snap ELSE shown
    /\ pc' = "sleeping"
    /\ UNCHANGED <<recorderVars, storeVars, now, ticks, crashes, seen, snap, pending, todo,
                   last_maint, history>>

Publish ==
    /\ pc = "publish"
    /\ shown' = snap
    /\ pc' = "sleeping"
    /\ UNCHANGED <<recorderVars, storeVars, now, ticks, crashes, seen, snap, pending, todo,
                   last_maint, history>>

-------------------------------------------------------------------------------
(* Process death and the respawn of the init script.  Everything but the   *)
(* database file is gone, and the new process starts from Recorder::new,   *)
(* an empty Accountant and last_maint = 0.                                 *)

Held == UNION { series[id].cur_samples : id \in DOMAIN series }

Awaiting == UNION { row.of : row \in pending }

Crash ==
    /\ pc # "down"
    /\ crashes < MaxCrashes
    /\ pc' = "down"
    /\ crashes' = crashes + 1
    /\ series' = [id \in {} |-> {}]
    /\ last_ts' = NoTime
    /\ seen' = {} /\ snap' = {} /\ pending' = {} /\ todo' = {} /\ shown' = {}
    /\ last_maint' = 0
    /\ lost' = lost \cup Held \cup Awaiting
    /\ UNCHANGED <<storeVars, now, ticks, recorded, failures, unrolled>>

Restart ==
    /\ pc = "down"
    /\ pc' = "sleeping"
    /\ UNCHANGED <<recorderVars, storeVars, now, ticks, crashes, seen, snap, pending, todo,
                   last_maint, shown, history>>

-------------------------------------------------------------------------------
Scan == \E t \in ClockReadings, new \in SUBSET Ip, names \in NameTables : Tick(t, new, names)

Save ==
    \/ \E row \in pending : InsertRow(row) \/ InsertRowFails(row)
    \/ \E view \in todo : Upsert(view) \/ UpsertFails(view)
    \/ Saved

Maintain ==
    \/ RollupHour \/ RollupDay \/ RollupFails
    \/ PruneMin \/ PruneHour \/ PruneDay \/ PruneFails

Next == Scan \/ Save \/ Maintain \/ Publish \/ Crash \/ Restart

Spec == Init /\ [][Next]_vars

-------------------------------------------------------------------------------
(* Properties.                                                             *)

Sample == [id : Id, ip : Ip, tick : 1 .. MaxTicks, ts : Nat, span : Nat]

Key == [ts : Nat, id : Id]

Row == [ts : Nat, id : Id, of : SUBSET Sample]

View == [mac : Id, ip : Ip]

Series == [realtime : Seq(Sample), minutes : Seq(Row), cur_minute : Nat,
           cur_samples : SUBSET Sample]

Client == [ip : Ip, first_seen : Nat, last_seen : Nat]

(* f is a function from some of the elements of S to elements of T.        *)
PartialFunction(f, S, T) == DOMAIN f \subseteq S /\ f \in [DOMAIN f -> T]

Table(f) == PartialFunction(f, Key, SUBSET Sample)

(* Type correctness of RAM, database and loop. *)
TypeOK ==
    /\ PartialFunction(series, Id, Series)
    /\ last_ts \in Nat \cup {NoTime}
    /\ Table(samples_min) /\ Table(samples_hour) /\ Table(samples_day)
    /\ PartialFunction(clients, Id, Client)
    /\ pc \in {"sleeping", "saving", "rollup_hour", "rollup_day",
              "prune_min", "prune_hour", "prune_day", "publish", "down"}
    /\ now \in Nat
    /\ ticks \in 0 .. MaxTicks
    /\ crashes \in 0 .. MaxCrashes
    /\ seen \subseteq Ip
    /\ snap \subseteq View
    /\ pending \subseteq Row
    /\ todo \subseteq View
    /\ last_maint \in Nat
    /\ shown \subseteq View
    /\ recorded \subseteq Sample
    /\ lost \subseteq Sample
    /\ failures \in 0 .. MaxFailures
    /\ unrolled \in BOOLEAN

(* A row of a samples table sums readings of its own client, taken in its  *)
(* own bucket, and there is at least one: recorder.rs closes a minute      *)
(* under the number it was opened with, and the two rollups regroup rows   *)
(* without moving a reading to another hour, day or client.  It holds with *)
(* crashes, failing statements and a clock that is set back.  Since the    *)
(* bucket and client are functions of the reading, no reading is summed    *)
(* into two rows of one table.                                             *)
RowsMatch(table, n) ==
    \A k \in DOMAIN table :
        /\ table[k] # {}
        /\ \A s \in table[k] : s.id = k.id /\ Bucket(s.ts, n) = k.ts

RowsMatchBuckets ==
    /\ RowsMatch(samples_min, Minute)
    /\ RowsMatch(samples_hour, Hour)
    /\ RowsMatch(samples_day, Day)

(* Once written, a minute row keeps its value until retention deletes it.  *)
(* insert_samples is INSERT OR REPLACE, so a minute finalized twice (after *)
(* a restart within the minute, or by two series of one client) would      *)
(* silently drop what the first row counted.  Holds while the wall clock   *)
(* is never set back.                                                      *)
MinuteRowsImmutable ==
    [][\A k \in DOMAIN samples_min \cap DOMAIN samples_min' :
          samples_min'[k] = samples_min[k]]_vars

(* Older than the retention of samples_min. *)
Expired == { s \in recorded : Bucket(s.ts, Minute) < now - MinSecs }

Persisted == UNION { samples_min[k] : k \in DOMAIN samples_min }

(* No reading vanishes between the RAM of recorder.rs and samples_min: it  *)
(* is in an open minute, in a finished minute still to be inserted, or in  *)
(* the table, unless a crash or a failed insert lost it or retention let   *)
(* it go.  In particular a client whose identity changes (its MAC resolves *)
(* in mid-minute) keeps what was counted under the old one.                *)
Conserved == recorded \ lost \subseteq Held \cup Awaiting \cup Persisted \cup Expired

(* Every reading the loop takes waits in RAM and is then saved or lost; a  *)
(* saved one may expire; none is in two places and none comes back.  This  *)
(* is Conserved for each step: an insert moves readings out of RAM into    *)
(* the table, a death or a failed insert loses those in RAM and no saved   *)
(* one.  Holds while the wall clock is never set back.                     *)
Books == INSTANCE Ledger WITH
             waiting <- Held \cup Awaiting,
             saved <- Persisted,
             lost <- lost,
             gone <- recorded \ (Held \cup Awaiting \cup Persisted \cup lost)

BooksBalance == Books!Spec

(* Whatever a DELETE of prune takes away is already summed into the next   *)
(* coarser table: the order of rollup and prune in main.rs:108-109 matters *)
(* also when the process dies between them and whatever fails, except that  *)
(* a maintenance whose rollup failed prunes all the same.                  *)
Summarised(fine, coarse, n) ==
    \A k \in DOMAIN fine :
        /\ BucketKey(k, n) \in DOMAIN coarse
        /\ fine[k] \subseteq coarse[BucketKey(k, n)]

Removed(table, table2) ==
    [ k \in DOMAIN table \ DOMAIN table2 |-> table[k] ]

PrunedIsSummarised ==
    [][~unrolled => /\ Summarised(Removed(samples_min, samples_min'), samples_hour', Hour)
                    /\ Summarised(Removed(samples_hour, samples_hour'), samples_day', Day)]_vars

(* The minutes a chart reads from RAM (history.rs, Day) and the rows the   *)
(* database holds for them are the same, minute for minute: an entry of    *)
(* the ring is in the table with the same contents, or about to be, or     *)
(* past retention, or its insert failed.  Holds while the wall clock is    *)
(* never set back.                                                         *)
RingAgreesWithStore ==
    \A id \in DOMAIN series : \A i \in DOMAIN series[id].minutes :
        LET entry == series[id].minutes[i]
            key == [ts |-> entry.ts, id |-> id]
        IN  \/ key \in DOMAIN samples_min /\ samples_min[key] = entry.of
            \/ entry \in pending
            \/ entry.ts < now - MinSecs
            \/ entry.of \subseteq lost

(* No second is counted twice for one address: the spans of its readings   *)
(* do not overlap, across identities, crashes and missed scans.  Holds     *)
(* while the wall clock is never set back.                                 *)
SpansDisjoint ==
    \A s, t \in recorded : s.ip = t.ip /\ s.tick < t.tick => s.ts <= t.ts - t.span

(* Every saved minute belongs to a client the clients table knows, and     *)
(* that was seen from before its first reading to after its last.  The     *)
(* upsert runs after the insert, in later transactions, and a crash may    *)
(* come between.  Holds while no statement fails and the clock is never    *)
(* set back.                                                               *)
RowsWithinClientLife ==
    \A k \in DOMAIN samples_min :
        /\ k.id \in DOMAIN clients
        /\ \A s \in samples_min[k] :
              clients[k.id].first_seen <= s.ts /\ s.ts <= clients[k.id].last_seen

(* What the control socket can see while the mutex is free is one scan,    *)
(* whole: the listed clients are exactly those the latest scan recorded,   *)
(* and each has that reading in its realtime ring.                         *)
Latest == { s \in recorded : s.tick = ticks }

ReadersSeeOneScan ==
    pc = "sleeping" /\ last_ts # NoTime =>
        /\ shown = { [mac |-> s.id, ip |-> s.ip] : s \in Latest }
        /\ \A s \in Latest : \E i \in DOMAIN series[s.id].realtime :
              series[s.id].realtime[i] = s

-------------------------------------------------------------------------------
(* Inductive strengthenings, for the proofs.                               *)

(* What RowsMatchBuckets asks of a row holds already while its readings    *)
(* are in RAM.                                                             *)
OpenMatches ==
    \A id \in DOMAIN series : \A s \in series[id].cur_samples :
        s.id = id /\ s.ts \div Minute = series[id].cur_minute

PendingMatches ==
    \A row \in pending :
        /\ row.of # {}
        /\ \A s \in row.of : s.id = row.id /\ Bucket(s.ts, Minute) = row.ts

RowsInv == OpenMatches /\ PendingMatches /\ RowsMatchBuckets

(* Minutes only ever move forward, for the clock and for each client: a    *)
(* row is of an earlier minute than the one open for its client and than   *)
(* the one on the clock.                                                   *)
KeyOf(row) == [ts |-> row.ts, id |-> row.id]

OpenMinutesReached ==
    \A id \in DOMAIN series : series[id].cur_minute <= now \div Minute

RowsBehindClock ==
    \A k \in DOMAIN samples_min :
        /\ k.ts < (now \div Minute) * Minute
        /\ k.id \in DOMAIN series => k.ts < series[k.id].cur_minute * Minute

PendingRowsNew ==
    /\ pc # "saving" => pending = {}
    /\ \A row \in pending :
          /\ row.id \in DOMAIN series
          /\ row.ts < series[row.id].cur_minute * Minute
          /\ KeyOf(row) \notin DOMAIN samples_min
    /\ \A r1, r2 \in pending : KeyOf(r1) = KeyOf(r2) => r1 = r2

MinutesInv == OpenMinutesReached /\ RowsBehindClock /\ PendingRowsNew

(* Only what was recorded is anywhere, and what is lost is nowhere else.   *)
BooksInv ==
    /\ Held \subseteq recorded /\ Awaiting \subseteq recorded
    /\ Persisted \subseteq recorded /\ lost \subseteq recorded
    /\ lost \cap (Held \cup Awaiting \cup Persisted) = {}
    /\ \A s \in recorded : s.tick <= ticks

(* Where a reading may be and in which minute, between any two statements  *)
(* of a daemon whose clock is not set back.                                *)
LedgerInv == RowsInv /\ MinutesInv /\ BooksInv

(* Between the rollups and the deletes of one maintenance the coarser      *)
(* table covers the finer one, unless a rollup failed.                     *)
SummaryInv ==
  ~unrolled =>
    /\ pc \in {"rollup_day", "prune_min"} => Summarised(samples_min, samples_hour, Hour)
    /\ pc \in {"prune_min", "prune_hour"} => Summarised(samples_hour, samples_day, Day)

-------------------------------------------------------------------------------
(* What the comments say and the code does not do.                         *)

(* db.rs:250 calls rollup "idempotent via INSERT OR REPLACE": running it   *)
(* again must not take away what a kept hour row already sums.             *)
RollupIdempotent ==
    [][\A k \in DOMAIN samples_hour \cap DOMAIN samples_hour' :
          samples_hour[k] \subseteq samples_hour'[k]]_vars

(* config.rs:23 puts the database on flash "so history survives reboot":   *)
(* every saved minute young enough for the Day chart is in the minutes     *)
(* that chart reads.                                                       *)
HistorySurvivesReboot ==
    pc = "sleeping" /\ last_ts # NoTime =>
        \A k \in DOMAIN samples_min :
            k.ts >= now - MinuteCap * Minute /\ k.id \in DOMAIN series =>
                \E i \in DOMAIN series[k.id].minutes : series[k.id].minutes[i].ts = k.ts
===============================================================================
