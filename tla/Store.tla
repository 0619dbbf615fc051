--------------------------------- MODULE Store ---------------------------------
(***************************************************************************)
(* SqliteStore of db.rs: the tables on disk and the statements run on      *)
(* them.  A samples table is a function from its primary key, a record     *)
(* [ts, id], to the set of samples its row sums (see Recorder).  Every     *)
(* operator below is one SQL statement or transaction: it happens entirely *)
(* or, when it returns an error or the process dies, not at all.           *)
(* Table dns_counts_day is not part of this module.                        *)
(***************************************************************************)
EXTENDS Tables

CONSTANTS Hour, Day,                   \* bucket sizes of rollup: 3600, 86400
          MinSecs, HourSecs, DaySecs   \* Retention, per samples table

ASSUME StoreAssumption ==
    /\ Hour \in Nat \ {0}
    /\ Day \in Nat \ {0} /\ Day % Hour = 0
    /\ MinSecs \in Nat /\ HourSecs \in Nat /\ DaySecs \in Nat

VARIABLES samples_min, samples_hour, samples_day,
          clients   \* primary key mac -> [ip, first_seen, last_seen]

storeVars == <<samples_min, samples_hour, samples_day, clients>>

StoreInit ==
    /\ samples_min = EmptyTable
    /\ samples_hour = EmptyTable
    /\ samples_day = EmptyTable
    /\ clients = EmptyTable

-------------------------------------------------------------------------------
(* insert_samples(Tier::Min, mac, [sample]) *)
InsertMinute(row) ==
    /\ samples_min' = InsertOrReplace(samples_min,
                          [ k \in {[ts |-> row.ts, id |-> row.id]} |-> row.of ])
    /\ UNCHANGED <<samples_hour, samples_day, clients>>

(* upsert_client: ON CONFLICT the row keeps its first_seen.                *)
ReplaceClient(mac, ip, t) ==
    /\ clients' = [ m \in DOMAIN clients \cup {mac} |->
                      IF m # mac THEN clients[m]
                      ELSE [ ip |-> ip, first_seen |-> t, last_seen |-> t ] ]
    /\ UNCHANGED <<samples_min, samples_hour, samples_day>>

UpsertClient(mac, ip, t) ==
    /\ clients' = [ m \in DOMAIN clients \cup {mac} |->
                      IF m # mac THEN clients[m]
                      ELSE [ ip |-> ip,
                             first_seen |-> IF mac \in DOMAIN clients
                                            THEN clients[mac].first_seen ELSE t,
                             last_seen |-> t ] ]
    /\ UNCHANGED <<samples_min, samples_hour, samples_day>>

(* rollup_tier(Min, Hour, 3600) and rollup_tier(Hour, Day, 86400) *)
RollupMinToHour ==
    /\ samples_hour' = InsertOrReplace(samples_hour, RolledUp(samples_min, Hour))
    /\ UNCHANGED <<samples_min, samples_day, clients>>

RollupHourToDay ==
    /\ samples_day' = InsertOrReplace(samples_day, RolledUp(samples_hour, Day))
    /\ UNCHANGED <<samples_min, samples_hour, clients>>

(* The three sample DELETEs of prune, run at clock t.                      *)
DeleteMin(t) ==
    /\ samples_min' = Pruned(samples_min, t - MinSecs)
    /\ UNCHANGED <<samples_hour, samples_day, clients>>

DeleteHour(t) ==
    /\ samples_hour' = Pruned(samples_hour, t - HourSecs)
    /\ UNCHANGED <<samples_min, samples_day, clients>>

DeleteDay(t) ==
    /\ samples_day' = Pruned(samples_day, t - DaySecs)
    /\ UNCHANGED <<samples_min, samples_hour, clients>>
===============================================================================
