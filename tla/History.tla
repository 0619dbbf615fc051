------------------------------- MODULE History -------------------------------
(***************************************************************************)
(* HistoryService of history.rs, Store::query of db.rs and the method      *)
(* "history" of control.rs: the series a chart shows, of one client or of  *)
(* all together, from the rings of the recorder (realtime, day) or from    *)
(* the rolled-up tables (week, month).  A request runs under the mutex of  *)
(* Shared, so it reads the state of ScanLoop between two iterations.       *)
(*                                                                         *)
(* A point is its time and the readings it sums.  lttb then thins the      *)
(* series: module Downsample.                                              *)
(***************************************************************************)
EXTENDS ScanLoop, Sorting

(* client of the request: an identity, or Everyone when it is absent.      *)
Everyone == "everyone"

ASSUME HistoryAssumption == Everyone \notin Id

RamTiers == {"realtime", "day"}
HistTier == RamTiers \cup {"week", "month"}

Readers == pc = "sleeping"

(* Recorder::realtime and Recorder::minutes: empty for an unknown client.  *)
RamSamples(tier, id) ==
    IF id \notin DOMAIN series THEN <<>>
    ELSE IF tier = "realtime"
    THEN [ i \in DOMAIN series[id].realtime |->
             [ts |-> series[id].realtime[i].ts, of |-> {series[id].realtime[i]}] ]
    ELSE [ i \in DOMAIN series[id].minutes |->
             [ts |-> series[id].minutes[i].ts, of |-> series[id].minutes[i].of] ]

InRange(point, from, to) == point.ts >= from /\ point.ts <= to

RamSeries(tier, id, from, to) ==
    LET samples == RamSamples(tier, id)
        kept == Ascending({ i \in DOMAIN samples : InRange(samples[i], from, to) })
    IN  [ i \in DOMAIN kept |-> samples[kept[i]] ]

(* Points grouped by their time, in its order: a BTreeMap, or GROUP BY ts  *)
(* ORDER BY ts.                                                            *)
ByTime(points) ==
    LET times == Ascending({ p.ts : p \in points })
    IN  [ i \in DOMAIN times |->
            [ts |-> times[i], of |-> UNION { p.of : p \in { q \in points : q.ts = times[i] } }] ]

(* The sum over recorder.macs(): every identity with a ring, listed or not. *)
RamTotalOfShown(tier, from, to) ==
    ByTime(UNION { Range(RamSeries(tier, view.mac, from, to)) : view \in shown })

RamTotal(tier, from, to) ==
    ByTime(UNION { Range(RamSeries(tier, id, from, to)) : id \in DOMAIN series })

(* SELECT .. FROM samples_hour (week) or samples_day (month).              *)
StoreRows(tier, from, to) ==
    LET table == IF tier = "week" THEN samples_hour ELSE samples_day
    IN  { [ts |-> k.ts, id |-> k.id, of |-> table[k]] :
            k \in { j \in DOMAIN table : InRange(j, from, to) } }

StoreSeries(tier, id, from, to) ==
    ByTime({ row \in StoreRows(tier, from, to) : row.id = id })

StoreTotalOfListed(tier, from, to) ==
    ByTime({ row \in StoreRows(tier, from, to) : row.id \in DOMAIN series })

StoreTotal(tier, from, to) == ByTime(StoreRows(tier, from, to))

(* HistoryService::series, before lttb.  A chart from a table is empty when *)
(* its SELECT fails: the error goes no further.                            *)
Charted(tier, client, from, to, fails) ==
    IF tier \in RamTiers
    THEN IF client = Everyone THEN RamTotal(tier, from, to) ELSE RamSeries(tier, client, from, to)
    ELSE IF fails THEN <<>>
    ELSE IF client = Everyone THEN StoreTotal(tier, from, to)
         ELSE StoreSeries(tier, client, from, to)

(* The answer to a request that names no range, and what it is unless the  *)
(* database fails.                                                         *)
Answer(tier, client, fails) == Charted(tier, client, 0, now + Day, fails)

Always(tier, client) == Answer(tier, client, FALSE)

-------------------------------------------------------------------------------
(* Properties, of the answers a reader can get between two iterations.     *)

Ascends(points, Before(_, _)) ==
    \A i \in 1 .. Len(points) - 1 : Before(points[i].ts, points[i + 1].ts)

(* A chart runs forward in time, as lttb needs: strictly, except that a    *)
(* client two addresses share has two readings of each scan.  The answer   *)
(* comes in the order of the ring, which nobody sorts.  Holds while the    *)
(* wall clock is never set back; the chart of a failed SELECT has no       *)
(* points.                                                                 *)
ChartsAscend ==
    Readers => \A tier \in HistTier, client \in Id \cup {Everyone} :
        IF tier = "realtime" /\ client # Everyone
        THEN Ascends(Always(tier, client), LAMBDA s, t : s <= t)
        ELSE Ascends(Always(tier, client), LAMBDA s, t : s < t)

(* A point of the total in real time is one scan: it counts each address   *)
(* once, under one identity, and leaves a reading of that scan out only if *)
(* the ring of its identity, which two addresses may share, has had to     *)
(* drop it.  The newest point is the latest scan, whole: no identity a     *)
(* client has changed to or from is missing.                               *)
TotalIsOneScan ==
    Readers /\ last_ts # NoTime =>
        LET total == Always("realtime", Everyone)
        IN  /\ \A i \in DOMAIN total :
                  /\ \A r, s \in total[i].of : r.tick = s.tick /\ (r.ip = s.ip => r = s)
                  /\ \A s \in recorded :
                        s.ts = total[i].ts => \/ s \in total[i].of
                                              \/ Len(series[s.id].realtime) = RealtimeCap
            /\ total # <<>> => Last(total).of = Latest

(* A chart from memory has no SELECT that could fail. *)
SelectFails(tier) == IF tier \in RamTiers THEN {FALSE} ELSE BOOLEAN

(* A chart counts a client's readings and no others, at the time at which  *)
(* the total counts them, and the total counts each at one point only and  *)
(* none of a client that is left out of its chart: those the daemon no     *)
(* longer lists, those it saved before a restart and those whose name has  *)
(* changed included.  Two requests are two SELECTs: the total may lack     *)
(* what a chart shows only if its own SELECT failed, a chart what the      *)
(* total shows only if that of the chart did.                              *)
TotalIsItsClients ==
    Readers => \A tier \in HistTier : \A totalFails \in SelectFails(tier) :
        LET total == Answer(tier, Everyone, totalFails)
        IN  /\ \A i, j \in DOMAIN total : i # j => total[i].of \cap total[j].of = {}
            /\ \A id \in Id, chartFails \in SelectFails(tier) :
                  LET chart == Answer(tier, id, chartFails)
                  IN  /\ \A p \in Range(chart) :
                            /\ \A s \in p.of : s.id = id
                            /\ ~totalFails =>
                                  \E q \in Range(total) : q.ts = p.ts /\ p.of \subseteq q.of
                      /\ ~chartFails =>
                            \A q \in Range(total) : \A s \in q.of : s.id = id =>
                                \E p \in Range(chart) : p.ts = q.ts /\ s \in p.of
===============================================================================
