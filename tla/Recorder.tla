------------------------------- MODULE Recorder -------------------------------
(***************************************************************************)
(* Recorder of recorder.rs: the history the daemon keeps in RAM.  Per      *)
(* identity (a MAC, or the IP text while no MAC is known) it holds a ring  *)
(* of raw samples, a ring of finished minutes, and the samples of the      *)
(* minute still open.                                                      *)
(*                                                                         *)
(* Data abstraction.  A sample is one reading of one client; its byte      *)
(* counts, peaks and connection counts are not modelled, only which        *)
(* reading it is.  An aggregated row is the SET `of' of samples it was     *)
(* summed from.  Union stands for SUM faithfully as long as no sample is   *)
(* in two rows of a table, which RowsMatchBuckets of ScanLoop implies.     *)
(* The rings are the windows that module Ring is proved to implement.      *)
(***************************************************************************)
EXTENDS Integers, SequencesExt

CONSTANTS Minute,       \* the 60 of recorder.rs
          RealtimeCap,  \* Recorder::new(300, 1440)
          MinuteCap

ASSUME RecorderAssumption ==
    /\ Minute \in Nat \ {0}
    /\ RealtimeCap \in Nat \ {0}
    /\ MinuteCap \in Nat \ {0}

VARIABLES series,   \* HashMap<String, ClientSeries>
          last_ts   \* Option<i64>: the previous call's clock, NoTime for None

recorderVars == <<series, last_ts>>

NoTime == -1

(* RingBuffer::push on the window the ring presents. *)
PushedAhead(ring, items, cap) ==
    LET all == items \o ring
    IN  SubSeq(all, 1, IF Len(all) > cap THEN cap ELSE Len(all))

Pushed(ring, items, cap) ==
    LET all == ring \o items
    IN  SubSeq(all, IF Len(all) > cap THEN Len(all) - cap + 1 ELSE 1, Len(all))

RecorderInit ==
    /\ series = [id \in {} |-> {}]
    /\ last_ts = NoTime

-------------------------------------------------------------------------------
(* The seconds a reading at clock t accounts for; 0 on the first call and  *)
(* when the clock went back.                                               *)
IntervalInclusive(t) == IF last_ts = NoTime \/ t < last_ts THEN 0 ELSE t - last_ts + 1

Interval(t) == IF last_ts = NoTime \/ t < last_ts THEN 0 ELSE t - last_ts

Reading(view, tick, t) ==
    [id |-> view.mac, ip |-> view.ip, tick |-> tick, ts |-> t, span |-> Interval(t)]

(* entry(mac).or_insert_with(..): the series of id, or a fresh one.        *)
SeriesOf(id, minute) ==
    IF id \in DOMAIN series
    THEN series[id]
    ELSE [realtime |-> <<>>, minutes |-> <<>>, cur_minute |-> minute, cur_samples |-> {}]

RollsOverAlways(s, minute) == s.cur_samples # {}

RollsOver(s, minute) == s.cur_minute # minute /\ s.cur_samples # {}

(* aggregate(cur_samples, cur_minute * 60), with the identity it is for.   *)
AggregatedLate(id, s) == [ts |-> (s.cur_minute + 1) * Minute, id |-> id, of |-> s.cur_samples]

Aggregated(id, s) == [ts |-> s.cur_minute * Minute, id |-> id, of |-> s.cur_samples]

(* cur_samples after the push: emptied first if the minute was finished.   *)
OpenMinuteOnlyNew(s, new, minute) == new

OpenMinuteKept(s, new, minute) == s.cur_samples \cup new

OpenMinute(s, new, minute) ==
    IF RollsOver(s, minute) THEN new ELSE s.cur_samples \cup new

(* What record leaves in the series of id, given its new readings.  Two    *)
(* views with one identity add two readings to the same minute.            *)
AfterRecord(id, new, minute) ==
    LET s == SeriesOf(id, minute)
    IN  [ realtime    |-> Pushed(s.realtime, SetToSeq(new), RealtimeCap),
          minutes     |-> IF RollsOver(s, minute)
                          THEN Pushed(s.minutes, << Aggregated(id, s) >>, MinuteCap)
                          ELSE s.minutes,
          cur_minute  |-> minute,
          cur_samples |-> OpenMinute(s, new, minute) ]

Viewed(views) == { v.mac : v \in views }

(* The minutes record hands back for the database.                         *)
FinalizedLate(views, minute) ==
    { AggregatedLate(id, series[id]) :
        id \in { i \in Viewed(views) \cap DOMAIN series : RollsOver(series[i], minute) } }

Finalized(views, minute) ==
    { Aggregated(id, series[id]) :
        id \in { i \in Viewed(views) \cap DOMAIN series : RollsOver(series[i], minute) } }

(* record(views, t).  Only the identities in views are touched: one that   *)
(* stops being viewed keeps its open minute until it is viewed again.      *)
Record(views, readings, t) ==
    /\ series' = [ id \in DOMAIN series \cup Viewed(views) |->
                     IF id \in Viewed(views)
                     THEN AfterRecord(id, { r \in readings : r.id = id }, t \div Minute)
                     ELSE series[id] ]
    /\ last_ts' = t
===============================================================================
