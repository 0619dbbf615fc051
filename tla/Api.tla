---------------------------------- MODULE Api ----------------------------------
(***************************************************************************)
(* What the control socket tells of the accountant's clients: the snapshot *)
(* the scan loop publishes (build_snapshot) and the summary computed from  *)
(* it on request (api.rs).  Clients that have gone quiet since are still   *)
(* in both.                                                                *)
(***************************************************************************)
EXTENDS Accounting, SequencesExt

(* Vec::sort_by, which is stable, on a weight of the elements, largest     *)
(* first: the one in place i has i - 1 before it.                          *)
SortedBy(s, weight) ==
    LET before(j) == { k \in DOMAIN s : \/ weight[s[k]] > weight[s[j]]
                                        \/ weight[s[k]] = weight[s[j]] /\ k < j }
    IN  [ i \in DOMAIN s |-> s[CHOOSE j \in DOMAIN s : Cardinality(before(j)) = i - 1] ]

(* One view per entry of the HashMap stats, whose order is arbitrary,      *)
(* fastest client first.                                                   *)
Snapshots ==
    { SortedBy(views, [c \in DOMAIN stats |-> stats[c].rx_bps + stats[c].tx_bps]) :
        views \in SetToSeqs(DOMAIN stats) }

Volume(c) == stats[c].rx_total + stats[c].tx_total

Top(views, n) ==
    LET talkers == SortedBy(views, [c \in DOMAIN stats |-> Volume(c)])
    IN  SubSeq(talkers, 1, IF n < Len(talkers) THEN n ELSE Len(talkers))

SumRx(s) == SumFunction([i \in DOMAIN s |-> stats[s[i]].rx_total])
SumTx(s) == SumFunction([i \in DOMAIN s |-> stats[s[i]].tx_total])

SummaryOfTop(views, n) ==
    [ total_rx |-> SumRx(Top(views, n)), total_tx |-> SumTx(Top(views, n)),
      top |-> Top(views, n) ]

Summary(views, n) ==
    [ total_rx |-> SumRx(views), total_tx |-> SumTx(views), top |-> Top(views, n) ]

-------------------------------------------------------------------------------
(* The totals of a summary are all that the running process has credited,  *)
(* for quiet clients and those beyond top_n too, and no connection between *)
(* two clients twice; nobody it leaves out has moved more than anybody it  *)
(* lists, whatever order the HashMap and the snapshot put them in.         *)
SummaryCoversAll ==
    \A views \in Snapshots, n \in 0 .. Cardinality(Lan) :
        LET answer == Summary(views, n)
            listed == ToSet(answer.top)
        IN  /\ answer.total_rx = SumFunction([c \in Lan |-> SumFor(credited, c).rx])
            /\ answer.total_tx = SumFunction([c \in Lan |-> SumFor(credited, c).tx])
            /\ Cardinality(listed) = IF n < Len(views) THEN n ELSE Len(views)
            /\ \A c \in DOMAIN stats \ listed, d \in listed : Volume(c) <= Volume(d)
===============================================================================
