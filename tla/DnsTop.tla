-------------------------------- MODULE DnsTop --------------------------------
(***************************************************************************)
(* The method "dns_top" of control.rs and the query of db.rs behind it:    *)
(* the most queried domains of one client, or of all, over a range of days *)
(* of the table DnsCapture writes.                                         *)
(***************************************************************************)
EXTENDS DnsCapture, SequencesExt

(* client of the request: a MAC, or Everyone when it is absent.            *)
Everyone == "everyone"

Of(client, mac) == client = Everyone \/ mac = client

(* WHERE client = .. AND ts >= .. AND ts <= ..                             *)
Matching(client, from, to) ==
    { k \in DOMAIN dns_counts_day : Of(client, k.mac) /\ k.ts >= from /\ k.ts <= to }

(* SUM(count) of the rows of a domain.                                     *)
CountOfOneRow(domain, rows) ==
    Cardinality(dns_counts_day[CHOOSE k \in rows : k.domain = domain])

CountOf(domain, rows) ==
    SumFunction([ k \in { j \in rows : j.domain = domain } |-> Cardinality(dns_counts_day[k]) ])

(* GROUP BY domain ORDER BY c DESC LIMIT ..; the order of equal counts is  *)
(* any.                                                                    *)
Grouped(rows) == { [domain |-> d, count |-> CountOf(d, rows)] : d \in { k.domain : k \in rows } }

Rankings(rows) ==
    { ranked \in SetToSeqs(Grouped(rows)) :
        \A i, j \in DOMAIN ranked : i < j => ranked[i].count >= ranked[j].count }

Answers(client, from, to, limit) ==
    { SubSeq(ranked, 1, IF limit < Len(ranked) THEN limit ELSE Len(ranked)) :
        ranked \in Rankings(Matching(client, from, to)) }

-------------------------------------------------------------------------------
(* What a reader is told of a domain is the number of queries for it that  *)
(* were saved and not yet pruned: each once, over all the flushes and days *)
(* and clients asked for, those that found the window full under Other.    *)
(* A shorter answer leaves out only domains with no more queries than      *)
(* those it shows.                                                         *)
FiledUnder(domain, client) ==
    { q \in Saved : /\ Of(client, q.mac)
                    /\ \E k \in DOMAIN dns_counts_day : q \in dns_counts_day[k] /\ k.domain = domain }

TopIsExact ==
    \A client \in Mac \cup {Everyone} :
        LET count(d) == Cardinality(FiledUnder(d, client))
        IN  /\ \A all \in Answers(client, 0, now + MaxGap, Cardinality(Domain) + 1) :
               \A d \in Domain \cup {Other} :
                  IF count(d) = 0
                  THEN \A i \in DOMAIN all : all[i].domain # d
                  ELSE \E i \in DOMAIN all :
                          /\ all[i] = [domain |-> d, count |-> count(d)]
                          /\ \A j \in DOMAIN all : all[j].domain = d => j = i
            /\ \A top \in Answers(client, 0, now + MaxGap, 1) :
               \A i \in DOMAIN top : \A d \in Domain \cup {Other} : count(d) <= top[i].count
===============================================================================
