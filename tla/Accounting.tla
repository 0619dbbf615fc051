------------------------------ MODULE Accounting ------------------------------
(***************************************************************************)
(* Accountant of account.rs beside the kernel table it samples.  The       *)
(* kernel opens, feeds and closes connections whenever it likes; a scan    *)
(* sees only the byte counters of those open at that moment and credits    *)
(* each client with what its connections moved since the scan before.      *)
(*                                                                         *)
(* A key stands for the 64-bit hash of flow.rs without collisions, port    *)
(* for the two port numbers of a connection, and the u64 sums do not wrap. *)
(***************************************************************************)
EXTENDS Integers, FiniteSets, Functions

CONSTANTS Ip, Lan,       \* addresses, and those inside a configured prefix
          Port, Proto,   \* Proto holds "tcp", "udp" and "other"
          Gaps,          \* seconds between two scans by the wall clock
          MayMiss,       \* whether a listing may lack an open connection
          MaxBytes,      \* bound: bytes counted for clients, and each counter
          MaxOpens,      \* bound: connections all keys have had since the start
          MaxScans, MaxRestarts   \* bounds

ASSUME AccountingAssumption ==
    /\ IsFiniteSet(Ip) /\ Lan \subseteq Ip
    /\ IsFiniteSet(Port) /\ IsFiniteSet(Proto)
    /\ Gaps \subseteq Int
    /\ MayMiss \in BOOLEAN
    /\ MaxBytes \in Nat /\ MaxOpens \in Nat /\ MaxScans \in Nat /\ MaxRestarts \in Nat

VARIABLES table,       \* /proc/net/nf_conntrack: key -> connection
          last_flows,  \* key -> client bytes at the previous scan
          stats,       \* address -> ClientStats
          timed,       \* last_ts.is_some()
          scans, restarts,
          opens,       \* history: connections each key has had since the start
          carried,     \* history: bytes each key moved for each client, ever
          fresh,       \* history: the same, since the previous scan
          credited,    \* history: what the running process has counted of it
          missed       \* history: whether a listing it read lacked a connection

accountant == <<last_flows, stats, timed>>
history == <<opens, carried, fresh, credited, missed>>
vars == <<table, accountant, scans, restarts, history>>

(* compute_flow_key sorts the endpoints: both directions have one key.     *)
KeyOfFlow(src, dst, port, proto) == [ends |-> {src, dst}, port |-> port, proto |-> proto]

Keys == [ends : { ends \in SUBSET Ip : Cardinality(ends) = 2 }, port : Port, proto : Proto]

Connection == [src : Ip, dst : Ip, orig : Nat, reply : Nat]

Bytes == [rx : Nat, tx : Nat]

NoBytes == [rx |-> 0, tx |-> 0]

Plus(x, y) == [rx |-> x.rx + y.rx, tx |-> x.tx + y.tx]

Nothing == [key \in Keys |-> [c \in Lan |-> NoBytes]]

Added(ledger, key, c, bytes) == [ledger EXCEPT ![key][c] = Plus(@, bytes)]

Init ==
    /\ table = [key \in {} |-> {}]
    /\ last_flows = [key \in {} |-> {}]
    /\ stats = [c \in {} |-> {}]
    /\ timed = FALSE
    /\ scans = 0 /\ restarts = 0
    /\ opens = [key \in Keys |-> 0]
    /\ carried = Nothing /\ fresh = Nothing /\ credited = Nothing
    /\ missed = FALSE

-------------------------------------------------------------------------------
(* LanClassifier::attribute.  The originator wins when both ends are LAN.  *)

Attributed(conn) == conn.src \in Lan \/ conn.dst \in Lan

Client(conn) == IF conn.src \in Lan THEN conn.src ELSE conn.dst

(* The client's share of o bytes sent by the originator and r by the other. *)
Share(conn, o, r) ==
    IF conn.src \in Lan THEN [rx |-> r, tx |-> o] ELSE [rx |-> o, tx |-> r]

Moved(conn) == Share(conn, conn.orig, conn.reply)

-------------------------------------------------------------------------------
(* The kernel.                                                             *)

Open(src, dst, port, proto) ==
    LET key == KeyOfFlow(src, dst, port, proto)
    IN  /\ src # dst
        /\ key \notin DOMAIN table
        /\ SumFunction(opens) < MaxOpens
        /\ table' = [ k \in DOMAIN table \cup {key} |->
                        IF k = key THEN [src |-> src, dst |-> dst, orig |-> 0, reply |-> 0]
                        ELSE table[k] ]
        /\ opens' = [opens EXCEPT ![key] = @ + 1]
        /\ UNCHANGED <<accountant, scans, restarts, carried, fresh, credited, missed>>

Fed(conn, o, r) ==
    [src |-> conn.src, dst |-> conn.dst, orig |-> conn.orig + o, reply |-> conn.reply + r]

Traffic == SumFunction([e \in Keys \X Lan |-> carried[e[1]][e[2]].rx + carried[e[1]][e[2]].tx])

Carry(key, o, r) ==
    LET conn == table[key]
        bytes == Share(conn, o, r)
    IN  /\ conn.orig + o <= MaxBytes /\ conn.reply + r <= MaxBytes
        /\ Attributed(conn) => Traffic < MaxBytes
        /\ table' = [table EXCEPT ![key] = Fed(conn, o, r)]
        /\ carried' = IF Attributed(conn) THEN Added(carried, key, Client(conn), bytes) ELSE carried
        /\ fresh' = IF Attributed(conn) THEN Added(fresh, key, Client(conn), bytes) ELSE fresh
        /\ UNCHANGED <<accountant, scans, restarts, opens, credited, missed>>

Close(key) ==
    /\ table' = [ k \in DOMAIN table \ {key} |-> table[k] ]
    /\ UNCHANGED <<accountant, scans, restarts, history>>

-------------------------------------------------------------------------------
(* update(flows, now).                                                     *)

WrappingSub(x, y) == x - y

SaturatingSub(x, y) == IF x > y THEN x - y ELSE 0

DeltaWhole(key) == Moved(table[key])

DeltaSkipsNew(key) ==
    LET bytes == Moved(table[key])
    IN  IF key \in DOMAIN last_flows
        THEN [rx |-> SaturatingSub(bytes.rx, last_flows[key].rx),
              tx |-> SaturatingSub(bytes.tx, last_flows[key].tx)]
        ELSE NoBytes

Delta(key) ==
    LET bytes == Moved(table[key])
    IN  IF key \in DOMAIN last_flows
        THEN [rx |-> SaturatingSub(bytes.rx, last_flows[key].rx),
              tx |-> SaturatingSub(bytes.tx, last_flows[key].tx)]
        ELSE bytes

(* The flows of the listing the classifier attributes, and those of c.     *)
Counted(listed) == { key \in listed : Attributed(table[key]) }

CountedFor(c, listed) == { key \in Counted(listed) : Client(table[key]) = c }

NewRx(c, listed) == SumFunction([key \in CountedFor(c, listed) |-> Delta(key).rx])

NewTx(c, listed) == SumFunction([key \in CountedFor(c, listed) |-> Delta(key).tx])

(* bytes / elapsed for a known, positive interval, else the reset value.   *)
RateAlways(bytes, d) == IF d > 0 THEN bytes \div d ELSE 0

Rate(bytes, d) == IF timed /\ d > 0 THEN bytes \div d ELSE 0

Conns(c, listed, proto) == Cardinality({ key \in CountedFor(c, listed) : key.proto = proto })

Totals(c) == IF c \in DOMAIN stats THEN [rx |-> stats[c].rx_total, tx |-> stats[c].tx_total]
             ELSE NoBytes

(* A client keeps its entry and totals when it has no flows any more.      *)
Updated(c, listed, d) ==
    [ rx_total  |-> Totals(c).rx + NewRx(c, listed),
      tx_total  |-> Totals(c).tx + NewTx(c, listed),
      rx_bps    |-> Rate(NewRx(c, listed), d),
      tx_bps    |-> Rate(NewTx(c, listed), d),
      conns_tcp |-> Conns(c, listed, "tcp"),
      conns_udp |-> Conns(c, listed, "udp") ]

(* The flows not listed are forgotten.                                     *)
Seen(listed) == [ key \in Counted(listed) |-> Moved(table[key]) ]

Update(listed, d) ==
    /\ stats' = [ c \in DOMAIN stats \cup { Client(table[key]) : key \in Counted(listed) } |->
                    Updated(c, listed, d) ]
    /\ last_flows' = Seen(listed)
    /\ timed' = TRUE

(* One scan, d seconds of wall clock after the one before.                 *)
Scan(listed, d) ==
    /\ scans < MaxScans
    /\ Update(listed, d)
    /\ scans' = scans + 1
    /\ fresh' = Nothing
    /\ credited' = [ key \in Keys |-> [ c \in Lan |->
                       IF key \in CountedFor(c, listed)
                       THEN Plus(credited[key][c], Delta(key)) ELSE credited[key][c] ] ]
    /\ missed' = (missed \/ listed # DOMAIN table)
    /\ UNCHANGED <<table, restarts, opens, carried>>

Listings == IF MayMiss THEN SUBSET (DOMAIN table) ELSE { DOMAIN table }

(* The process dies and is respawned: a new Accountant, the same kernel.   *)
Restart ==
    /\ restarts < MaxRestarts
    /\ restarts' = restarts + 1
    /\ last_flows' = [key \in {} |-> {}]
    /\ stats' = [c \in {} |-> {}]
    /\ timed' = FALSE
    /\ opens' = [key \in Keys |-> IF key \in DOMAIN table THEN 1 ELSE 0]
    /\ credited' = Nothing
    /\ missed' = FALSE
    /\ UNCHANGED <<table, scans, carried, fresh>>

Kernel ==
    \/ \E src, dst \in Ip, port \in Port, proto \in Proto : Open(src, dst, port, proto)
    \/ \E key \in DOMAIN table :
          Carry(key, 1, 0) \/ Carry(key, 0, 1) \/ Close(key)

Next ==
    \/ Kernel
    \/ \E listed \in Listings, d \in Gaps : Scan(listed, d)
    \/ Restart

Spec == Init /\ [][Next]_vars

-------------------------------------------------------------------------------
(* Properties.                                                             *)

Ledger == [Keys -> [Lan -> Bytes]]

PartialFunction(f, S, T) == DOMAIN f \subseteq S /\ f \in [DOMAIN f -> T]

(* Type correctness of the kernel table, the flows the accountant remembers *)
(* and the history.  A connection is filed under its own endpoints.        *)
TypeOK ==
    /\ PartialFunction(table, Keys, Connection)
    /\ \A key \in DOMAIN table : key.ends = {table[key].src, table[key].dst}
    /\ PartialFunction(last_flows, Keys, Bytes)
    /\ timed \in BOOLEAN
    /\ carried \in Ledger /\ fresh \in Ledger /\ credited \in Ledger

AtMost(x, y) == x.rx <= y.rx /\ x.tx <= y.tx

SumFor(ledger, c) == [ rx |-> SumFunction([key \in Keys |-> ledger[key][c].rx]),
                    tx |-> SumFunction([key \in Keys |-> ledger[key][c].tx]) ]

(* No byte is counted twice and none in the wrong direction: a client is   *)
(* never credited with more than its connections moved for it, whichever   *)
(* way they were opened, closed and reopened under the same key, between   *)
(* whichever scans, and although a restart counts every open connection    *)
(* from zero again.  Holds as long as every listing was complete: one that *)
(* lacks an open connection has it counted from zero at the next.          *)
NeverOvercredited ==
    ~missed => \A key \in Keys, c \in Lan : AtMost(credited[key][c], carried[key][c])

(* The same of the totals the API shows.                                   *)
TotalsBounded ==
    ~missed => \A c \in DOMAIN stats : AtMost(Totals(c), SumFor(carried, c))

(* What a step adds to the totals shown of a client. *)
Gained(c) == [rx |-> Totals(c)'.rx - Totals(c).rx, tx |-> Totals(c)'.tx - Totals(c).tx]

(* rate is bytes over d seconds, rounded down. *)
Averages(rate, bytes, d) == rate * d <= bytes /\ bytes < (rate + 1) * d

(* The rates shown after a scan are what the scan added to the totals over *)
(* the interval since the last one, and unless a listing missed an open    *)
(* connection no more than the client moved in that interval: neither the  *)
(* bytes before the daemon started nor those of the previous connection    *)
(* with the same key make a spike.  Without an interval, at the first scan *)
(* and when the clock has not advanced, they are 0.                        *)
RateIsTraffic ==
    [][scans' # scans => \A listed \in Listings, d \in Gaps : Scan(listed, d) =>
          \A c \in DOMAIN stats' :
              IF timed /\ d > 0
              THEN /\ Averages(stats'[c].rx_bps, Gained(c).rx, d)
                   /\ Averages(stats'[c].tx_bps, Gained(c).tx, d)
                   /\ ~missed => AtMost(Gained(c), SumFor(fresh, c))
              ELSE stats'[c].rx_bps = 0 /\ stats'[c].tx_bps = 0]_vars

(* A key that has had one connection since the start has been credited     *)
(* with exactly what that connection's counters read at the latest scan.   *)
ExactUnlessReused ==
    \A key \in DOMAIN table \cap DOMAIN last_flows :
        opens[key] = 1 /\ ~missed => credited[key][Client(table[key])] = last_flows[key]

(* "Total must grow by the new flow's bytes, never drop" (account.rs:156): *)
(* also when listings are incomplete, counters start over and clients move *)
(* between the two ends of a connection, the totals of a running process   *)
(* only grow.                                                              *)
TotalsNeverDrop ==
    [][restarts' = restarts =>
          \A c \in DOMAIN stats :
              /\ c \in DOMAIN stats'
              /\ stats[c].rx_total <= stats'[c].rx_total
              /\ stats[c].tx_total <= stats'[c].tx_total]_vars

(* What is still to be credited for an open connection was moved, and not  *)
(* yet credited: the strengthening NeverOvercredited needs.                *)
CreditInv ==
    /\ NeverOvercredited
    /\ \A key \in DOMAIN table : Attributed(table[key]) =>
          LET c == Client(table[key])
          IN  /\ AtMost(Moved(table[key]), carried[key][c])
              /\ ~missed => AtMost(Plus(credited[key][c], Delta(key)), carried[key][c])

(* Once there was a scan, what the next one will credit is fresh.          *)
FreshInv ==
    timed /\ ~missed => \A key \in DOMAIN table : Attributed(table[key]) =>
                AtMost(Delta(key), fresh[key][Client(table[key])])
===============================================================================
