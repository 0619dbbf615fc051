-------------------------- MODULE Accounting_proofs --------------------------
(***************************************************************************)
(* That no byte is credited twice, that the totals and rates are sums of   *)
(* what was credited, and that the summary adds up its clients, for every  *)
(* set of addresses, prefixes and bounds: what the runs of Accounting and  *)
(* Api show on a few connections.                                          *)
(*                                                                         *)
(* The argument follows one key.  What the next scan would credit for the  *)
(* open connection, Delta, was moved and is not yet credited.  A packet    *)
(* raises both sides alike; a scan turns Delta into credit and remembers   *)
(* the counters, so that the new Delta is zero; closing forgets only what  *)
(* is still due; a new connection starts at zero, below whatever was       *)
(* remembered under its key; and a restart takes all credit back.  The     *)
(* totals of an address are the sum of the credit over all keys, so each   *)
(* bound on a key's credit carries over to them.                           *)
(***************************************************************************)
EXTENDS Api, SequenceTheorems, Data_proofs

-------------------------------------------------------------------------------
(* Bytes and shares.                                                       *)

LEMMA ShareType ==
    ASSUME NEW conn \in Connection, NEW o \in Nat, NEW r \in Nat
    PROVE  Share(conn, o, r) \in Bytes
  BY DEF Share, Bytes, Connection

LEMMA MovedType ==
    ASSUME NEW conn \in Connection
    PROVE  Moved(conn) \in Bytes
  BY ShareType DEF Moved, Connection

LEMMA ClientType ==
    ASSUME NEW conn \in Connection, Attributed(conn)
    PROVE  Client(conn) \in Lan
  BY DEF Attributed, Client, Connection

(* A packet adds its share to what the connection moved, and does not      *)
(* change whose connection it is.                                          *)
LEMMA CarryAddsShare ==
    ASSUME NEW conn \in Connection, NEW o \in Nat, NEW r \in Nat
    PROVE  /\ Fed(conn, o, r) \in Connection
           /\ Fed(conn, o, r).src = conn.src /\ Fed(conn, o, r).dst = conn.dst
           /\ Attributed(Fed(conn, o, r)) <=> Attributed(conn)
           /\ Client(Fed(conn, o, r)) = Client(conn)
           /\ Moved(Fed(conn, o, r)) = Plus(Moved(conn), Share(conn, o, r))
  BY DEF Fed, Connection, Attributed, Client, Moved, Share, Plus

(* What is due for b bytes when p were remembered.                         *)
Due(b, p) == [rx |-> SaturatingSub(b.rx, p.rx), tx |-> SaturatingSub(b.tx, p.tx)]

LEMMA DueType ==
    ASSUME NEW b \in Bytes, NEW p \in Bytes
    PROVE  /\ Due(b, p) \in Bytes
           /\ AtMost(Due(b, p), b)
           /\ Due(b, b) = NoBytes
           /\ b = NoBytes => Due(b, p) = NoBytes
  BY DEF Due, Bytes, SaturatingSub, AtMost, NoBytes

LEMMA DueGrows ==
    ASSUME NEW b \in Bytes, NEW p \in Bytes, NEW more \in Bytes
    PROVE  AtMost(Due(Plus(b, more), p), Plus(Due(b, p), more))
  BY DEF Due, Bytes, SaturatingSub, AtMost, Plus

LEMMA DeltaIsDue ==
    ASSUME NEW key
    PROVE  Delta(key) = IF key \in DOMAIN last_flows
                        THEN Due(Moved(table[key]), last_flows[key])
                        ELSE Moved(table[key])
  BY DEF Delta, Due

(* The order on bytes.                                                     *)
LEMMA PlusType ==
    ASSUME NEW x \in Bytes, NEW y \in Bytes
    PROVE  Plus(x, y) \in Bytes
  BY DEF Plus, Bytes

LEMMA AtMostPlus ==
    ASSUME NEW x \in Bytes, NEW y \in Bytes, NEW z \in Bytes, NEW more \in Bytes,
           NEW d \in Bytes
    PROVE  /\ AtMost(x, y) => AtMost(x, Plus(y, more))
           /\ AtMost(x, y) => AtMost(Plus(x, more), Plus(y, more))
           /\ AtMost(Plus(z, x), y) /\ AtMost(d, Plus(x, more))
                => AtMost(Plus(z, d), Plus(y, more))
           /\ AtMost(x, y) => AtMost(Plus(x, NoBytes), y)
           /\ AtMost(x, y) => AtMost(Plus(NoBytes, x), y)
           /\ AtMost(d, Plus(x, more)) /\ AtMost(x, y) => AtMost(d, Plus(y, more))
  BY DEF AtMost, Plus, Bytes, NoBytes

LEMMA NoBytesType == NoBytes \in Bytes
  BY DEF NoBytes, Bytes

LEMMA NothingType == Nothing \in Ledger
  BY NoBytesType DEF Nothing, Ledger

LEMMA AddedType ==
    ASSUME NEW ledger \in Ledger, NEW key \in Keys, NEW c \in Lan, NEW bytes \in Bytes
    PROVE  /\ Added(ledger, key, c, bytes) \in Ledger
           /\ Added(ledger, key, c, bytes)[key][c] = Plus(ledger[key][c], bytes)
           /\ \A k \in Keys, d \in Lan :
                 k # key \/ d # c => Added(ledger, key, c, bytes)[k][d] = ledger[k][d]
  BY PlusType DEF Added, Ledger

LEMMA KeyType ==
    ASSUME NEW src \in Ip, NEW dst \in Ip, src # dst, NEW port \in Port, NEW proto \in Proto
    PROVE  KeyOfFlow(src, dst, port, proto) \in Keys
  <1>1. IsFiniteSet({src}) /\ Cardinality({src}) = 1
    BY FS_Singleton
  <1>a. dst \notin {src}
    OBVIOUS
  <1>b. Cardinality({src} \cup {dst}) = Cardinality({src}) + 1
    BY <1>1, <1>a, FS_AddElement
  <1>2. Cardinality({src} \cup {dst}) = 2
    BY <1>1, <1>b
  <1>3. {src} \cup {dst} = {src, dst}
    OBVIOUS
  <1>4. Cardinality({src, dst}) = 2
    BY <1>2, <1>3
  <1> QED BY <1>4 DEF KeyOfFlow, Keys
-------------------------------------------------------------------------------
(* Types.                                                                  *)

LEMMA DeltaType ==
    ASSUME TypeOK, NEW key \in DOMAIN table
    PROVE  /\ key \in Keys
           /\ table[key] \in Connection
           /\ Moved(table[key]) \in Bytes
           /\ Delta(key) \in Bytes
  <1>1. key \in Keys /\ table[key] \in Connection
    BY DEF TypeOK, PartialFunction
  <1>2. Moved(table[key]) \in Bytes
    BY <1>1, MovedType
  <1>3. key \in DOMAIN last_flows => last_flows[key] \in Bytes
    BY DEF TypeOK, PartialFunction
  <1>4. key \in DOMAIN last_flows => Due(Moved(table[key]), last_flows[key]) \in Bytes
    BY <1>2, <1>3, DueType
  <1> QED BY <1>1, <1>2, <1>4, DeltaIsDue

LEMMA LedgerEntry ==
    ASSUME NEW ledger \in Ledger, NEW key \in Keys, NEW c \in Lan
    PROVE  ledger[key][c] \in Bytes
  BY DEF Ledger

LEMMA OpenType ==
    ASSUME TypeOK,
           NEW src \in Ip, NEW dst \in Ip, NEW port \in Port, NEW proto \in Proto,
           Open(src, dst, port, proto)
    PROVE  TypeOK'
  <1> DEFINE key == KeyOfFlow(src, dst, port, proto)
             conn == [src |-> src, dst |-> dst, orig |-> 0, reply |-> 0]
  <1>1. key \in Keys /\ key.ends = {src, dst}
    BY KeyType DEF Open, KeyOfFlow
  <1>2. conn \in Connection
    BY DEF Connection
  <1>3. table' = [ k \in DOMAIN table \cup {key} |-> IF k = key THEN conn ELSE table[k] ]
    BY DEF Open
  <1> HIDE DEF key
  <1>4. PartialFunction(table, Keys, Connection)'
    BY <1>1, <1>2, <1>3 DEF TypeOK, PartialFunction
  <1>5. \A k \in DOMAIN table' : k.ends = {table'[k].src, table'[k].dst}
    BY <1>1, <1>3 DEF TypeOK
  <1> QED BY <1>4, <1>5 DEF TypeOK, PartialFunction, Open, accountant

LEMMA CarryType ==
    ASSUME TypeOK, NEW key \in DOMAIN table, NEW o \in Nat, NEW r \in Nat,
           Carry(key, o, r)
    PROVE  TypeOK'
  <1>1. key \in Keys /\ table[key] \in Connection
    BY DeltaType
  <1>2. Share(table[key], o, r) \in Bytes
    BY <1>1, ShareType
  <1>3. /\ Fed(table[key], o, r) \in Connection
        /\ Fed(table[key], o, r).src = table[key].src
        /\ Fed(table[key], o, r).dst = table[key].dst
    BY <1>1, CarryAddsShare
  <1>4. table' = [table EXCEPT ![key] = Fed(table[key], o, r)]
    BY DEF Carry
  <1>5. PartialFunction(table, Keys, Connection)'
    BY <1>3, <1>4 DEF TypeOK, PartialFunction
  <1>6. \A k \in DOMAIN table' : k.ends = {table'[k].src, table'[k].dst}
    BY <1>3, <1>4 DEF TypeOK, PartialFunction
  <1>7. carried' \in Ledger /\ fresh' \in Ledger
    <2>1. CASE Attributed(table[key])
      <3>1. Client(table[key]) \in Lan
        BY <1>1, <2>1, ClientType
      <3>2. /\ carried' = Added(carried, key, Client(table[key]), Share(table[key], o, r))
            /\ fresh' = Added(fresh, key, Client(table[key]), Share(table[key], o, r))
        BY <2>1 DEF Carry
      <3>3. carried \in Ledger /\ fresh \in Ledger
        BY DEF TypeOK
      <3> QED BY <1>1, <1>2, <3>1, <3>2, <3>3, AddedType
    <2>2. CASE ~Attributed(table[key])
      BY <2>2 DEF Carry, TypeOK
    <2> QED BY <2>1, <2>2
  <1> QED BY <1>5, <1>6, <1>7 DEF TypeOK, PartialFunction, Carry, accountant

LEMMA CloseType ==
    ASSUME TypeOK, NEW key \in DOMAIN table, Close(key)
    PROVE  TypeOK'
  <1>1. table' = [ k \in DOMAIN table \ {key} |-> table[k] ]
    BY DEF Close
  <1>2. PartialFunction(table, Keys, Connection)'
    BY <1>1 DEF TypeOK, PartialFunction
  <1>3. \A k \in DOMAIN table' : k.ends = {table'[k].src, table'[k].dst}
    BY <1>1 DEF TypeOK
  <1> QED BY <1>2, <1>3 DEF TypeOK, PartialFunction, Close, accountant, history

LEMMA ScanType ==
    ASSUME TypeOK, NEW listed \in Listings, NEW d \in Gaps, Scan(listed, d)
    PROVE  TypeOK'
  <1>1. listed \subseteq DOMAIN table
    BY DEF Listings
  <1>2. Counted(listed) \subseteq DOMAIN table
    BY <1>1 DEF Counted
  <1>3. \A key \in Counted(listed) : key \in Keys /\ Moved(table[key]) \in Bytes
    BY <1>2, DeltaType
  <1>4. last_flows' = [ key \in Counted(listed) |-> Moved(table[key]) ]
    BY DEF Scan, Update, Seen
  <1>5. PartialFunction(last_flows, Keys, Bytes)'
    BY <1>3, <1>4 DEF PartialFunction
  <1>6. credited' \in Ledger
    <2>1. ASSUME NEW key \in Keys, NEW c \in Lan
          PROVE  (IF key \in CountedFor(c, listed)
                  THEN Plus(credited[key][c], Delta(key)) ELSE credited[key][c]) \in Bytes
      <3>1. credited[key][c] \in Bytes
        BY LedgerEntry DEF TypeOK
      <3>2. key \in CountedFor(c, listed) => Delta(key) \in Bytes
        BY <1>2, DeltaType DEF CountedFor
      <3> QED BY <3>1, <3>2, PlusType
    <2> QED BY <2>1 DEF Scan, Ledger
  <1> QED BY <1>5, <1>6, NothingType DEF TypeOK, PartialFunction, Scan, Update

LEMMA RestartType ==
    ASSUME TypeOK, Restart
    PROVE  TypeOK'
  <1>1. PartialFunction(last_flows, Keys, Bytes)'
    BY DEF Restart, PartialFunction
  <1> QED BY <1>1, NothingType DEF TypeOK, PartialFunction, Restart

LEMMA FlowTypeInit == Init => TypeOK
  BY NothingType DEF Init, TypeOK, PartialFunction

LEMMA FlowTypeStep == TypeOK /\ [Next]_vars => TypeOK'
  <1> SUFFICES ASSUME TypeOK, [Next]_vars PROVE TypeOK'
    OBVIOUS
  <1>1. ASSUME NEW src \in Ip, NEW dst \in Ip, NEW port \in Port, NEW proto \in Proto,
               Open(src, dst, port, proto)
        PROVE  TypeOK'
    BY <1>1, OpenType
  <1>2. ASSUME NEW key \in DOMAIN table, Carry(key, 1, 0) \/ Carry(key, 0, 1)
        PROVE  TypeOK'
    BY <1>2, CarryType
  <1>3. ASSUME NEW key \in DOMAIN table, Close(key)
        PROVE  TypeOK'
    BY <1>3, CloseType
  <1>4. ASSUME NEW listed \in Listings, NEW d \in Gaps, Scan(listed, d)
        PROVE  TypeOK'
    BY <1>4, ScanType
  <1>5. CASE Restart
    BY <1>5, RestartType
  <1>6. CASE UNCHANGED vars
    BY <1>6 DEF TypeOK, PartialFunction, vars, accountant, history
  <1> QED BY <1>1, <1>2, <1>3, <1>4, <1>5, <1>6 DEF Next, Kernel

(* Type correctness of the kernel table, what the accountant remembers of  *)
(* it, and the history.                                                    *)
THEOREM TypeCorrect == Spec => []TypeOK
  BY FlowTypeInit, FlowTypeStep, PTL DEF Spec
-------------------------------------------------------------------------------
(* Credit.                                                                 *)

(* What CreditInv says of one open connection.                             *)
Covered(key, c) ==
    /\ AtMost(Moved(table[key]), carried[key][c])
    /\ AtMost(Plus(credited[key][c], Delta(key)), carried[key][c])

NoExcess == \A key \in Keys, c \in Lan : AtMost(credited[key][c], carried[key][c])

(* What holds while no listing has missed a connection.                    *)
Paid ==
    /\ NoExcess
    /\ \A key \in DOMAIN table : Attributed(table[key]) => Covered(key, Client(table[key]))

Solid == TypeOK /\ Paid

(* What holds even then.                                                   *)
Reported(key) == AtMost(Moved(table[key]), carried[key][Client(table[key])])

AllReported == \A key \in DOMAIN table : Attributed(table[key]) => Reported(key)

CreditIInv == TypeOK /\ AllReported /\ (~missed => Paid)

LEMMA CreditFacts ==
    ASSUME Solid
    PROVE  /\ TypeOK
           /\ \A key \in Keys, c \in Lan :
                 /\ credited[key][c] \in Bytes /\ carried[key][c] \in Bytes
                 /\ AtMost(credited[key][c], carried[key][c])
           /\ \A key \in DOMAIN table : Attributed(table[key]) =>
                 Client(table[key]) \in Lan /\ Covered(key, Client(table[key]))
  <1>1. \A key \in Keys, c \in Lan : credited[key][c] \in Bytes /\ carried[key][c] \in Bytes
    BY LedgerEntry DEF Solid, TypeOK
  <1>2. \A key \in DOMAIN table : Attributed(table[key]) => Client(table[key]) \in Lan
    BY DeltaType, ClientType DEF Solid
  <1> QED BY <1>1, <1>2 DEF Solid, Paid, NoExcess

(* To establish the invariant after a step, check the two parts.           *)
LEMMA CreditGoal ==
    ASSUME NoExcess',
           \A key \in DOMAIN table' :
              Attributed(table'[key]) => Covered(key, Client(table[key]))'
    PROVE  Paid'
  BY DEF Paid

LEMMA OpenCredit ==
    ASSUME Solid,
           NEW src \in Ip, NEW dst \in Ip, NEW port \in Port, NEW proto \in Proto,
           Open(src, dst, port, proto)
    PROVE  Paid'
  <1> DEFINE new == KeyOfFlow(src, dst, port, proto)
             conn == [src |-> src, dst |-> dst, orig |-> 0, reply |-> 0]
  <1>1. new \in Keys
    BY KeyType DEF Open
  <1>2. /\ table' = [ k \in DOMAIN table \cup {new} |-> IF k = new THEN conn ELSE table[k] ]
        /\ new \notin DOMAIN table
        /\ carried' = carried /\ credited' = credited /\ last_flows' = last_flows
    BY DEF Open, accountant
  <1>3. conn \in Connection /\ Moved(conn) = NoBytes
    BY DEF Connection, Moved, Share, NoBytes
  <1> HIDE DEF new, conn
  <1>4. NoExcess'
    BY <1>2 DEF Solid, Paid, NoExcess
  <1>5. ASSUME NEW key \in DOMAIN table', Attributed(table'[key])
        PROVE  Covered(key, Client(table[key]))'
    <2>1. CASE key = new
      <3>1. table'[key] = conn
        BY <1>2, <2>1
      <3> DEFINE c == Client(conn)
      <3>2. c \in Lan
        BY <1>3, <1>5, <3>1, ClientType
      <3>3. Delta(key)' = NoBytes
        <4>1. key \in DOMAIN last_flows => last_flows[key] \in Bytes
          BY DEF Solid, TypeOK, PartialFunction
        <4>2. key \in DOMAIN last_flows => Due(NoBytes, last_flows[key]) = NoBytes
          BY <4>1, NoBytesType, DueType
        <4> QED BY <1>2, <1>3, <3>1, <4>2 DEF Delta, Due
      <3>4. /\ credited[key][c] \in Bytes /\ carried[key][c] \in Bytes
            /\ AtMost(credited[key][c], carried[key][c])
        BY <1>1, <2>1, <3>2, CreditFacts
      <3>5. AtMost(Plus(credited[key][c], NoBytes), carried[key][c])
        BY <3>4, NoBytesType, AtMostPlus
      <3>6. AtMost(NoBytes, carried[key][c])
        BY <3>4 DEF AtMost, NoBytes, Bytes
      <3> QED BY <1>2, <1>3, <3>1, <3>3, <3>5, <3>6 DEF Covered
    <2>2. CASE key # new
      <3>1. key \in DOMAIN table /\ table'[key] = table[key]
        BY <1>2, <2>2
      <3>2. Covered(key, Client(table[key]))
        BY <1>5, <3>1, CreditFacts
      <3> QED BY <1>2, <3>1, <3>2 DEF Covered, Delta
    <2> QED BY <2>1, <2>2
  <1> QED BY <1>4, <1>5, CreditGoal

LEMMA CarryCredit ==
    ASSUME Solid, NEW key \in DOMAIN table, NEW o \in Nat, NEW r \in Nat,
           Carry(key, o, r)
    PROVE  Paid'
  <1> DEFINE conn == table[key]
             c == Client(conn)
             bytes == Share(conn, o, r)
  <1>1. /\ table' = [table EXCEPT ![key] = Fed(conn, o, r)]
        /\ credited' = credited /\ last_flows' = last_flows
        /\ Attributed(conn) => carried' = Added(carried, key, c, bytes)
        /\ ~Attributed(conn) => carried' = carried
    BY DEF Carry, accountant
  <1>2. /\ key \in Keys /\ conn \in Connection
        /\ Moved(conn) \in Bytes /\ Delta(key) \in Bytes
    BY DeltaType DEF Solid
  <1>3. bytes \in Bytes
    BY <1>2, ShareType
  <1>4. /\ Attributed(Fed(conn, o, r)) <=> Attributed(conn)
        /\ Client(Fed(conn, o, r)) = c
        /\ Moved(Fed(conn, o, r)) = Plus(Moved(conn), bytes)
    BY <1>2, CarryAddsShare
  <1>5. Attributed(conn) => c \in Lan /\ Covered(key, c)
    BY CreditFacts
  <1>6. carried \in Ledger
    BY DEF Solid, TypeOK
  <1>7. Attributed(conn) =>
          /\ carried'[key][c] = Plus(carried[key][c], bytes)
          /\ \A k \in Keys, d \in Lan : k # key \/ d # c => carried'[k][d] = carried[k][d]
    BY <1>1, <1>2, <1>3, <1>5, <1>6, AddedType
  <1> HIDE DEF conn, c, bytes
  <1>8. NoExcess'
    <2> SUFFICES ASSUME NEW k \in Keys, NEW d \in Lan
                 PROVE  AtMost(credited'[k][d], carried'[k][d])
      BY DEF NoExcess
    <2>1. /\ credited[k][d] \in Bytes /\ carried[k][d] \in Bytes
          /\ AtMost(credited[k][d], carried[k][d])
      BY CreditFacts
    <2>2. AtMost(credited[k][d], Plus(carried[k][d], bytes))
      BY <1>3, <2>1, AtMostPlus
    <2> QED BY <1>1, <1>7, <2>1, <2>2
  <1>9. ASSUME NEW k \in DOMAIN table', Attributed(table'[k])
        PROVE  Covered(k, Client(table[k]))'
    <2>1. CASE k = key
      <3>1. table'[key] = Fed(conn, o, r)
        BY <1>1
      <3>2. Attributed(conn) /\ c \in Lan /\ Covered(key, c)
        BY <1>4, <1>5, <1>9, <2>1, <3>1
      <3>3. credited[key][c] \in Bytes /\ carried[key][c] \in Bytes
        BY <1>2, <3>2, CreditFacts
      <3>4. AtMost(Plus(Moved(conn), bytes), Plus(carried[key][c], bytes))
        BY <1>2, <1>3, <3>2, <3>3, AtMostPlus DEF Covered, conn
      <3>5. Delta(key)' \in Bytes /\ AtMost(Delta(key)', Plus(Delta(key), bytes))
        <4>1. key \in DOMAIN last_flows => last_flows[key] \in Bytes
          BY DEF Solid, TypeOK, PartialFunction
        <4>2. Plus(Moved(conn), bytes) \in Bytes
          BY <1>2, <1>3, PlusType
        <4>3. CASE key \in DOMAIN last_flows
          <5>1. Delta(key) = Due(Moved(conn), last_flows[key])
            BY <4>3, DeltaIsDue DEF conn
          <5>2. Delta(key)' = Due(Plus(Moved(conn), bytes), last_flows[key])
            BY <1>1, <1>4, <3>1, <4>3 DEF Delta, Due
          <5>3. Due(Plus(Moved(conn), bytes), last_flows[key]) \in Bytes
            BY <4>1, <4>2, <4>3, DueType
          <5> QED BY <1>2, <1>3, <4>1, <4>3, <5>1, <5>2, <5>3, DueGrows
        <4>4. CASE key \notin DOMAIN last_flows
          <5>1. Delta(key) = Moved(conn)
            BY <4>4, DeltaIsDue DEF conn
          <5>2. Delta(key)' = Plus(Moved(conn), bytes)
            BY <1>1, <1>4, <3>1, <4>4 DEF Delta
          <5> QED BY <4>2, <5>1, <5>2 DEF AtMost, Bytes
        <4> QED BY <4>3, <4>4
      <3>6. AtMost(Plus(credited[key][c], Delta(key)'), Plus(carried[key][c], bytes))
        BY <1>2, <1>3, <3>2, <3>3, <3>5, AtMostPlus DEF Covered
      <3> QED BY <1>1, <1>4, <1>7, <2>1, <3>1, <3>2, <3>4, <3>6 DEF Covered
    <2>2. CASE k # key
      <3>1. k \in DOMAIN table /\ table'[k] = table[k]
        BY <1>1, <2>2
      <3>2. k \in Keys
        BY <3>1, DeltaType DEF Solid
      <3>3. Client(table[k]) \in Lan /\ Covered(k, Client(table[k]))
        BY <1>9, <3>1, CreditFacts
      <3>4. carried'[k][Client(table[k])] = carried[k][Client(table[k])]
        BY <1>1, <1>7, <2>2, <3>2, <3>3
      <3> QED BY <1>1, <3>1, <3>3, <3>4 DEF Covered, Delta
    <2> QED BY <2>1, <2>2
  <1> QED BY <1>8, <1>9, CreditGoal

LEMMA CloseCredit ==
    ASSUME Solid, NEW key \in DOMAIN table, Close(key)
    PROVE  Paid'
  <1>1. /\ table' = [ k \in DOMAIN table \ {key} |-> table[k] ]
        /\ carried' = carried /\ credited' = credited /\ last_flows' = last_flows
    BY DEF Close, accountant, history
  <1>2. NoExcess'
    BY <1>1 DEF Solid, Paid, NoExcess
  <1>3. ASSUME NEW k \in DOMAIN table', Attributed(table'[k])
        PROVE  Covered(k, Client(table[k]))'
    <2>1. k \in DOMAIN table /\ table'[k] = table[k]
      BY <1>1
    <2>2. Covered(k, Client(table[k]))
      BY <1>3, <2>1, CreditFacts
    <2> QED BY <1>1, <2>1, <2>2 DEF Covered, Delta
  <1> QED BY <1>2, <1>3, CreditGoal
(* A complete listing leaves nothing due: this is the step that fails when *)
(* a listing misses a connection, which then is counted from zero again.   *)
LEMMA ScanCredit ==
    ASSUME Solid, NEW d \in Gaps, NEW listed, listed = DOMAIN table, Scan(listed, d)
    PROVE  Paid'
  <1>1. listed = DOMAIN table
    OBVIOUS
  <1>2. /\ table' = table /\ carried' = carried
        /\ last_flows' = [ key \in Counted(listed) |-> Moved(table[key]) ]
        /\ credited' = [ key \in Keys |-> [ c \in Lan |->
                            IF key \in CountedFor(c, listed)
                            THEN Plus(credited[key][c], Delta(key)) ELSE credited[key][c] ] ]
    BY DEF Scan, Update, Seen
  <1>3. NoExcess'
    <2> SUFFICES ASSUME NEW key \in Keys, NEW c \in Lan
                 PROVE  AtMost(credited'[key][c], carried[key][c])
      BY <1>2 DEF NoExcess
    <2>1. CASE key \in CountedFor(c, listed)
      <3>1. key \in DOMAIN table /\ Attributed(table[key]) /\ Client(table[key]) = c
        BY <1>1, <2>1 DEF CountedFor, Counted
      <3>2. Covered(key, c)
        BY <3>1, CreditFacts
      <3> QED BY <1>2, <2>1, <3>2 DEF Covered
    <2>2. CASE key \notin CountedFor(c, listed)
      BY <1>2, <2>2, CreditFacts
    <2> QED BY <2>1, <2>2
  <1>4. ASSUME NEW key \in DOMAIN table', Attributed(table'[key])
        PROVE  Covered(key, Client(table[key]))'
    <2> DEFINE c == Client(table[key])
    <2>1. key \in DOMAIN table /\ Attributed(table[key])
      BY <1>2, <1>4
    <2>2. key \in Counted(listed) /\ key \in CountedFor(c, listed)
      BY <1>1, <2>1 DEF Counted, CountedFor
    <2>3. /\ key \in Keys /\ Moved(table[key]) \in Bytes /\ Delta(key) \in Bytes
          /\ c \in Lan /\ Covered(key, c)
      BY <2>1, DeltaType, CreditFacts DEF Solid
    <2>4. credited[key][c] \in Bytes /\ carried[key][c] \in Bytes
      BY <2>3, CreditFacts
    <2>5. credited'[key][c] = Plus(credited[key][c], Delta(key))
      BY <1>2, <2>2, <2>3
    <2>6. Delta(key)' = NoBytes
      <3>1. Delta(key)' = Due(Moved(table[key]), Moved(table[key]))
        BY <1>2, <2>2 DEF Delta, Due
      <3> QED BY <2>3, <3>1, DueType
    <2>7. Plus(credited[key][c], Delta(key)) \in Bytes
      BY <2>3, <2>4, PlusType
    <2>8. AtMost(Plus(Plus(credited[key][c], Delta(key)), NoBytes), carried[key][c])
      BY <2>3, <2>4, <2>7, NoBytesType, AtMostPlus DEF Covered
    <2> QED BY <1>2, <2>3, <2>5, <2>6, <2>8 DEF Covered
  <1> QED BY <1>3, <1>4, CreditGoal

LEMMA RestartCredit ==
    ASSUME TypeOK, AllReported, Restart
    PROVE  Paid'
  <1>1. /\ table' = table /\ carried' = carried /\ credited' = Nothing
        /\ last_flows' = [key \in {} |-> {}]
    BY DEF Restart
  <1>2. NoExcess'
    <2> SUFFICES ASSUME NEW key \in Keys, NEW c \in Lan
                 PROVE  AtMost(Nothing[key][c], carried[key][c])
      BY <1>1 DEF NoExcess
    <2>1. Nothing[key][c] = NoBytes
      BY DEF Nothing
    <2>2. carried[key][c] \in Bytes
      BY LedgerEntry DEF TypeOK
    <2> QED BY <2>1, <2>2 DEF AtMost, NoBytes, Bytes
  <1>3. ASSUME NEW key \in DOMAIN table', Attributed(table'[key])
        PROVE  Covered(key, Client(table[key]))'
    <2> DEFINE c == Client(table[key])
    <2>1. key \in DOMAIN table /\ Attributed(table[key])
      BY <1>1, <1>3
    <2>2. /\ key \in Keys /\ Moved(table[key]) \in Bytes /\ c \in Lan
          /\ AtMost(Moved(table[key]), carried[key][c])
      BY <2>1, DeltaType, ClientType DEF AllReported, Reported
    <2>3. carried[key][c] \in Bytes
      BY <2>2, LedgerEntry DEF TypeOK
    <2>4. credited'[key][c] = NoBytes
      BY <1>1, <2>2 DEF Nothing
    <2>5. Delta(key)' = Moved(table[key])
      BY <1>1 DEF Delta
    <2>6. AtMost(Plus(NoBytes, Moved(table[key])), carried[key][c])
      BY <2>2, <2>3, NoBytesType, AtMostPlus
    <2> QED BY <1>1, <2>2, <2>4, <2>5, <2>6 DEF Covered
  <1> QED BY <1>2, <1>3, CreditGoal

LEMMA CreditInit == Init => AllReported /\ Paid
  <1> SUFFICES ASSUME Init PROVE AllReported /\ Paid
    OBVIOUS
  <1>1. NoExcess
    BY DEF Init, NoExcess, Nothing, AtMost, NoBytes
  <1>2. DOMAIN table = {}
    BY DEF Init
  <1> QED BY <1>1, <1>2 DEF Paid, AllReported

-------------------------------------------------------------------------------
(* A packet adds as much to the history as to the counters.                *)
LEMMA CarryReported ==
    ASSUME TypeOK, AllReported, NEW key \in DOMAIN table,
           NEW o \in Nat, NEW r \in Nat, Carry(key, o, r)
    PROVE  AllReported'
  <1> DEFINE conn == table[key]
             c == Client(conn)
             bytes == Share(conn, o, r)
  <1>1. /\ table' = [table EXCEPT ![key] = Fed(conn, o, r)]
        /\ Attributed(conn) => carried' = Added(carried, key, c, bytes)
        /\ ~Attributed(conn) => carried' = carried
    BY DEF Carry
  <1>2. key \in Keys /\ conn \in Connection /\ Moved(conn) \in Bytes
    BY DeltaType
  <1>3. bytes \in Bytes
    BY <1>2, ShareType
  <1>4. /\ Attributed(Fed(conn, o, r)) <=> Attributed(conn)
        /\ Client(Fed(conn, o, r)) = c
        /\ Moved(Fed(conn, o, r)) = Plus(Moved(conn), bytes)
    BY <1>2, CarryAddsShare
  <1>5. Attributed(conn) => c \in Lan /\ carried[key][c] \in Bytes
    BY <1>2, ClientType, LedgerEntry DEF TypeOK
  <1>6. Attributed(conn) =>
          /\ carried'[key][c] = Plus(carried[key][c], bytes)
          /\ \A k \in Keys, d \in Lan : k # key \/ d # c => carried'[k][d] = carried[k][d]
    BY <1>1, <1>2, <1>3, <1>5, AddedType DEF TypeOK
  <1>7. Attributed(conn) => AtMost(Moved(conn), carried[key][c])
    BY DEF AllReported, Reported
  <1> HIDE DEF conn, c, bytes
  <1>8. ASSUME NEW k \in DOMAIN table', Attributed(table'[k])
        PROVE  Reported(k)'
    <2>1. CASE k = key
      <3>1. table'[key] = Fed(conn, o, r)
        BY <1>1
      <3>2. Attributed(conn)
        BY <1>4, <1>8, <2>1, <3>1
      <3>3. AtMost(Plus(Moved(conn), bytes), Plus(carried[key][c], bytes))
        BY <1>2, <1>3, <1>5, <1>7, <3>2, AtMostPlus
      <3> QED BY <1>4, <1>6, <2>1, <3>1, <3>2, <3>3 DEF Reported
    <2>2. CASE k # key
      <3>1. k \in DOMAIN table /\ table'[k] = table[k]
        BY <1>1, <2>2
      <3>2. k \in Keys /\ Client(table[k]) \in Lan /\ Reported(k)
        BY <1>8, <3>1, DeltaType, ClientType DEF AllReported
      <3>3. carried'[k][Client(table[k])] = carried[k][Client(table[k])]
        BY <1>1, <1>6, <2>2, <3>2
      <3> QED BY <3>1, <3>2, <3>3 DEF Reported
    <2> QED BY <2>1, <2>2
  <1> QED BY <1>8 DEF AllReported

LEMMA OpenReported ==
    ASSUME TypeOK, AllReported,
           NEW src \in Ip, NEW dst \in Ip, NEW port \in Port, NEW proto \in Proto,
           Open(src, dst, port, proto)
    PROVE  AllReported'
  <1> DEFINE new == KeyOfFlow(src, dst, port, proto)
             conn == [src |-> src, dst |-> dst, orig |-> 0, reply |-> 0]
  <1>1. new \in Keys
    BY KeyType DEF Open
  <1>2. /\ table' = [ k \in DOMAIN table \cup {new} |-> IF k = new THEN conn ELSE table[k] ]
        /\ new \notin DOMAIN table /\ carried' = carried
    BY DEF Open
  <1>3. conn \in Connection /\ Moved(conn) = NoBytes
    BY DEF Connection, Moved, Share, NoBytes
  <1> HIDE DEF new, conn
  <1>4. ASSUME NEW k \in DOMAIN table', Attributed(table'[k])
        PROVE  Reported(k)'
    <2>1. CASE k = new
      <3>1. table'[new] = conn
        BY <1>2
      <3>2. Client(conn) \in Lan
        BY <1>3, <1>4, <2>1, <3>1, ClientType
      <3>3. carried[new][Client(conn)] \in Bytes
        BY <1>1, <3>2, LedgerEntry DEF TypeOK
      <3>4. AtMost(NoBytes, carried[new][Client(conn)])
        BY <3>3 DEF AtMost, NoBytes, Bytes
      <3> QED BY <1>2, <1>3, <2>1, <3>1, <3>4 DEF Reported
    <2>2. CASE k # new
      <3>1. k \in DOMAIN table /\ table'[k] = table[k]
        BY <1>2, <2>2
      <3> QED BY <1>2, <1>4, <3>1 DEF AllReported, Reported
    <2> QED BY <2>1, <2>2
  <1> QED BY <1>4 DEF AllReported

-------------------------------------------------------------------------------
(* One step per action: while nothing was missed the credit lemmas apply,  *)
(* after a miss only AllReported is left, and a restart starts again.      *)
LEMMA CreditStep == CreditIInv /\ [Next]_vars => CreditIInv'
  <1> SUFFICES ASSUME CreditIInv, [Next]_vars PROVE CreditIInv'
    OBVIOUS
  <1>f. TypeOK /\ AllReported /\ TypeOK'
    BY FlowTypeStep DEF CreditIInv
  <1>s. ~missed => Solid
    BY DEF CreditIInv, Solid
  <1>1. ASSUME NEW src \in Ip, NEW dst \in Ip, NEW port \in Port, NEW proto \in Proto,
               Open(src, dst, port, proto)
        PROVE  CreditIInv'
    <2>1. missed' = missed
      BY <1>1 DEF Open
    <2>2. AllReported'
      BY <1>1, <1>f, OpenReported
    <2>3. ~missed => Paid'
      BY <1>1, <1>s, OpenCredit
    <2> QED BY <1>f, <2>1, <2>2, <2>3 DEF CreditIInv
  <1>2. ASSUME NEW key \in DOMAIN table, Carry(key, 1, 0) \/ Carry(key, 0, 1)
        PROVE  CreditIInv'
    <2>1. missed' = missed
      BY <1>2 DEF Carry
    <2>2. AllReported'
      BY <1>2, <1>f, CarryReported
    <2>3. ~missed => Paid'
      BY <1>2, <1>s, CarryCredit
    <2> QED BY <1>f, <2>1, <2>2, <2>3 DEF CreditIInv
  <1>3. ASSUME NEW key \in DOMAIN table, Close(key)
        PROVE  CreditIInv'
    <2>1. missed' = missed
      BY <1>3 DEF Close, history
    <2>2. AllReported'
      BY <1>3, <1>f DEF Close, history, AllReported, Reported
    <2>3. ~missed => Paid'
      BY <1>3, <1>s, CloseCredit
    <2> QED BY <1>f, <2>1, <2>2, <2>3 DEF CreditIInv
  <1>4. ASSUME NEW listed \in Listings, NEW d \in Gaps, Scan(listed, d)
        PROVE  CreditIInv'
    <2>1. ~missed' => ~missed /\ listed = DOMAIN table
      BY <1>4 DEF Scan
    <2>2. AllReported'
      BY <1>4, <1>f DEF Scan, AllReported, Reported
    <2>3. ~missed /\ listed = DOMAIN table => Paid'
      BY <1>4, <1>s, ScanCredit
    <2> QED BY <1>f, <2>1, <2>2, <2>3 DEF CreditIInv
  <1>5. CASE Restart
    <2>1. AllReported'
      BY <1>5, <1>f DEF Restart, AllReported, Reported
    <2>2. Paid'
      BY <1>5, <1>f, RestartCredit
    <2> QED BY <1>f, <2>1, <2>2 DEF CreditIInv
  <1>6. CASE UNCHANGED vars
    BY <1>6, <1>f DEF CreditIInv, AllReported, Reported, Paid, NoExcess, Covered, Delta,
                      vars, accountant, history
  <1> QED BY <1>1, <1>2, <1>3, <1>4, <1>5, <1>6 DEF Next, Kernel

LEMMA CreditAlways == Spec => []CreditIInv
  <1>1. Init => CreditIInv
    BY FlowTypeInit, CreditInit DEF CreditIInv
  <1> QED BY <1>1, CreditStep, PTL DEF Spec

(* No byte is counted twice (account.rs:44-100), for any number of         *)
(* clients, connections, scans and restarts, while listings are complete.  *)
THEOREM NoByteCountedTwice == Spec => []NeverOvercredited
  <1>1. CreditIInv => NeverOvercredited
    BY DEF CreditIInv, Paid, NoExcess, NeverOvercredited
  <1> QED BY <1>1, CreditAlways, PTL

(* What is credited and what is due never exceeds what was moved: the      *)
(* inductive invariant itself, in the form the run checks.                 *)
THEOREM CreditIsCovered == Spec => []CreditInv
  <1>1. CreditIInv => CreditInv
    BY DEF CreditIInv, Paid, NoExcess, NeverOvercredited, CreditInv, AllReported, Reported,
           Covered
  <1> QED BY <1>1, CreditAlways, PTL

-------------------------------------------------------------------------------
(* Freshness: what is due was moved since the previous scan.               *)

FreshFor(key) == AtMost(Delta(key), fresh[key][Client(table[key])])

LEMMA DeltaFresh ==
    ASSUME TypeOK, NEW key \in DOMAIN table, Attributed(table[key])
    PROVE  /\ key \in Keys /\ Delta(key) \in Bytes /\ Moved(table[key]) \in Bytes
           /\ Client(table[key]) \in Lan
           /\ fresh[key][Client(table[key])] \in Bytes
           /\ key \in DOMAIN last_flows => last_flows[key] \in Bytes
  <1>1. key \in Keys /\ Delta(key) \in Bytes /\ Moved(table[key]) \in Bytes
        /\ Client(table[key]) \in Lan
    BY DeltaType, ClientType
  <1> QED BY <1>1, LedgerEntry DEF TypeOK, PartialFunction

LEMMA OpenFresh ==
    ASSUME TypeOK, FreshInv,
           NEW src \in Ip, NEW dst \in Ip, NEW port \in Port, NEW proto \in Proto,
           Open(src, dst, port, proto)
    PROVE  FreshInv'
  <1> DEFINE new == KeyOfFlow(src, dst, port, proto)
             conn == [src |-> src, dst |-> dst, orig |-> 0, reply |-> 0]
  <1>1. /\ table' = [ k \in DOMAIN table \cup {new} |-> IF k = new THEN conn ELSE table[k] ]
        /\ new \notin DOMAIN table
        /\ fresh' = fresh /\ last_flows' = last_flows /\ timed' = timed /\ missed' = missed
    BY DEF Open, accountant
  <1>2. conn \in Connection /\ Moved(conn) = NoBytes
    BY DEF Connection, Moved, Share, NoBytes
  <1>3. new \in Keys /\ fresh \in Ledger
    BY KeyType DEF Open, TypeOK
  <1> HIDE DEF new, conn
  <1>4. ASSUME timed, ~missed, NEW key \in DOMAIN table', Attributed(table'[key])
        PROVE  FreshFor(key)'
    <2>1. CASE key = new
      <3>1. table'[key] = conn
        BY <1>1, <2>1
      <3>2. Client(conn) \in Lan
        BY <1>2, <1>4, <3>1, ClientType
      <3>2a. fresh'[key][Client(conn)] \in Bytes
        BY <1>1, <1>3, <2>1, <3>2, LedgerEntry
      <3>3. key \in DOMAIN last_flows => last_flows[key] \in Bytes
        BY DEF TypeOK, PartialFunction
      <3>4. key \in DOMAIN last_flows => Due(NoBytes, last_flows[key]) = NoBytes
        BY <3>3, NoBytesType, DueType
      <3>5. Delta(key)' = NoBytes
        BY <1>1, <1>2, <3>1, <3>4 DEF Delta, Due
      <3>6. AtMost(NoBytes, fresh'[key][Client(conn)])
        BY <1>1, <3>2a DEF AtMost, NoBytes, Bytes
      <3> QED BY <1>1, <3>1, <3>5, <3>6 DEF FreshFor
    <2>2. CASE key # new
      <3>1. key \in DOMAIN table /\ table'[key] = table[key]
        BY <1>1, <2>2
      <3> QED BY <1>1, <1>4, <3>1 DEF FreshInv, FreshFor, Delta
    <2> QED BY <2>1, <2>2
  <1> QED BY <1>1, <1>4 DEF FreshInv, FreshFor

LEMMA CarryFresh ==
    ASSUME TypeOK, FreshInv, NEW key \in DOMAIN table,
           NEW o \in Nat, NEW r \in Nat, Carry(key, o, r)
    PROVE  FreshInv'
  <1> DEFINE conn == table[key]
             c == Client(conn)
             bytes == Share(conn, o, r)
  <1>1. /\ table' = [table EXCEPT ![key] = Fed(conn, o, r)]
        /\ last_flows' = last_flows /\ timed' = timed /\ missed' = missed
        /\ Attributed(conn) => fresh' = Added(fresh, key, c, bytes)
        /\ ~Attributed(conn) => fresh' = fresh
    BY DEF Carry, accountant
  <1>2. key \in Keys /\ conn \in Connection /\ Moved(conn) \in Bytes
    BY DeltaType
  <1>3. bytes \in Bytes
    BY <1>2, ShareType
  <1>4. /\ Attributed(Fed(conn, o, r)) <=> Attributed(conn)
        /\ Client(Fed(conn, o, r)) = c
        /\ Moved(Fed(conn, o, r)) = Plus(Moved(conn), bytes)
    BY <1>2, CarryAddsShare
  <1>5. Attributed(conn) => c \in Lan /\ Delta(key) \in Bytes /\ fresh[key][c] \in Bytes
    BY DeltaFresh
  <1>6. Attributed(conn) =>
          /\ fresh'[key][c] = Plus(fresh[key][c], bytes)
          /\ \A k \in Keys, d \in Lan : k # key \/ d # c => fresh'[k][d] = fresh[k][d]
    <2>1. fresh \in Ledger
      BY DEF TypeOK
    <2> QED BY <1>1, <1>2, <1>3, <1>5, <2>1, AddedType
  <1>7. ASSUME timed, ~missed, Attributed(conn)
        PROVE  AtMost(Delta(key), fresh[key][c])
    BY <1>7 DEF FreshInv
  <1>8. key \in DOMAIN last_flows => last_flows[key] \in Bytes
    BY DEF TypeOK, PartialFunction
  <1>9. Delta(key) = IF key \in DOMAIN last_flows THEN Due(Moved(conn), last_flows[key])
                     ELSE Moved(conn)
    BY DeltaIsDue
  <1> HIDE DEF conn, c, bytes
  <1>10. ASSUME timed, ~missed, NEW k \in DOMAIN table', Attributed(table'[k])
         PROVE  FreshFor(k)'
    <2>1. CASE k = key
      <3>1. table'[key] = Fed(conn, o, r)
        BY <1>1
      <3>2. Attributed(conn)
        BY <1>4, <1>10, <2>1, <3>1
      <3>3. AtMost(Delta(key)', Plus(Delta(key), bytes)) /\ Delta(key)' \in Bytes
        <4>1. Plus(Moved(conn), bytes) \in Bytes
          BY <1>2, <1>3, PlusType
        <4>2. CASE key \in DOMAIN last_flows
          <5>1. Delta(key)' = Due(Plus(Moved(conn), bytes), last_flows[key])
            BY <1>1, <1>4, <3>1, <4>2 DEF Delta, Due
          <5>2. Due(Plus(Moved(conn), bytes), last_flows[key]) \in Bytes
            BY <1>8, <4>1, <4>2, DueType
          <5> QED BY <1>2, <1>3, <1>8, <1>9, <4>2, <5>1, <5>2, DueGrows
        <4>3. CASE key \notin DOMAIN last_flows
          <5>1. Delta(key)' = Plus(Moved(conn), bytes)
            BY <1>1, <1>4, <3>1, <4>3 DEF Delta
          <5> QED BY <1>9, <4>1, <4>3, <5>1 DEF AtMost, Bytes
        <4> QED BY <4>2, <4>3
      <3>4. AtMost(Delta(key)', Plus(fresh[key][c], bytes))
        BY <1>3, <1>5, <1>7, <1>10, <3>2, <3>3, AtMostPlus
      <3> QED BY <1>4, <1>6, <2>1, <3>1, <3>2, <3>4 DEF FreshFor
    <2>2. CASE k # key
      <3>1. k \in DOMAIN table /\ table'[k] = table[k]
        BY <1>1, <2>2
      <3>2. k \in Keys /\ Client(table[k]) \in Lan /\ FreshFor(k)
        BY <1>10, <3>1, DeltaFresh DEF FreshInv, FreshFor
      <3>3. fresh'[k][Client(table[k])] = fresh[k][Client(table[k])]
        BY <1>1, <1>6, <2>2, <3>2
      <3> QED BY <1>1, <3>1, <3>2, <3>3 DEF FreshFor, Delta
    <2> QED BY <2>1, <2>2
  <1> QED BY <1>1, <1>10 DEF FreshInv, FreshFor

(* A complete listing leaves nothing due.                                  *)
LEMMA ScanFresh ==
    ASSUME TypeOK, NEW d \in Gaps, NEW listed \in Listings, Scan(listed, d)
    PROVE  FreshInv'
  <1>1. /\ table' = table /\ fresh' = Nothing
        /\ last_flows' = [ key \in Counted(listed) |-> Moved(table[key]) ]
        /\ ~missed' => listed = DOMAIN table
    BY DEF Scan, Update, Seen
  <1>2. ASSUME ~missed', NEW key \in DOMAIN table', Attributed(table'[key])
        PROVE  FreshFor(key)'
    <2>1. /\ key \in Keys /\ Moved(table[key]) \in Bytes /\ Client(table[key]) \in Lan
      BY <1>1, <1>2, DeltaFresh
    <2>2. key \in Counted(listed)
      BY <1>1, <1>2 DEF Counted
    <2>3. Delta(key)' = NoBytes
      <3>1. Delta(key)' = Due(Moved(table[key]), Moved(table[key]))
        BY <1>1, <2>2 DEF Delta, Due
      <3> QED BY <2>1, <3>1, DueType
    <2>4. fresh'[key][Client(table[key])] = NoBytes
      BY <1>1, <2>1 DEF Nothing
    <2> QED BY <1>1, <2>3, <2>4 DEF FreshFor, AtMost, NoBytes
  <1> QED BY <1>2 DEF FreshInv, FreshFor

(* Between two complete listings (account.rs:44-100), what the next scan   *)
(* will count for a client is traffic of that interval only.               *)
THEOREM OnlyFreshIsDue == Spec => []FreshInv
  <1> DEFINE Inv == TypeOK /\ FreshInv
  <1>1. Init => Inv
    BY FlowTypeInit DEF Init, FreshInv
  <1>2. Inv /\ [Next]_vars => Inv'
    <2> SUFFICES ASSUME TypeOK, FreshInv, [Next]_vars PROVE FreshInv'
      BY FlowTypeStep
    <2>1. ASSUME NEW src \in Ip, NEW dst \in Ip, NEW port \in Port, NEW proto \in Proto,
                 Open(src, dst, port, proto)
          PROVE  FreshInv'
      BY <2>1, OpenFresh
    <2>2. ASSUME NEW key \in DOMAIN table, Carry(key, 1, 0) \/ Carry(key, 0, 1)
          PROVE  FreshInv'
      BY <2>2, CarryFresh
    <2>3. ASSUME NEW key \in DOMAIN table, Close(key)
          PROVE  FreshInv'
      <3>1. table' = [ k \in DOMAIN table \ {key} |-> table[k] ]
        BY <2>3 DEF Close
      <3> QED BY <2>3, <3>1 DEF Close, accountant, history, FreshInv, Delta
    <2>4. ASSUME NEW listed \in Listings, NEW d \in Gaps, Scan(listed, d)
          PROVE  FreshInv'
      BY <2>4, ScanFresh
    <2>5. CASE Restart
      BY <2>5 DEF Restart, FreshInv
    <2>6. CASE UNCHANGED vars
      BY <2>6 DEF vars, accountant, history, FreshInv, Delta
    <2> QED BY <2>1, <2>2, <2>3, <2>4, <2>5, <2>6 DEF Next, Kernel
  <1>3. Inv => FreshInv
    OBVIOUS
  <1> QED BY <1>1, <1>2, <1>3, PTL DEF Spec

-------------------------------------------------------------------------------
(* Exactness: a key that has had one connection only.                      *)

Unused(key) ==
    /\ key \notin DOMAIN table /\ key \notin DOMAIN last_flows
    /\ \A c \in Lan : credited[key][c] = NoBytes

(* What the accountant has of the only connection a key has had.           *)
Exact(key) ==
    IF key \in DOMAIN last_flows
    THEN /\ Attributed(table[key])
         /\ credited[key][Client(table[key])] = last_flows[key]
         /\ AtMost(last_flows[key], Moved(table[key]))
    ELSE Attributed(table[key]) => credited[key][Client(table[key])] = NoBytes

UsedOnce == opens \in [Keys -> Nat] /\ \A key \in Keys : opens[key] = 0 => Unused(key)

AllExact == \A key \in DOMAIN table : opens[key] = 1 => Exact(key)

ExactIInv == TypeOK /\ UsedOnce /\ (~missed => AllExact)

(* Counting what is due brings the credit to what the counters read.       *)
LEMMA DueCompletes ==
    ASSUME NEW b \in Bytes, NEW p \in Bytes
    PROVE  /\ AtMost(p, b) => Plus(p, Due(b, p)) = b
           /\ Plus(NoBytes, b) = b
  BY DEF Plus, Due, SaturatingSub, AtMost, Bytes, NoBytes

LEMMA AtMostGrows ==
    ASSUME NEW x \in Bytes, NEW y \in Bytes, NEW more \in Bytes
    PROVE  AtMost(x, x) /\ (AtMost(x, y) => AtMost(x, Plus(y, more)))
  BY DEF AtMost, Plus, Bytes

LEMMA ExactInit == Init => ExactIInv
  <1> SUFFICES ASSUME Init PROVE ExactIInv
    OBVIOUS
  <1>1. UsedOnce
    BY DEF Init, UsedOnce, Unused, Nothing
  <1>2. AllExact
    BY DEF Init, AllExact
  <1> QED BY <1>1, <1>2, FlowTypeInit DEF ExactIInv

LEMMA OpenExact ==
    ASSUME ExactIInv,
           NEW src \in Ip, NEW dst \in Ip, NEW port \in Port, NEW proto \in Proto,
           Open(src, dst, port, proto)
    PROVE  UsedOnce' /\ (~missed' => AllExact')
  <1> DEFINE new == KeyOfFlow(src, dst, port, proto)
             conn == [src |-> src, dst |-> dst, orig |-> 0, reply |-> 0]
  <1>1. new \in Keys
    BY KeyType DEF Open
  <1>2. /\ table' = [ k \in DOMAIN table \cup {new} |-> IF k = new THEN conn ELSE table[k] ]
        /\ opens' = [opens EXCEPT ![new] = @ + 1]
        /\ last_flows' = last_flows /\ credited' = credited /\ missed' = missed
    BY DEF Open, accountant
  <1>3. conn \in Connection
    BY DEF Connection
  <1>4. opens \in [Keys -> Nat] /\ \A key \in Keys : opens[key] = 0 => Unused(key)
    BY DEF ExactIInv, UsedOnce
  <1> HIDE DEF new, conn
  <1>5. /\ opens' \in [Keys -> Nat] /\ opens'[new] = opens[new] + 1
        /\ \A key \in Keys : key # new => opens'[key] = opens[key]
    BY <1>1, <1>2, <1>4
  <1>6. UsedOnce'
    <2>1. ASSUME NEW key \in Keys, opens'[key] = 0
          PROVE  Unused(key)'
      <3>1. key # new /\ opens[key] = 0
        BY <1>1, <1>4, <1>5, <2>1
      <3> QED BY <1>2, <1>4, <3>1 DEF Unused
    <2> QED BY <1>5, <2>1 DEF UsedOnce
  <1>7. ASSUME ~missed', NEW key \in DOMAIN table', opens'[key] = 1
        PROVE  Exact(key)'
    <2>1. CASE key = new
      <3>1. Unused(new)
        BY <1>1, <1>4, <1>5, <1>7, <2>1
      <3>2. table'[new] = conn
        BY <1>2
      <3>3. Attributed(conn) => Client(conn) \in Lan
        BY <1>3, ClientType
      <3> QED BY <1>2, <2>1, <3>1, <3>2, <3>3 DEF Unused, Exact
    <2>2. CASE key # new
      <3>1. key \in DOMAIN table /\ table'[key] = table[key] /\ key \in Keys
        BY <1>2, <1>7, <2>2 DEF ExactIInv, TypeOK, PartialFunction
      <3>2. Exact(key)
        BY <1>2, <1>5, <1>7, <2>2, <3>1 DEF ExactIInv, AllExact
      <3> QED BY <1>2, <3>1, <3>2 DEF Exact
    <2> QED BY <2>1, <2>2
  <1> QED BY <1>6, <1>7 DEF AllExact

LEMMA CarryExact ==
    ASSUME ExactIInv, NEW key \in DOMAIN table,
           NEW o \in Nat, NEW r \in Nat, Carry(key, o, r)
    PROVE  UsedOnce' /\ (~missed' => AllExact')
  <1> DEFINE conn == table[key]
             bytes == Share(conn, o, r)
  <1>0. TypeOK
    BY DEF ExactIInv
  <1>1. /\ table' = [table EXCEPT ![key] = Fed(conn, o, r)]
        /\ opens' = opens /\ last_flows' = last_flows
        /\ credited' = credited /\ missed' = missed
    BY DEF Carry, accountant
  <1>2. key \in Keys /\ conn \in Connection /\ Moved(conn) \in Bytes
    BY <1>0, DeltaType
  <1>3. bytes \in Bytes
    BY <1>2, ShareType
  <1>4. /\ Attributed(Fed(conn, o, r)) <=> Attributed(conn)
        /\ Client(Fed(conn, o, r)) = Client(conn)
        /\ Moved(Fed(conn, o, r)) = Plus(Moved(conn), bytes)
    BY <1>2, CarryAddsShare
  <1>5. key \in DOMAIN last_flows => last_flows[key] \in Bytes
    BY <1>0 DEF TypeOK, PartialFunction
  <1>6. DOMAIN table' = DOMAIN table /\ table'[key] = Fed(conn, o, r)
        /\ \A k \in DOMAIN table : k # key => table'[k] = table[k]
    BY <1>1
  <1>7. UsedOnce'
    BY <1>1, <1>6 DEF ExactIInv, UsedOnce, Unused
  <1> HIDE DEF conn, bytes
  <1>8. ASSUME ~missed', NEW k \in DOMAIN table', opens'[k] = 1
        PROVE  Exact(k)'
    <2>1. Exact(k)
      BY <1>1, <1>6, <1>8 DEF ExactIInv, AllExact
    <2>2. CASE k # key
      BY <1>1, <1>6, <1>8, <2>1, <2>2 DEF Exact
    <2>3. CASE k = key
      <3>1. table'[k] = Fed(conn, o, r)
        BY <1>6, <2>3
      <3>2. CASE key \in DOMAIN last_flows
        <4>1. /\ Attributed(conn) /\ credited[key][Client(conn)] = last_flows[key]
              /\ AtMost(last_flows[key], Moved(conn))
          BY <2>1, <2>3, <3>2 DEF Exact, conn
        <4>2. AtMost(last_flows[key], Plus(Moved(conn), bytes))
          BY <1>2, <1>3, <1>5, <3>2, <4>1, AtMostGrows
        <4> QED BY <1>1, <1>4, <2>3, <3>1, <3>2, <4>1, <4>2 DEF Exact
      <3>3. CASE key \notin DOMAIN last_flows
        <4>1. Attributed(conn) => credited[key][Client(conn)] = NoBytes
          BY <2>1, <2>3, <3>3 DEF Exact, conn
        <4> QED BY <1>1, <1>4, <2>3, <3>1, <3>3, <4>1 DEF Exact
      <3> QED BY <3>2, <3>3
    <2> QED BY <2>2, <2>3
  <1> QED BY <1>7, <1>8 DEF AllExact

LEMMA ScanExact ==
    ASSUME ExactIInv, NEW d \in Gaps, NEW listed \in Listings, Scan(listed, d)
    PROVE  UsedOnce' /\ (~missed' => AllExact')
  <1>0. TypeOK
    BY DEF ExactIInv
  <1>1. /\ table' = table /\ opens' = opens
        /\ last_flows' = [ key \in Counted(listed) |-> Moved(table[key]) ]
        /\ ~missed' => ~missed /\ listed = DOMAIN table
        /\ credited' = [ key \in Keys |-> [ c \in Lan |->
                           IF key \in CountedFor(c, listed)
                           THEN Plus(credited[key][c], Delta(key)) ELSE credited[key][c] ] ]
    BY DEF Scan, Update, Seen
  <1>2. Counted(listed) \subseteq DOMAIN table
    BY DEF Counted, Listings
  <1>3. UsedOnce'
    <2>1. ASSUME NEW key \in Keys, opens[key] = 0
          PROVE  Unused(key)'
      <3>1. Unused(key)
        BY <2>1 DEF ExactIInv, UsedOnce
      <3>2. key \notin Counted(listed)
        BY <1>2, <3>1 DEF Unused
      <3>3. \A c \in Lan : credited'[key][c] = credited[key][c]
        BY <1>1, <3>2 DEF CountedFor
      <3> QED BY <1>1, <3>1, <3>2, <3>3 DEF Unused
    <2> QED BY <1>1, <2>1 DEF ExactIInv, UsedOnce
  <1>4. ASSUME ~missed', NEW key \in DOMAIN table', opens'[key] = 1
        PROVE  Exact(key)'
    <2>1. key \in DOMAIN table /\ Exact(key) /\ listed = DOMAIN table
      BY <1>1, <1>4 DEF ExactIInv, AllExact
    <2>2. CASE ~Attributed(table[key])
      <3>1. key \notin Counted(listed)
        BY <2>2 DEF Counted
      <3> QED BY <1>1, <2>2, <3>1 DEF Exact
    <2>3. CASE Attributed(table[key])
      <3> DEFINE c == Client(table[key])
      <3>1. key \in Keys /\ c \in Lan /\ Moved(table[key]) \in Bytes
        BY <1>0, <2>1, <2>3, DeltaType, ClientType
      <3>2. key \in CountedFor(c, listed) /\ key \in Counted(listed)
        BY <2>1, <2>3 DEF CountedFor, Counted
      <3> HIDE DEF c
      <3>3. credited'[key][c] = Plus(credited[key][c], Delta(key))
        BY <1>1, <3>1, <3>2
      <3>4. Plus(credited[key][c], Delta(key)) = Moved(table[key])
        <4>1. CASE key \in DOMAIN last_flows
          <5>1. /\ credited[key][c] = last_flows[key]
                /\ AtMost(last_flows[key], Moved(table[key]))
            BY <2>1, <4>1 DEF Exact, c
          <5>2. last_flows[key] \in Bytes
            BY <1>0, <4>1 DEF TypeOK, PartialFunction
          <5>3. Delta(key) = Due(Moved(table[key]), last_flows[key])
            BY <4>1, DeltaIsDue
          <5> QED BY <3>1, <5>1, <5>2, <5>3, DueCompletes
        <4>2. CASE key \notin DOMAIN last_flows
          <5>1. credited[key][c] = NoBytes
            BY <2>1, <2>3, <4>2 DEF Exact, c
          <5>2. Delta(key) = Moved(table[key])
            BY <4>2, DeltaIsDue
          <5> QED BY <3>1, <5>1, <5>2, DueCompletes
        <4> QED BY <4>1, <4>2
      <3>5. AtMost(Moved(table[key]), Moved(table[key]))
        BY <3>1, AtMostGrows
      <3>6. last_flows'[key] = Moved(table[key]) /\ key \in DOMAIN last_flows'
        BY <1>1, <3>2
      <3> QED BY <1>1, <2>3, <3>3, <3>4, <3>5, <3>6 DEF Exact, c
    <2> QED BY <2>2, <2>3
  <1> QED BY <1>3, <1>4 DEF AllExact

LEMMA RestartExact ==
    ASSUME ExactIInv, Restart
    PROVE  UsedOnce' /\ (~missed' => AllExact')
  <1>1. /\ table' = table /\ DOMAIN last_flows' = {} /\ credited' = Nothing
        /\ opens' = [key \in Keys |-> IF key \in DOMAIN table THEN 1 ELSE 0]
    BY DEF Restart
  <1>2. \A key \in Keys, c \in Lan : credited'[key][c] = NoBytes
    BY <1>1 DEF Nothing
  <1>3. UsedOnce'
    BY <1>1, <1>2 DEF UsedOnce, Unused
  <1>4. ASSUME NEW key \in DOMAIN table, Attributed(table[key])
        PROVE  key \in Keys /\ Client(table[key]) \in Lan
    BY <1>4, DeltaType, ClientType DEF ExactIInv
  <1>5. AllExact'
    BY <1>1, <1>2, <1>4 DEF AllExact, Exact
  <1> QED BY <1>3, <1>5

(* While no key has a second connection (opens[key] = 1), what a client is *)
(* credited with is to the byte what the counters read at the last scan    *)
(* (account.rs:66-81): the first scan counts them from zero and each later *)
(* one adds the difference.  A key never opened is neither remembered nor  *)
(* credited, so the first connection under it starts from nothing.         *)
THEOREM OneConnectionIsExact == Spec => []ExactUnlessReused
  <1>1. Init => ExactIInv
    BY ExactInit
  <1>2. ExactIInv /\ [Next]_vars => ExactIInv'
    <2> SUFFICES ASSUME ExactIInv, [Next]_vars PROVE UsedOnce' /\ (~missed' => AllExact')
      BY FlowTypeStep DEF ExactIInv
    <2>1. ASSUME NEW src \in Ip, NEW dst \in Ip, NEW port \in Port, NEW proto \in Proto,
                 Open(src, dst, port, proto)
          PROVE  UsedOnce' /\ (~missed' => AllExact')
      BY <2>1, OpenExact
    <2>2. ASSUME NEW key \in DOMAIN table, Carry(key, 1, 0) \/ Carry(key, 0, 1)
          PROVE  UsedOnce' /\ (~missed' => AllExact')
      BY <2>2, CarryExact
    <2>3. ASSUME NEW key \in DOMAIN table, Close(key)
          PROVE  UsedOnce' /\ (~missed' => AllExact')
      <3>1. table' = [ k \in DOMAIN table \ {key} |-> table[k] ]
        BY <2>3 DEF Close
      <3>2. UsedOnce'
        BY <2>3, <3>1 DEF Close, accountant, history, ExactIInv, UsedOnce, Unused
      <3>3. ~missed' => AllExact'
        BY <2>3, <3>1 DEF Close, accountant, history, ExactIInv, AllExact, Exact
      <3> QED BY <3>2, <3>3
    <2>4. ASSUME NEW listed \in Listings, NEW d \in Gaps, Scan(listed, d)
          PROVE  UsedOnce' /\ (~missed' => AllExact')
      BY <2>4, ScanExact
    <2>5. CASE Restart
      BY <2>5, RestartExact
    <2>6. CASE UNCHANGED vars
      BY <2>6 DEF vars, accountant, history, ExactIInv, UsedOnce, Unused, AllExact, Exact
    <2> QED BY <2>1, <2>2, <2>3, <2>4, <2>5, <2>6 DEF Next, Kernel
  <1>3. ExactIInv => ExactUnlessReused
    BY DEF ExactIInv, AllExact, Exact, ExactUnlessReused, TypeOK, PartialFunction
  <1> QED BY <1>1, <1>2, <1>3, PTL DEF Spec

-------------------------------------------------------------------------------
(* Totals: what a client is shown is the sum over its connections.         *)

LEMMA KeysFinite == IsFiniteSet(Keys)
  <1> DEFINE Ends == { ends \in SUBSET Ip : Cardinality(ends) = 2 }
             P == (Ends \X Port) \X Proto
             f == [ p \in P |-> [ends |-> p[1][1], port |-> p[1][2], proto |-> p[2]] ]
  <1>1. IsFiniteSet(Ends)
    <2>1. IsFiniteSet(SUBSET Ip) /\ Ends \in SUBSET SUBSET Ip
      BY FS_SUBSET, AccountingAssumption
    <2> QED BY <2>1, FS_Subset
  <1> HIDE DEF Ends
  <1>2. IsFiniteSet(Ends \X Port)
    BY <1>1, FS_Product, AccountingAssumption
  <1>3. IsFiniteSet(P)
    BY <1>2, FS_Product, AccountingAssumption
  <1>4. Keys = [ends : Ends, port : Port, proto : Proto]
    BY DEF Keys, Ends
  <1>5. f \in [P -> Keys]
    BY <1>4
  <1>6. ASSUME NEW key \in Keys
        PROVE  \E p \in P : f[p] = key
    <2> DEFINE p == <<<<key.ends, key.port>>, key.proto>>
    <2>1. p \in P
      BY <1>4
    <2>2. f[p] = key
      BY <1>4, <2>1
    <2> QED BY <2>1, <2>2
  <1> HIDE DEF f, P
  <1>7. f \in Surjection(P, Keys)
    BY <1>5, <1>6 DEF Surjection
  <1> QED BY <1>3, <1>7, FS_Surjection

LEMMA SumFunctionIs ==
    ASSUME NEW f
    PROVE  SumFunction(f) = SumFunctionOnSet(f, DOMAIN f)
  BY DEF SumFunction

(* The sum of a ledger's entries for one client.                           *)
LEMMA SumType ==
    ASSUME NEW ledger \in Ledger, NEW c \in Lan
    PROVE  SumFor(ledger, c) \in Bytes
  <1> DEFINE rx == [key \in Keys |-> ledger[key][c].rx]
             tx == [key \in Keys |-> ledger[key][c].tx]
  <1>1. \A key \in Keys : rx[key] \in Nat /\ tx[key] \in Nat
    BY LedgerEntry DEF Bytes
  <1>2. SumFunctionOnSet(rx, Keys) \in Nat /\ SumFunctionOnSet(tx, Keys) \in Nat
    <2> HIDE DEF rx, tx
    <2> QED BY <1>1, KeysFinite, SumNat
  <1> QED BY <1>2, SumFunctionIs DEF SumFor, Bytes

LEMMA SumOfLarger ==
    ASSUME NEW x \in Ledger, NEW y \in Ledger, NEW c \in Lan,
           \A key \in Keys : AtMost(x[key][c], y[key][c])
    PROVE  AtMost(SumFor(x, c), SumFor(y, c))
  <1> DEFINE xrx == [key \in Keys |-> x[key][c].rx]
             xtx == [key \in Keys |-> x[key][c].tx]
             yrx == [key \in Keys |-> y[key][c].rx]
             ytx == [key \in Keys |-> y[key][c].tx]
  <1>1. \A key \in Keys : /\ xrx[key] \in Nat /\ yrx[key] \in Nat /\ xrx[key] <= yrx[key]
                          /\ xtx[key] \in Nat /\ ytx[key] \in Nat /\ xtx[key] <= ytx[key]
    <2>1. \A key \in Keys : x[key][c] \in Bytes /\ y[key][c] \in Bytes
      BY LedgerEntry
    <2> QED BY <2>1 DEF Bytes, AtMost
  <1>2. SumFor(x, c).rx = SumFunctionOnSet(xrx, Keys) /\ SumFor(x, c).tx = SumFunctionOnSet(xtx, Keys)
        /\ SumFor(y, c).rx = SumFunctionOnSet(yrx, Keys) /\ SumFor(y, c).tx = SumFunctionOnSet(ytx, Keys)
    BY SumFunctionIs DEF SumFor
  <1> HIDE DEF xrx, xtx, yrx, ytx
  <1>3. SumFunctionOnSet(xrx, Keys) <= SumFunctionOnSet(yrx, Keys)
    BY <1>1, KeysFinite, SumMono
  <1>4. SumFunctionOnSet(xtx, Keys) <= SumFunctionOnSet(ytx, Keys)
    BY <1>1, KeysFinite, SumMono
  <1> QED BY <1>2, <1>3, <1>4 DEF AtMost

New(c, listed) == [rx |-> NewRx(c, listed), tx |-> NewTx(c, listed)]

LEMMA CountedKeys ==
    ASSUME TypeOK, NEW c, NEW listed \in Listings
    PROVE  /\ CountedFor(c, listed) \in SUBSET Keys
           /\ CountedFor(c, listed) \subseteq listed
           /\ IsFiniteSet(CountedFor(c, listed))
           /\ \A key \in CountedFor(c, listed) :
                 /\ key \in DOMAIN table /\ Attributed(table[key])
                 /\ Client(table[key]) = c /\ Delta(key) \in Bytes
  <1>1. listed \subseteq DOMAIN table
    BY DEF Listings
  <1>2. \A key \in CountedFor(c, listed) :
           /\ key \in listed /\ key \in DOMAIN table /\ Attributed(table[key])
           /\ Client(table[key]) = c
    BY <1>1 DEF CountedFor, Counted
  <1>3. \A key \in CountedFor(c, listed) : key \in Keys /\ Delta(key) \in Bytes
    BY <1>2, DeltaType
  <1>4. CountedFor(c, listed) \in SUBSET Keys
    BY <1>3
  <1> QED BY <1>2, <1>3, <1>4, KeysFinite, FS_Subset

LEMMA NewType ==
    ASSUME TypeOK, NEW c, NEW listed \in Listings
    PROVE  New(c, listed) \in Bytes
  <1> DEFINE S == CountedFor(c, listed)
             rx == [key \in S |-> Delta(key).rx]
             tx == [key \in S |-> Delta(key).tx]
  <1>1. IsFiniteSet(S) /\ \A key \in S : rx[key] \in Nat /\ tx[key] \in Nat
    BY CountedKeys DEF Bytes
  <1>2. NewRx(c, listed) = SumFunctionOnSet(rx, S) /\ NewTx(c, listed) = SumFunctionOnSet(tx, S)
    BY SumFunctionIs DEF NewRx, NewTx
  <1> HIDE DEF S, rx, tx
  <1>3. SumFunctionOnSet(rx, S) \in Nat /\ SumFunctionOnSet(tx, S) \in Nat
    BY <1>1, SumNat
  <1> QED BY <1>2, <1>3 DEF New, Bytes

(* Without counted connections nothing is new.                             *)
LEMMA NothingNew ==
    ASSUME NEW c, NEW listed, CountedFor(c, listed) = {}
    PROVE  New(c, listed) = NoBytes
  <1>1. NewRx(c, listed) = SumFunctionOnSet([key \in {} |-> Delta(key).rx], {})
        /\ NewTx(c, listed) = SumFunctionOnSet([key \in {} |-> Delta(key).tx], {})
    BY SumFunctionIs DEF NewRx, NewTx
  <1> QED BY <1>1, SumEmpty DEF New, NoBytes

(* What a scan adds to a client's entries sums to what it adds to its      *)
(* totals.                                                                 *)
LEMMA ScanAddsNew ==
    ASSUME TypeOK, NEW c \in Lan, NEW listed \in Listings, NEW next \in Ledger,
           \A key \in Keys : next[key][c] =
              IF key \in CountedFor(c, listed)
              THEN Plus(credited[key][c], Delta(key)) ELSE credited[key][c]
    PROVE  SumFor(next, c) = Plus(SumFor(credited, c), New(c, listed))
  <1> DEFINE S == CountedFor(c, listed)
             hrx == [key \in Keys |-> next[key][c].rx]
             htx == [key \in Keys |-> next[key][c].tx]
             frx == [key \in Keys |-> credited[key][c].rx]
             ftx == [key \in Keys |-> credited[key][c].tx]
             grx == [key \in Keys |-> IF key \in S THEN Delta(key).rx ELSE 0]
             gtx == [key \in Keys |-> IF key \in S THEN Delta(key).tx ELSE 0]
             drx == [key \in S |-> Delta(key).rx]
             dtx == [key \in S |-> Delta(key).tx]
  <1>1. S \in SUBSET Keys /\ IsFiniteSet(S) /\ \A key \in S : Delta(key) \in Bytes
    BY CountedKeys
  <1>2. \A key \in Keys : credited[key][c] \in Bytes
    BY LedgerEntry DEF TypeOK
  <1>3. \A key \in Keys : /\ frx[key] \in Nat /\ grx[key] \in Nat /\ hrx[key] = frx[key] + grx[key]
                          /\ ftx[key] \in Nat /\ gtx[key] \in Nat /\ htx[key] = ftx[key] + gtx[key]
    <2> SUFFICES ASSUME NEW key \in Keys
                 PROVE  /\ frx[key] \in Nat /\ grx[key] \in Nat /\ hrx[key] = frx[key] + grx[key]
                        /\ ftx[key] \in Nat /\ gtx[key] \in Nat /\ htx[key] = ftx[key] + gtx[key]
      OBVIOUS
    <2>1. credited[key][c].rx \in Nat /\ credited[key][c].tx \in Nat
      BY <1>2 DEF Bytes
    <2>2. CASE key \in S
      <3>1. Delta(key).rx \in Nat /\ Delta(key).tx \in Nat
        BY <1>1, <2>2 DEF Bytes
      <3>2. next[key][c] = Plus(credited[key][c], Delta(key))
        BY <2>2
      <3> QED BY <2>1, <2>2, <3>1, <3>2 DEF Plus
    <2>3. CASE key \notin S
      <3>1. next[key][c] = credited[key][c]
        BY <2>3
      <3> QED BY <2>1, <2>3, <3>1
    <2> QED BY <2>2, <2>3
  <1>4. /\ \A key \in S : grx[key] = drx[key] /\ gtx[key] = dtx[key]
        /\ \A key \in Keys \ S : grx[key] = 0 /\ gtx[key] = 0
    BY <1>1
  <1>5. /\ SumFor(next, c) = [rx |-> SumFunctionOnSet(hrx, Keys), tx |-> SumFunctionOnSet(htx, Keys)]
        /\ SumFor(credited, c) = [rx |-> SumFunctionOnSet(frx, Keys), tx |-> SumFunctionOnSet(ftx, Keys)]
        /\ New(c, listed) = [rx |-> SumFunctionOnSet(drx, S), tx |-> SumFunctionOnSet(dtx, S)]
    BY SumFunctionIs DEF SumFor, New, NewRx, NewTx
  <1> HIDE DEF S, hrx, htx, frx, ftx, grx, gtx, drx, dtx
  <1>6. SumFunctionOnSet(hrx, Keys) = SumFunctionOnSet(frx, Keys) + SumFunctionOnSet(grx, Keys)
    BY <1>3, KeysFinite, SumPlus
  <1>7. SumFunctionOnSet(htx, Keys) = SumFunctionOnSet(ftx, Keys) + SumFunctionOnSet(gtx, Keys)
    BY <1>3, KeysFinite, SumPlus
  <1>8. SumFunctionOnSet(grx, Keys) = SumFunctionOnSet(grx, S)
    BY <1>1, <1>3, <1>4, KeysFinite, SumOutside
  <1>9. SumFunctionOnSet(gtx, Keys) = SumFunctionOnSet(gtx, S)
    BY <1>1, <1>3, <1>4, KeysFinite, SumOutside
  <1>10. SumFunctionOnSet(grx, S) = SumFunctionOnSet(drx, S)
    BY <1>1, <1>4, SumEqual
  <1>11. SumFunctionOnSet(gtx, S) = SumFunctionOnSet(dtx, S)
    BY <1>1, <1>4, SumEqual
  <1> QED BY <1>5, <1>6, <1>7, <1>8, <1>9, <1>10, <1>11 DEF Plus

(* The entries of stats, and that the totals are the sum of the credit.    *)
StatsOK ==
    /\ restarts \in Nat
    /\ DOMAIN stats \subseteq Lan
    /\ \A c \in DOMAIN stats : stats[c].rx_total \in Nat /\ stats[c].tx_total \in Nat

TotalsAreCredit == \A c \in Lan : Totals(c) = SumFor(credited, c)

TotalsIInv == TypeOK /\ StatsOK /\ TotalsAreCredit

LEMMA NothingSums ==
    ASSUME NEW c \in Lan
    PROVE  SumFor(Nothing, c) = NoBytes
  <1> DEFINE zero == [key \in Keys |-> 0]
  <1>1. [key \in Keys |-> Nothing[key][c].rx] = zero /\ [key \in Keys |-> Nothing[key][c].tx] = zero
    BY DEF Nothing, NoBytes
  <1>2. SumFor(Nothing, c) = [rx |-> SumFunctionOnSet(zero, Keys), tx |-> SumFunctionOnSet(zero, Keys)]
    BY <1>1, SumFunctionIs DEF SumFor
  <1>3. \A key \in Keys : zero[key] \in Nat /\ zero[key] = 0
    OBVIOUS
  <1> HIDE DEF zero
  <1>4. SumFunctionOnSet(zero, Keys) = SumFunctionOnSet(zero, {})
    BY <1>3, KeysFinite, SumOutside
  <1> QED BY <1>2, <1>4, SumEmpty DEF NoBytes

LEMMA TotalsType ==
    ASSUME StatsOK, NEW c
    PROVE  Totals(c) \in Bytes
  BY DEF StatsOK, Totals, Bytes, NoBytes

(* A scan adds what is new to the totals of every client.                  *)
LEMMA ScanTotals ==
    ASSUME TypeOK, StatsOK, NEW listed \in Listings, NEW d \in Gaps, Scan(listed, d)
    PROVE  /\ DOMAIN stats \subseteq DOMAIN stats' /\ DOMAIN stats' \subseteq Lan
           /\ \A c \in DOMAIN stats' : stats'[c] = Updated(c, listed, d)
           /\ \A c : Totals(c)' = Plus(Totals(c), New(c, listed))
  <1> DEFINE heard == { Client(table[key]) : key \in Counted(listed) }
  <1>1. stats' = [ c \in DOMAIN stats \cup heard |-> Updated(c, listed, d) ]
    BY DEF Scan, Update
  <1>2. heard \subseteq Lan
    <2>1. \A key \in Counted(listed) : key \in DOMAIN table /\ Attributed(table[key])
      BY DEF Counted, Listings
    <2> QED BY <2>1, DeltaType, ClientType
  <1>3. ASSUME NEW c, c \notin heard
        PROVE  CountedFor(c, listed) = {}
    BY <1>3 DEF CountedFor
  <1> HIDE DEF heard
  <1>4. ASSUME NEW c
        PROVE  Totals(c)' = Plus(Totals(c), New(c, listed))
    <2>1. CASE c \in DOMAIN stats'
      <3>1. stats'[c] = Updated(c, listed, d)
        BY <1>1, <2>1
      <3>2. Totals(c)' = [rx |-> stats'[c].rx_total, tx |-> stats'[c].tx_total]
        BY <2>1 DEF Totals
      <3>3. /\ Updated(c, listed, d).rx_total = Totals(c).rx + NewRx(c, listed)
            /\ Updated(c, listed, d).tx_total = Totals(c).tx + NewTx(c, listed)
        BY DEF Updated
      <3> QED BY <3>1, <3>2, <3>3 DEF Plus, New
    <2>2. CASE c \notin DOMAIN stats'
      <3>1. c \notin heard /\ c \notin DOMAIN stats
        BY <1>1, <2>2
      <3>2. Totals(c) = NoBytes /\ Totals(c)' = NoBytes
        BY <2>2, <3>1 DEF Totals
      <3>3. New(c, listed) = NoBytes
        BY <1>3, <3>1, NothingNew
      <3> QED BY <3>2, <3>3 DEF Plus, NoBytes
    <2> QED BY <2>1, <2>2
  <1> QED BY <1>1, <1>2, <1>4 DEF StatsOK

LEMMA ScanKeepsTotals ==
    ASSUME TotalsIInv, NEW listed \in Listings, NEW d \in Gaps, Scan(listed, d)
    PROVE  StatsOK' /\ TotalsAreCredit'
  <1>0. TypeOK /\ StatsOK /\ TypeOK'
    BY ScanType DEF TotalsIInv
  <1>1. /\ DOMAIN stats' \subseteq Lan
        /\ \A c : Totals(c)' = Plus(Totals(c), New(c, listed))
    BY <1>0, ScanTotals
  <1>2. StatsOK'
    <2>1. ASSUME NEW c \in DOMAIN stats'
          PROVE  stats'[c].rx_total \in Nat /\ stats'[c].tx_total \in Nat
      <3>1. Plus(Totals(c), New(c, listed)) \in Bytes
        BY <1>0, TotalsType, NewType, PlusType
      <3>2. Totals(c)' = [rx |-> stats'[c].rx_total, tx |-> stats'[c].tx_total]
        BY <2>1 DEF Totals
      <3>3. [rx |-> stats'[c].rx_total, tx |-> stats'[c].tx_total] \in Bytes
        BY <1>1, <3>1, <3>2
      <3> QED BY <3>3 DEF Bytes
    <2>2. restarts' = restarts
      BY DEF Scan
    <2> QED BY <1>0, <1>1, <2>1, <2>2 DEF StatsOK
  <1>3. ASSUME NEW c \in Lan
        PROVE  Totals(c)' = SumFor(credited', c)
    <2>1. credited' \in Ledger
      BY <1>0 DEF TypeOK
    <2>2. \A key \in Keys : credited'[key][c] =
             IF key \in CountedFor(c, listed)
             THEN Plus(credited[key][c], Delta(key)) ELSE credited[key][c]
      BY DEF Scan
    <2>3. SumFor(credited', c) = Plus(SumFor(credited, c), New(c, listed))
      BY <1>0, <2>1, <2>2, ScanAddsNew
    <2>4. Totals(c) = SumFor(credited, c)
      BY DEF TotalsIInv, TotalsAreCredit
    <2> QED BY <1>1, <2>3, <2>4
  <1>4. TotalsAreCredit'
    BY <1>3 DEF TotalsAreCredit, SumFor
  <1> QED BY <1>2, <1>4

LEMMA RestartTotals ==
    ASSUME TotalsIInv, Restart
    PROVE  StatsOK' /\ TotalsAreCredit'
  <1>1. DOMAIN stats' = {} /\ credited' = Nothing /\ restarts' = restarts + 1
    BY DEF Restart
  <1>2. StatsOK'
    BY <1>1 DEF StatsOK, TotalsIInv
  <1>3. \A c \in Lan : Totals(c)' = NoBytes /\ SumFor(credited', c) = NoBytes
    BY <1>1, NothingSums DEF Totals
  <1> QED BY <1>2, <1>3 DEF TotalsAreCredit, SumFor

LEMMA TotalsStep == TotalsIInv /\ [Next]_vars => TotalsIInv'
  <1> SUFFICES ASSUME TotalsIInv, [Next]_vars PROVE StatsOK' /\ TotalsAreCredit'
    BY FlowTypeStep DEF TotalsIInv
  <1>0. ASSUME UNCHANGED <<stats, restarts, credited>>
        PROVE  StatsOK' /\ TotalsAreCredit'
    BY <1>0 DEF TotalsIInv, StatsOK, TotalsAreCredit, Totals, SumFor
  <1>1. ASSUME NEW src \in Ip, NEW dst \in Ip, NEW port \in Port, NEW proto \in Proto,
               Open(src, dst, port, proto)
        PROVE  UNCHANGED <<stats, restarts, credited>>
    BY <1>1 DEF Open, accountant
  <1>2. ASSUME NEW key \in DOMAIN table, Carry(key, 1, 0) \/ Carry(key, 0, 1)
        PROVE  UNCHANGED <<stats, restarts, credited>>
    BY <1>2 DEF Carry, accountant
  <1>3. ASSUME NEW key \in DOMAIN table, Close(key)
        PROVE  UNCHANGED <<stats, restarts, credited>>
    BY <1>3 DEF Close, accountant, history
  <1>4. ASSUME NEW listed \in Listings, NEW d \in Gaps, Scan(listed, d)
        PROVE  StatsOK' /\ TotalsAreCredit'
    BY <1>4, ScanKeepsTotals
  <1>5. CASE Restart
    BY <1>5, RestartTotals
  <1>6. CASE UNCHANGED vars
    BY <1>0, <1>6 DEF vars, accountant, history
  <1> QED BY <1>0, <1>1, <1>2, <1>3, <1>4, <1>5, <1>6 DEF Next, Kernel

(* What the API shows as a client's total is what its connections were     *)
(* credited with, no more and no less (account.rs:83-98), also with        *)
(* incomplete listings: an entry is kept while its client is quiet, and    *)
(* one appears only when something is counted for it.                      *)
THEOREM TotalsSumTheCredit == Spec => []TotalsIInv
  <1>1. Init => TotalsIInv
    <2> SUFFICES ASSUME Init PROVE StatsOK /\ TotalsAreCredit
      BY FlowTypeInit DEF TotalsIInv
    <2>1. \A c \in Lan : Totals(c) = NoBytes /\ SumFor(credited, c) = NoBytes
      BY NothingSums DEF Init, Totals
    <2> QED BY <2>1 DEF Init, StatsOK, TotalsAreCredit
  <1> QED BY <1>1, TotalsStep, PTL DEF Spec

(* The totals shown never exceed what the client moved.                    *)
THEOREM TotalsAlwaysBounded == Spec => []TotalsBounded
  <1>1. TotalsIInv /\ NeverOvercredited => TotalsBounded
    <2> SUFFICES ASSUME TotalsIInv, NeverOvercredited, ~missed, NEW c \in DOMAIN stats
                 PROVE  AtMost(Totals(c), SumFor(carried, c))
      BY DEF TotalsBounded
    <2>1. c \in Lan /\ credited \in Ledger /\ carried \in Ledger
      BY DEF TotalsIInv, StatsOK, TypeOK
    <2>2. AtMost(SumFor(credited, c), SumFor(carried, c))
      BY <2>1, SumOfLarger DEF NeverOvercredited
    <2> QED BY <2>1, <2>2 DEF TotalsIInv, TotalsAreCredit
  <1> QED BY <1>1, TotalsSumTheCredit, NoByteCountedTwice, PTL

(* The totals of a running process only grow (account.rs:156), also with   *)
(* listings that lack connections and counters that start over: a scan     *)
(* adds a natural number to each, keeps every entry, and nothing else but  *)
(* a restart touches them.                                                 *)
THEOREM TotalsOnlyGrow == Spec => TotalsNeverDrop
  <1> DEFINE Grow ==
        \A c \in DOMAIN stats : /\ c \in DOMAIN stats'
                                /\ stats[c].rx_total <= stats'[c].rx_total
                                /\ stats[c].tx_total <= stats'[c].tx_total
  <1>1. ASSUME TotalsIInv, [Next]_vars, restarts' = restarts
        PROVE  Grow
    <2>f. TypeOK /\ StatsOK
      BY <1>1 DEF TotalsIInv
    <2>0. ASSUME stats' = stats
          PROVE  Grow
      BY <2>0, <2>f DEF StatsOK
    <2>1. ASSUME NEW src \in Ip, NEW dst \in Ip, NEW port \in Port, NEW proto \in Proto,
                 Open(src, dst, port, proto)
          PROVE  stats' = stats
      BY <2>1 DEF Open, accountant
    <2>2. ASSUME NEW key \in DOMAIN table, Carry(key, 1, 0) \/ Carry(key, 0, 1)
          PROVE  stats' = stats
      BY <2>2 DEF Carry, accountant
    <2>3. ASSUME NEW key \in DOMAIN table, Close(key)
          PROVE  stats' = stats
      BY <2>3 DEF Close, accountant, history
    <2>4. ASSUME NEW listed \in Listings, NEW d \in Gaps, Scan(listed, d)
          PROVE  Grow
      <3>1. /\ DOMAIN stats \subseteq DOMAIN stats'
            /\ \A c : Totals(c)' = Plus(Totals(c), New(c, listed))
        BY <2>4, <2>f, ScanTotals
      <3>2. ASSUME NEW c \in DOMAIN stats
            PROVE  /\ stats[c].rx_total <= stats'[c].rx_total
                   /\ stats[c].tx_total <= stats'[c].tx_total
        <4>1. Totals(c) \in Bytes /\ New(c, listed) \in Bytes
          BY <2>f, TotalsType, NewType
        <4>2. AtMost(Totals(c), Totals(c)')
          BY <3>1, <4>1, AtMostGrows
        <4>3. /\ Totals(c) = [rx |-> stats[c].rx_total, tx |-> stats[c].tx_total]
              /\ Totals(c)' = [rx |-> stats'[c].rx_total, tx |-> stats'[c].tx_total]
          BY <3>1 DEF Totals
        <4> QED BY <4>2, <4>3 DEF AtMost
      <3> QED BY <3>1, <3>2
    <2>5. CASE Restart
      BY <1>1, <2>5, <2>f DEF Restart, StatsOK
    <2>6. CASE UNCHANGED vars
      BY <2>0, <2>6 DEF vars, accountant
    <2> HIDE DEF Grow
    <2> QED BY <1>1, <2>0, <2>1, <2>2, <2>3, <2>4, <2>5, <2>6 DEF Next, Kernel
  <1>2. TotalsIInv /\ [Next]_vars => [restarts' = restarts => Grow]_vars
    BY <1>1
  <1> QED BY <1>2, TotalsSumTheCredit, PTL DEF Spec, TotalsNeverDrop

-------------------------------------------------------------------------------
(* Rates.                                                                  *)

LEMMA QuotientTimes ==
    ASSUME NEW b \in Nat, NEW d \in Int, d > 0
    PROVE  (b \div d) * d <= b /\ b \div d \in Nat
  <1>1. d \in Nat /\ b \div d \in Nat /\ b % d \in 0 .. d - 1 /\ b = d * (b \div d) + (b % d)
    OBVIOUS
  <1>2. (b \div d) * d = d * (b \div d) /\ d * (b \div d) \in Nat
    BY <1>1
  <1> QED BY <1>1, <1>2

LEMMA QuotientAverages ==
    ASSUME NEW b \in Nat, NEW d \in Int, d > 0
    PROVE  Averages(b \div d, b, d)
  <1> DEFINE q == b \div d
             r == b % d
  <1>1. d \in Nat /\ q \in Nat /\ r \in 0 .. d - 1 /\ b = d * q + r
    OBVIOUS
  <1> HIDE DEF q, r
  <1>2. q * d = d * q /\ (q + 1) * d = d * q + d /\ d * q \in Nat
    BY <1>1
  <1>3. q * d <= b /\ b < (q + 1) * d
    BY <1>1, <1>2
  <1> QED BY <1>3 DEF Averages, q

(* What a scan adds for a client was moved since the previous one.         *)
LEMMA NewIsFresh ==
    ASSUME TypeOK, FreshInv, timed, ~missed, NEW c \in Lan, NEW listed \in Listings
    PROVE  AtMost(New(c, listed), SumFor(fresh, c))
  <1> DEFINE S == CountedFor(c, listed)
             drx == [key \in S |-> Delta(key).rx]
             dtx == [key \in S |-> Delta(key).tx]
             frx == [key \in Keys |-> fresh[key][c].rx]
             ftx == [key \in Keys |-> fresh[key][c].tx]
  <1>1. /\ S \in SUBSET Keys /\ IsFiniteSet(S)
        /\ \A key \in S : Delta(key) \in Bytes /\ AtMost(Delta(key), fresh[key][c])
    BY CountedKeys DEF FreshInv
  <1>2. \A key \in Keys : fresh[key][c] \in Bytes
    BY LedgerEntry DEF TypeOK
  <1>3. \A key \in Keys : frx[key] \in Nat /\ ftx[key] \in Nat
    BY <1>2 DEF Bytes
  <1>4. \A key \in S : /\ drx[key] \in Nat /\ frx[key] \in Nat /\ drx[key] <= frx[key]
                       /\ dtx[key] \in Nat /\ ftx[key] \in Nat /\ dtx[key] <= ftx[key]
    BY <1>1, <1>2 DEF Bytes, AtMost
  <1>5. /\ SumFor(fresh, c) = [rx |-> SumFunctionOnSet(frx, Keys), tx |-> SumFunctionOnSet(ftx, Keys)]
        /\ New(c, listed) = [rx |-> SumFunctionOnSet(drx, S), tx |-> SumFunctionOnSet(dtx, S)]
    BY SumFunctionIs DEF SumFor, New, NewRx, NewTx
  <1> HIDE DEF S, drx, dtx, frx, ftx
  <1>6. SumFunctionOnSet(drx, S) <= SumFunctionOnSet(frx, S)
    BY <1>1, <1>4, SumMono
  <1>7. SumFunctionOnSet(dtx, S) <= SumFunctionOnSet(ftx, S)
    BY <1>1, <1>4, SumMono
  <1>8. SumFunctionOnSet(frx, S) <= SumFunctionOnSet(frx, Keys)
    BY <1>1, <1>3, KeysFinite, SumSubset
  <1>9. SumFunctionOnSet(ftx, S) <= SumFunctionOnSet(ftx, Keys)
    BY <1>1, <1>3, KeysFinite, SumSubset
  <1>10. /\ SumFunctionOnSet(drx, S) \in Nat /\ SumFunctionOnSet(frx, S) \in Nat
         /\ SumFunctionOnSet(frx, Keys) \in Nat
    BY <1>1, <1>3, <1>4, KeysFinite, SumNat
  <1>11. /\ SumFunctionOnSet(dtx, S) \in Nat /\ SumFunctionOnSet(ftx, S) \in Nat
         /\ SumFunctionOnSet(ftx, Keys) \in Nat
    BY <1>1, <1>3, <1>4, KeysFinite, SumNat
  <1>12. SumFunctionOnSet(drx, S) <= SumFunctionOnSet(frx, Keys)
    BY <1>6, <1>8, <1>10
  <1>13. SumFunctionOnSet(dtx, S) <= SumFunctionOnSet(ftx, Keys)
    BY <1>7, <1>9, <1>11
  <1> QED BY <1>5, <1>12, <1>13 DEF AtMost

(* The rates of c after a scan d seconds after the last. *)
Rated(c, d) ==
    IF timed /\ d > 0
    THEN /\ Averages(stats'[c].rx_bps, Gained(c).rx, d)
         /\ Averages(stats'[c].tx_bps, Gained(c).tx, d)
         /\ ~missed => AtMost(Gained(c), SumFor(fresh, c))
    ELSE stats'[c].rx_bps = 0 /\ stats'[c].tx_bps = 0

LEMMA ScanRates ==
    ASSUME TypeOK, StatsOK, FreshInv,
           NEW listed \in Listings, NEW d \in Gaps, Scan(listed, d), NEW c \in DOMAIN stats'
    PROVE  Rated(c, d)
  <1>1. c \in Lan /\ stats'[c] = Updated(c, listed, d) /\ Totals(c)' = Plus(Totals(c), New(c, listed))
    BY ScanTotals
  <1>2. /\ stats'[c].rx_bps = Rate(NewRx(c, listed), d)
        /\ stats'[c].tx_bps = Rate(NewTx(c, listed), d)
    BY <1>1 DEF Updated
  <1>3. d \in Int
    BY AccountingAssumption
  <1>4. NewRx(c, listed) \in Nat /\ NewTx(c, listed) \in Nat
    BY NewType DEF New, Bytes
  <1>5. Gained(c) = New(c, listed)
    <2>1. Totals(c).rx \in Nat /\ Totals(c).tx \in Nat
      BY <1>1, TotalsType DEF Bytes
    <2>2. /\ Totals(c)'.rx = Totals(c).rx + NewRx(c, listed)
          /\ Totals(c)'.tx = Totals(c).tx + NewTx(c, listed)
      BY <1>1 DEF Plus, New
    <2> QED BY <1>4, <2>1, <2>2 DEF Gained, New
  <1>6. CASE timed /\ d > 0
    <2>1. stats'[c].rx_bps = NewRx(c, listed) \div d /\ stats'[c].tx_bps = NewTx(c, listed) \div d
      BY <1>2, <1>6 DEF Rate
    <2>2. /\ Averages(stats'[c].rx_bps, NewRx(c, listed), d)
          /\ Averages(stats'[c].tx_bps, NewTx(c, listed), d)
      BY <1>3, <1>4, <1>6, <2>1, QuotientAverages
    <2>3. ~missed => AtMost(New(c, listed), SumFor(fresh, c))
      BY <1>1, <1>6, NewIsFresh
    <2>4. Gained(c).rx = NewRx(c, listed) /\ Gained(c).tx = NewTx(c, listed)
      BY <1>5 DEF New
    <2> QED BY <1>5, <1>6, <2>2, <2>3, <2>4 DEF Rated
  <1>7. CASE ~(timed /\ d > 0)
    BY <1>2, <1>7 DEF Rate, Rated
  <1> QED BY <1>6, <1>7

(* A rate is the traffic of its interval: what the scan added to the       *)
(* totals, over the seconds since the last scan, and unless a listing      *)
(* missed an open connection no more than the client moved since then      *)
(* (account.rs:87-96), so neither the bytes before the daemon's start nor  *)
(* a connection that took over a key make a spike.  What was due was fresh *)
(* (FreshInv), and a quotient rounds down by less than one.                *)
THEOREM RatesAreTraffic == Spec => RateIsTraffic
  <1> DEFINE Step == \A listed \in Listings, d \in Gaps : Scan(listed, d) =>
                        \A c \in DOMAIN stats' :
                           IF timed /\ d > 0
                           THEN /\ Averages(stats'[c].rx_bps, Gained(c).rx, d)
                                /\ Averages(stats'[c].tx_bps, Gained(c).tx, d)
                                /\ ~missed => AtMost(Gained(c), SumFor(fresh, c))
                           ELSE stats'[c].rx_bps = 0 /\ stats'[c].tx_bps = 0
  <1>1. ASSUME TypeOK, StatsOK, FreshInv PROVE Step
    BY <1>1, ScanRates DEF Rated
  <1>2. TotalsIInv /\ FreshInv => [scans' # scans => Step]_vars
    <2> HIDE DEF Step
    <2> QED BY <1>1 DEF TotalsIInv
  <1>3. Spec => [][scans' # scans => Step]_vars
    <2> HIDE DEF Step
    <2> QED BY <1>2, TotalsSumTheCredit, OnlyFreshIsDue, PTL DEF Spec
  <1> QED BY <1>3 DEF RateIsTraffic

-------------------------------------------------------------------------------
(* The summary.                                                            *)

(* Sorting by weight keeps every element once and puts the larger first.   *)
LEMMA SortedListing ==
    ASSUME NEW S, IsFiniteSet(S), NEW s \in SetToSeqs(S), NEW weight,
           \A x \in S : weight[x] \in Int
    PROVE  /\ SortedBy(s, weight) \in SetToSeqs(S)
           /\ \A i, j \in 1 .. Cardinality(S) :
                 i < j => weight[SortedBy(s, weight)[i]] >= weight[SortedBy(s, weight)[j]]
  <1> DEFINE n == Cardinality(S)
             D == 1 .. n
             t == SortedBy(s, weight)
             R == { p \in D \X D : \/ weight[s[p[1]]] > weight[s[p[2]]]
                                   \/ weight[s[p[1]]] = weight[s[p[2]]] /\ p[1] < p[2] }
             before(j) == { k \in DOMAIN s : \/ weight[s[k]] > weight[s[j]]
                                             \/ weight[s[k]] = weight[s[j]] /\ k < j }
             at(i) == CHOOSE j \in DOMAIN s : Cardinality(before(j)) = i - 1
  <1>1. n \in Nat /\ IsFiniteSet(D) /\ Cardinality(D) = n
    BY FS_CardinalityType, FS_Interval
  <1>2. /\ s \in [D -> S] /\ DOMAIN s = D
        /\ \A i, j \in D : i # j => s[i] # s[j]
    BY DEF SetToSeqs
  <1>3. t = [i \in D |-> s[at(i)]]
    BY <1>2 DEF SortedBy
  <1>4. \A i, j \in D :
           <<i, j>> \in R <=> \/ weight[s[i]] > weight[s[j]]
                              \/ weight[s[i]] = weight[s[j]] /\ i < j
    OBVIOUS
  <1>5. \A i \in D : weight[s[i]] \in Int
    BY <1>2
  <1> HIDE DEF R
  <1>6. Orders(D, R)
    <2>1. \A i, j, k \in D : <<i, j>> \in R /\ <<j, k>> \in R => <<i, k>> \in R
      BY <1>4, <1>5
    <2> QED BY <1>4, <1>5, <2>1 DEF Orders
  <1>7. /\ \A j \in D : Place(D, R, j) \in 0 .. n - 1
        /\ \A i, j \in D : <<j, i>> \in R <=> Place(D, R, j) < Place(D, R, i)
        /\ \A i \in D : \E j \in D : Place(D, R, j) = i - 1
    BY <1>1, <1>6, PlacesTaken
  <1>8. ASSUME NEW j \in D PROVE Cardinality(before(j)) = Place(D, R, j)
    <2>1. before(j) = Ahead(D, R, j)
      BY <1>2, <1>4 DEF Ahead
    <2> QED BY <2>1 DEF Place
  <1> HIDE DEF before
  <1>9. ASSUME NEW i \in D PROVE at(i) \in D /\ Place(D, R, at(i)) = i - 1
    <2>1. PICK j \in D : Place(D, R, j) = i - 1
      BY <1>7
    <2>2. Cardinality(before(j)) = i - 1
      BY <1>8, <2>1
    <2>3. at(i) \in D /\ Cardinality(before(at(i))) = i - 1
      BY <1>2, <2>2
    <2> QED BY <1>8, <2>3
  <1> HIDE DEF at
  <1>10. ASSUME NEW i \in D, NEW j \in D, i < j
         PROVE  t[i] # t[j] /\ weight[t[i]] >= weight[t[j]]
    <2>1. /\ at(i) \in D /\ Place(D, R, at(i)) = i - 1
          /\ at(j) \in D /\ Place(D, R, at(j)) = j - 1
      BY <1>9
    <2>2. Place(D, R, at(i)) < Place(D, R, at(j))
      <3>1. i - 1 < j - 1
        BY <1>1, <1>10
      <3> QED BY <2>1, <3>1
    <2>3. <<at(i), at(j)>> \in R /\ at(i) # at(j)
      <3>1. <<at(i), at(j)>> \in R
        BY <1>7, <2>1, <2>2
      <3> QED BY <1>6, <2>1, <3>1 DEF Orders
    <2>4. t[i] = s[at(i)] /\ t[j] = s[at(j)]
      BY <1>3
    <2>5. weight[s[at(i)]] >= weight[s[at(j)]]
      BY <1>4, <1>5, <2>1, <2>3
    <2> QED BY <1>2, <2>1, <2>3, <2>4, <2>5
  <1>11. t \in [D -> S]
    BY <1>2, <1>3, <1>9
  <1> HIDE DEF t
  <1>12. \A i, j \in D : i # j => t[i] # t[j]
    <2> SUFFICES ASSUME NEW i \in D, NEW j \in D, i # j PROVE t[i] # t[j]
      OBVIOUS
    <2>1. CASE i < j
      BY <1>10, <2>1
    <2>2. CASE j < i
      BY <1>10, <2>2
    <2> QED BY <2>1, <2>2
  <1>13. t \in SetToSeqs(S)
    BY <1>11, <1>12 DEF SetToSeqs
  <1> QED BY <1>10, <1>13 DEF t

(* Rates can be compared.                                                  *)
RatesOK == \A c \in DOMAIN stats : stats[c].rx_bps \in Nat /\ stats[c].tx_bps \in Nat

LEMMA ScanKeepsRatesOK ==
    ASSUME TypeOK, StatsOK, NEW listed \in Listings, NEW d \in Gaps, Scan(listed, d)
    PROVE  RatesOK'
  <1> SUFFICES ASSUME NEW c \in DOMAIN stats'
               PROVE  stats'[c].rx_bps \in Nat /\ stats'[c].tx_bps \in Nat
    BY DEF RatesOK
  <1>1. stats'[c] = Updated(c, listed, d)
    BY ScanTotals
  <1>2. /\ stats'[c].rx_bps = Rate(NewRx(c, listed), d)
        /\ stats'[c].tx_bps = Rate(NewTx(c, listed), d)
    BY <1>1 DEF Updated
  <1>3. NewRx(c, listed) \in Nat /\ NewTx(c, listed) \in Nat /\ d \in Int
    BY NewType, AccountingAssumption DEF New, Bytes
  <1>4. d > 0 => NewRx(c, listed) \div d \in Nat /\ NewTx(c, listed) \div d \in Nat
    BY <1>3, QuotientTimes
  <1> QED BY <1>2, <1>4 DEF Rate

LEMMA RatesStep == TotalsIInv /\ RatesOK /\ [Next]_vars => RatesOK'
  <1> SUFFICES ASSUME TotalsIInv, RatesOK, [Next]_vars PROVE RatesOK'
    OBVIOUS
  <1>0. ASSUME UNCHANGED stats PROVE RatesOK'
    BY <1>0 DEF RatesOK
  <1>1. ASSUME NEW src \in Ip, NEW dst \in Ip, NEW port \in Port, NEW proto \in Proto,
               Open(src, dst, port, proto)
        PROVE  UNCHANGED stats
    BY <1>1 DEF Open, accountant
  <1>2. ASSUME NEW key \in DOMAIN table, Carry(key, 1, 0) \/ Carry(key, 0, 1)
        PROVE  UNCHANGED stats
    BY <1>2 DEF Carry, accountant
  <1>3. ASSUME NEW key \in DOMAIN table, Close(key)
        PROVE  UNCHANGED stats
    BY <1>3 DEF Close, accountant
  <1>4. ASSUME NEW listed \in Listings, NEW d \in Gaps, Scan(listed, d)
        PROVE  RatesOK'
    BY <1>4, ScanKeepsRatesOK DEF TotalsIInv
  <1>5. CASE Restart
    BY <1>5 DEF Restart, RatesOK
  <1>6. CASE UNCHANGED vars
    BY <1>6, <1>0 DEF vars, accountant
  <1> QED BY <1>0, <1>1, <1>2, <1>3, <1>4, <1>5, <1>6 DEF Next, Kernel

(* The totals of all clients with an entry, in any order, are those of all *)
(* clients: the others have been credited with nothing.                    *)
LEMMA SummaryTotals ==
    ASSUME TotalsIInv, NEW views \in SetToSeqs(DOMAIN stats)
    PROVE  /\ SumRx(views) = SumFunction([c \in Lan |-> SumFor(credited, c).rx])
           /\ SumTx(views) = SumFunction([c \in Lan |-> SumFor(credited, c).tx])
  <1> DEFINE S == DOMAIN stats
             D == 1 .. Cardinality(S)
             vrx == [i \in D |-> stats[views[i]].rx_total]
             vtx == [i \in D |-> stats[views[i]].tx_total]
             crx == [c \in Lan |-> SumFor(credited, c).rx]
             ctx == [c \in Lan |-> SumFor(credited, c).tx]
  <1>1. IsFiniteSet(Lan) /\ S \in SUBSET Lan /\ IsFiniteSet(S) /\ IsFiniteSet(D)
    <2>1. IsFiniteSet(Lan) /\ S \in SUBSET Lan
      BY FS_Subset, AccountingAssumption DEF TotalsIInv, StatsOK
    <2>2. IsFiniteSet(S)
      BY <2>1, FS_Subset
    <2>3. Cardinality(S) \in Nat
      BY <2>2, FS_CardinalityType
    <2>4. IsFiniteSet(D)
      BY <2>3, FS_Interval
    <2> QED BY <2>1, <2>2, <2>4
  <1>2. views \in Bijection(D, S) /\ views \in [D -> S] /\ DOMAIN views = D
    <2>1. views \in Bijection(D, S)
      BY <1>1, ListingBijects
    <2>2. views \in [D -> S]
      BY DEF SetToSeqs
    <2> QED BY <2>1, <2>2
  <1>3. \A c \in Lan : /\ Totals(c) \in Bytes /\ Totals(c) = SumFor(credited, c)
                       /\ crx[c] = Totals(c).rx /\ ctx[c] = Totals(c).tx
    BY TotalsType DEF TotalsIInv, TotalsAreCredit
  <1>4. \A c \in Lan : crx[c] \in Nat /\ ctx[c] \in Nat
    BY <1>3 DEF Bytes
  <1>5. \A c \in Lan \ S : crx[c] = 0 /\ ctx[c] = 0
    BY <1>3 DEF Totals, NoBytes
  <1>6. \A c \in S : crx[c] = stats[c].rx_total /\ ctx[c] = stats[c].tx_total
    BY <1>1, <1>3 DEF Totals
  <1>7. /\ SumRx(views) = SumFunctionOnSet(vrx, D) /\ SumTx(views) = SumFunctionOnSet(vtx, D)
        /\ SumFunction(crx) = SumFunctionOnSet(crx, Lan)
        /\ SumFunction(ctx) = SumFunctionOnSet(ctx, Lan)
    BY <1>2, SumFunctionIs DEF SumRx, SumTx
  <1>8. \A i \in D : vrx[i] = crx[views[i]] /\ vtx[i] = ctx[views[i]]
    BY <1>2, <1>6
  <1>9. \A c \in S : crx[c] \in Nat /\ ctx[c] \in Nat
    BY <1>1, <1>4
  <1> HIDE DEF S, D, vrx, vtx, crx, ctx
  <1>10. SumFunctionOnSet(vrx, D) = SumFunctionOnSet(crx, S)
    BY <1>1, <1>2, <1>8, <1>9, SumBijection
  <1>11. SumFunctionOnSet(vtx, D) = SumFunctionOnSet(ctx, S)
    BY <1>1, <1>2, <1>8, <1>9, SumBijection
  <1>12. SumFunctionOnSet(crx, Lan) = SumFunctionOnSet(crx, S)
    BY <1>1, <1>4, <1>5, SumOutside
  <1>13. SumFunctionOnSet(ctx, Lan) = SumFunctionOnSet(ctx, S)
    BY <1>1, <1>4, <1>5, SumOutside
  <1> QED BY <1>7, <1>10, <1>11, <1>12, <1>13 DEF crx, ctx

(* The first n of a listing sorted by volume are n different clients, and  *)
(* nobody behind them has more.                                            *)
LEMMA TopTalkers ==
    ASSUME TotalsIInv, NEW views \in SetToSeqs(DOMAIN stats), NEW n \in Nat
    PROVE  LET listed == ToSet(Top(views, n))
           IN  /\ Cardinality(listed) = IF n < Len(views) THEN n ELSE Len(views)
               /\ \A c \in DOMAIN stats \ listed, d \in listed : Volume(c) <= Volume(d)
  <1> DEFINE S == DOMAIN stats
             N == Cardinality(S)
             weight == [c \in S |-> Volume(c)]
             talkers == SortedBy(views, weight)
             k == IF n < N THEN n ELSE N
             top == SubSeq(talkers, 1, k)
             listed == ToSet(top)
  <1>1. IsFiniteSet(S) /\ N \in Nat
    <2>1. IsFiniteSet(Lan) /\ S \in SUBSET Lan
      BY FS_Subset, AccountingAssumption DEF TotalsIInv, StatsOK
    <2> QED BY <2>1, FS_Subset, FS_CardinalityType
  <1>2. \A c \in S : Volume(c) \in Int
    BY DEF Volume, TotalsIInv, StatsOK
  <1>3. \A c \in S : weight[c] = Volume(c) /\ weight[c] \in Int
    BY <1>2
  <1> HIDE DEF weight
  <1>4. /\ talkers \in SetToSeqs(S)
        /\ \A i, j \in 1 .. N : i < j => weight[talkers[i]] >= weight[talkers[j]]
    BY <1>1, <1>3, SortedListing
  <1> HIDE DEF talkers
  <1>5. Len(views) = N /\ Len(talkers) = N /\ talkers \in Seq(S)
        /\ \A x \in S : \E i \in 1 .. N : talkers[i] = x
    BY <1>1, <1>4, ListingBijects
  <1>6. talkers \in [1 .. N -> S] /\ \A i, j \in 1 .. N : i # j => talkers[i] # talkers[j]
    BY <1>4 DEF SetToSeqs
  <1>7. k \in 0 .. N /\ k \in Nat /\ \A i \in 1 .. k : i \in 1 .. N
    BY <1>1
  <1> HIDE DEF k
  <1>8. /\ top \in Seq(S) /\ Len(top) = k /\ DOMAIN top = 1 .. k
        /\ \A i \in 1 .. k : top[i] = talkers[i]
    <2>1. \A i \in 1 .. k : talkers[i] \in S
      BY <1>6, <1>7
    <2>2. /\ top \in Seq(S) /\ Len(top) = IF 1 <= k THEN k - 1 + 1 ELSE 0
          /\ \A i \in 1 .. k - 1 + 1 : top[i] = talkers[1 + i - 1]
      BY <1>7, <2>1, SubSeqProperties
    <2>3. Len(top) = k
      BY <1>7, <2>2
    <2> QED BY <1>7, <2>2, <2>3
  <1> HIDE DEF top, k
  <1>9. listed = { top[i] : i \in 1 .. k }
    BY <1>8 DEF ToSet
  <1>10. /\ \A i \in 1 .. k : top[i] \in listed
         /\ \A d \in listed : \E i \in 1 .. k : d = top[i]
    BY <1>9
  <1> HIDE DEF listed
  <1>11. Cardinality(listed) = k
    <2>1. top \in [1 .. k -> listed]
      BY <1>8, <1>10
    <2>2. \A i, j \in 1 .. k : i # j => top[i] # top[j]
      BY <1>6, <1>7, <1>8
    <2>5. top \in Injection(1 .. k, listed)
      BY <2>1, <2>2 DEF Injection, IsInjective
    <2>3. top \in Bijection(1 .. k, listed)
      BY <1>10, <2>1, <2>5 DEF Bijection, Surjection
    <2>4. IsFiniteSet(1 .. k) /\ Cardinality(1 .. k) = k
      BY <1>7, FS_Interval
    <2> QED BY <2>3, <2>4, FS_Bijection DEF ExistsBijection
  <1>12. ASSUME NEW c \in S \ listed, NEW d \in listed PROVE Volume(c) <= Volume(d)
    <2>1. PICK i \in 1 .. k : d = top[i]
      BY <1>10
    <2>2. PICK j \in 1 .. N : c = talkers[j]
      BY <1>5
    <2>3. j \notin 1 .. k
      BY <1>8, <1>10, <2>2
    <2>4. i < j /\ i \in 1 .. N /\ d = talkers[i]
      <3>1. i \in Int /\ i <= k /\ j \in Int /\ 1 <= j /\ ~(j <= k)
        BY <1>7, <2>3
      <3>2. i < j
        BY <1>7, <3>1
      <3> QED BY <1>7, <1>8, <2>1, <3>2
    <2>5. weight[d] >= weight[c]
      BY <1>4, <2>2, <2>4
    <2>6. d \in S
      BY <1>6, <2>4
    <2> QED BY <1>2, <1>3, <2>5, <2>6
  <1>13. Top(views, n) = top
    BY <1>5 DEF Top, top, talkers, weight, k
  <1> QED BY <1>5, <1>11, <1>12, <1>13 DEF listed, k

(* The summary a reader is given (api.rs:88-124) adds up to all that the   *)
(* running process has credited, and its top list is complete in the order *)
(* of the volumes, for every order of the HashMap.                         *)
THEOREM SummaryAlwaysCoversAll == Spec => []SummaryCoversAll
  <1>1. Init => RatesOK
    BY DEF Init, RatesOK
  <1>2. TotalsIInv /\ RatesOK => SummaryCoversAll
    <2> SUFFICES ASSUME TotalsIInv, RatesOK, NEW views \in Snapshots,
                        NEW n \in 0 .. Cardinality(Lan)
                 PROVE  LET answer == Summary(views, n)
                            listed == ToSet(answer.top)
                        IN  /\ answer.total_rx = SumFunction([c \in Lan |-> SumFor(credited, c).rx])
                            /\ answer.total_tx = SumFunction([c \in Lan |-> SumFor(credited, c).tx])
                            /\ Cardinality(listed) = IF n < Len(views) THEN n ELSE Len(views)
                            /\ \A c \in DOMAIN stats \ listed, d \in listed : Volume(c) <= Volume(d)
      BY DEF SummaryCoversAll
    <2> DEFINE rate == [c \in DOMAIN stats |-> stats[c].rx_bps + stats[c].tx_bps]
    <2>1. PICK any \in SetToSeqs(DOMAIN stats) : views = SortedBy(any, rate)
      BY DEF Snapshots
    <2>2. \A c \in DOMAIN stats : rate[c] \in Int
      BY DEF RatesOK
    <2>3. IsFiniteSet(DOMAIN stats) /\ n \in Nat
      <3>1. IsFiniteSet(Lan) /\ DOMAIN stats \in SUBSET Lan
        BY FS_Subset, AccountingAssumption DEF TotalsIInv, StatsOK
      <3> QED BY <3>1, FS_Subset
    <2> HIDE DEF rate
    <2>4. views \in SetToSeqs(DOMAIN stats)
      BY <2>1, <2>2, <2>3, SortedListing
    <2>5. /\ Summary(views, n).total_rx = SumRx(views)
          /\ Summary(views, n).total_tx = SumTx(views)
          /\ Summary(views, n).top = Top(views, n)
      BY DEF Summary
    <2>6. /\ Cardinality(ToSet(Top(views, n))) = IF n < Len(views) THEN n ELSE Len(views)
          /\ \A c \in DOMAIN stats \ ToSet(Top(views, n)), d \in ToSet(Top(views, n)) :
                Volume(c) <= Volume(d)
      BY <2>3, <2>4, TopTalkers
    <2> QED BY <2>4, <2>5, <2>6, SummaryTotals
  <1> QED BY <1>1, <1>2, RatesStep, TotalsSumTheCredit, PTL DEF Spec
===============================================================================
