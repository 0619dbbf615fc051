------------------------------ MODULE MCDnsName ------------------------------
(* Every message of up to five bytes from a set that has a zero, labels of   *)
(* one and two bytes, a reserved length and a pointer's first byte, behind  *)
(* an IPv4 header; and headers of every kind, cut off everywhere.           *)
EXTENDS DnsName

MCBytes == {0, 1, 2, 64, 192}

MCPacket(version, ihl, proto, port, len, msg) ==
    [version |-> version, ihl |-> ihl, proto |-> proto, port |-> port, len |-> len, msg |-> msg]

MCMessages == UNION { { MCPacket(4, 5, 17, 53, 28 + n, m) : m \in [1 .. n -> MCBytes] } : n \in 1 .. 5 }

MCCutOff ==
    { p \in { MCPacket(v, ihl, proto, port, len, <<>>) :
                 v \in {4, 5, 6}, ihl \in {4, 5, 6}, proto \in {6, 17}, port \in {53, 80}, len \in 0 .. 48 } :
        p.len <= IpLen(p) + 8 }

MCOptions ==
    { MCPacket(v, 6, 17, port, IF v = 4 THEN 24 + 8 + Len(m) ELSE 40 + 8 + Len(m), m) :
        v \in {4, 6}, port \in {53, 80}, m \in UNION {[1 .. k -> {0, 1}] : k \in 1 .. 4} }

MCPackets == UNION { MCMessages, MCCutOff, MCOptions }

(* 192 is no byte of any UTF-8 text; the other bytes of MCBytes are ASCII.  *)
MCIsUtf8(label) == \A i \in DOMAIN label : label[i] # 192
===============================================================================
