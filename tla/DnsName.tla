------------------------------- MODULE DnsName -------------------------------
(***************************************************************************)
(* parse_dns_query of dns_parse.rs: from the bytes of one captured packet  *)
(* to the name of its first question, or to nothing.  The packet comes     *)
(* from any host of the LAN and may be cut short anywhere, and the name is *)
(* a walk that a pointer may send back to where it was.                    *)
(*                                                                         *)
(* Of the IP and UDP headers only the fields the code reads are kept; the  *)
(* bytes after them are real.  Offsets into the message count from 0, as   *)
(* in the code, so the byte at offset p is msg[p + 1].                     *)
(***************************************************************************)
EXTENDS Integers, Sequences

CONSTANTS Packets,     \* the packets that may be captured
          HeaderLen,   \* the 12 bytes of a DNS header
          MaxJumps,    \* MAX_LABEL_JUMPS: 5
          IsUtf8(_)    \* what std::str::from_utf8 accepts

Byte == 0 .. 255

(* `len' is the captured length.  What is captured beyond the headers is   *)
(* msg, so a packet that has a message has all of its headers.             *)
IpLen(p) == IF p.version = 4 THEN 4 * p.ihl ELSE 40

IsPacket(p) ==
    /\ p \in [version : Nat, ihl : 0 .. 15, proto : Byte, port : Nat, len : Nat,
              msg : Seq(Byte)]
    /\ p.msg # <<>> => p.len = IpLen(p) + 8 + Len(p.msg)
    /\ p.msg = <<>> => p.len <= IpLen(p) + 8

ASSUME DnsNameAssumption ==
    /\ \A p \in Packets : IsPacket(p)
    /\ HeaderLen \in Nat
    /\ MaxJumps \in Nat

VARIABLES pkt,      \* the packet
          stage,    \* the function at work: "ip", "udp", "dns", or "done"
          pos, jumps, labels,
          touched,  \* history: bytes of the packet, from its start, the step had to be able to read
          result    \* Option<String>

walkVars == <<pos, jumps, labels>>
vars == <<pkt, stage, walkVars, touched, result>>

None == [some |-> FALSE, name |-> <<>>]

Init ==
    /\ pkt \in Packets
    /\ stage = "ip"
    /\ pos = 0 /\ jumps = 0 /\ labels = <<>>
    /\ touched = 0
    /\ result = None

Finish(answer) ==
    /\ stage' = "done"
    /\ result' = answer
    /\ UNCHANGED <<pkt, walkVars>>

-------------------------------------------------------------------------------
(* parse_ip_header *)

Ipv4Unchecked == pkt.version = 4 /\ pkt.len >= 20 /\ IpLen(pkt) >= 20

Ipv4 == pkt.version = 4 /\ pkt.len >= 20 /\ IpLen(pkt) >= 20 /\ pkt.len >= IpLen(pkt)

Ipv6 == pkt.version = 6 /\ pkt.len >= 40

(* The protocol and source address, and the slice after the header.        *)
ParseIp ==
    /\ stage = "ip"
    /\ Ipv4 \/ Ipv6
    /\ stage' = "udp"
    /\ touched' = IpLen(pkt)
    /\ UNCHANGED <<pkt, walkVars, result>>

NotIp ==
    /\ stage = "ip"
    /\ ~Ipv4 /\ ~Ipv6
    /\ Finish(None)
    /\ touched' = IF pkt.len = 0 THEN 0 ELSE 1

(* parse_udp_header and the length check of parse_dns_qname *)

IsDnsQuery ==
    /\ pkt.proto = 17
    /\ pkt.len - IpLen(pkt) >= 8
    /\ pkt.port = 53
    /\ Len(pkt.msg) >= HeaderLen

ParseUdp ==
    /\ stage = "udp"
    /\ IsDnsQuery
    /\ stage' = "dns"
    /\ pos' = HeaderLen
    /\ touched' = IpLen(pkt) + 8
    /\ UNCHANGED <<pkt, jumps, labels, result>>

NotDns ==
    /\ stage = "udp"
    /\ ~IsDnsQuery
    /\ Finish(None)
    /\ UNCHANGED touched

-------------------------------------------------------------------------------
(* parse_dns_qname: one step per turn of its loop. *)

At(p) == pkt.msg[p + 1]

Reads(end) == touched' = IpLen(pkt) + 8 + end

Ends == pos < Len(pkt.msg) /\ At(pos) = 0

IsPointer == pos < Len(pkt.msg) /\ At(pos) >= 192

IsLabel == pos < Len(pkt.msg) /\ At(pos) \in 1 .. 63

Pointer == (At(pos) - 192) * 256 + At(pos + 1)

LabelEnd == pos + 1 + At(pos)

LabelWithLength == SubSeq(pkt.msg, pos + 1, LabelEnd)

Label == SubSeq(pkt.msg, pos + 2, LabelEnd)

(* labels.join(".") *)
Joined ==
    LET join[n \in 0 .. Len(labels)] ==
            IF n = 0 THEN <<>>
            ELSE (IF n = 1 THEN <<>> ELSE join[n - 1] \o <<46>>) \o labels[n]
    IN  join[Len(labels)]

Finds ==
    /\ stage = "dns"
    /\ Ends
    /\ Finish([some |-> TRUE, name |-> Joined])
    /\ Reads(pos + 1)

MayJump == pos + 1 < Len(pkt.msg) /\ jumps < MaxJumps /\ Pointer < pos

JumpUncounted ==
    /\ stage = "dns"
    /\ IsPointer
    /\ MayJump
    /\ pos' = Pointer
    /\ Reads(pos + 2)
    /\ UNCHANGED <<pkt, stage, jumps, labels, result>>

Jump ==
    /\ stage = "dns"
    /\ IsPointer
    /\ MayJump
    /\ jumps' = jumps + 1
    /\ pos' = Pointer
    /\ Reads(pos + 2)
    /\ UNCHANGED <<pkt, stage, labels, result>>

MayPush == LabelEnd <= Len(pkt.msg) /\ IsUtf8(Label)

Push ==
    /\ stage = "dns"
    /\ IsLabel
    /\ MayPush
    /\ labels' = Append(labels, Label)
    /\ pos' = LabelEnd
    /\ Reads(LabelEnd)
    /\ UNCHANGED <<pkt, stage, jumps, result>>

GivesUpUnlessReserved ==
    /\ stage = "dns"
    /\ pos < Len(pkt.msg) => At(pos) \notin 64 .. 191
    /\ ~Ends
    /\ IsPointer => ~MayJump
    /\ IsLabel => ~MayPush
    /\ Finish(None)
    /\ UNCHANGED touched

(* Past the end; a pointer cut off, too many or not backward; a label cut  *)
(* off or not UTF-8; a reserved length byte.  What it reads before giving  *)
(* up it has just compared with the length.                                *)
GivesUp ==
    /\ stage = "dns"
    /\ ~Ends
    /\ IsPointer => ~MayJump
    /\ IsLabel => ~MayPush
    /\ Finish(None)
    /\ UNCHANGED touched

Next == ParseIp \/ NotIp \/ ParseUdp \/ NotDns \/ Finds \/ Jump \/ Push \/ GivesUp

Spec == Init /\ [][Next]_vars

(* The parser runs to its end on the DNS thread.                           *)
FairSpec == Spec /\ WF_vars(Next)

-------------------------------------------------------------------------------
(* Properties. *)

(* Type correctness of the walk: the offset is in the message or at its    *)
(* end, and the jumps are at most MaxJumps.                                *)
TypeOK ==
    /\ IsPacket(pkt)
    /\ stage \in {"ip", "udp", "dns", "done"}
    /\ pos \in 0 .. Len(pkt.msg)
    /\ jumps \in 0 .. MaxJumps
    /\ touched \in Nat

(* No index or slice lies outside the packet, wherever it was cut off and  *)
(* wherever its pointers lead: the parser never panics, which would end    *)
(* the DNS thread (test truncated_packet_returns_none_not_panic).          *)
ReadsInBounds == touched <= pkt.len

(* The headers are there before anything behind them is read. *)
HeadersRead ==
    /\ stage = "ip" => touched = 0
    /\ stage = "udp" => touched = IpLen(pkt) /\ touched <= pkt.len
    /\ stage = "dns" => pkt.len = IpLen(pkt) + 8 + Len(pkt.msg)

WalkInv == TypeOK /\ ReadsInBounds /\ HeadersRead

(* The walk can come back to an offset (a label followed by a pointer to   *)
(* that label: dns_parse.rs:3-6), and yet every turn of the loop brings    *)
(* the end nearer: it uses up one of MAX_LABEL_JUMPS, or moves forward.    *)
(* With the bounds of TypeOK on both there are at most                     *)
(* (MaxJumps + 1) * Len(msg) turns, and no name is longer.                 *)
WalkProgresses ==
    [][stage = "dns" /\ stage' = "dns" => jumps' > jumps \/ (jumps' = jumps /\ pos' > pos)]_vars

(* Every packet is decided, malformed or not (test                         *)
(* malformed_forward_pointing_compression_pointer_does_not_loop).          *)
Terminates == <>(stage = "done")

(* The name at an offset, read from its other end: each label after a dot, *)
(* up to a zero, through at most so many pointers, each to an earlier      *)
(* offset.  The function d has the names at the places it goes on to; a    *)
(* place e is the number of jumps left and the offset.                     *)
Malformed == <<0>>

Dot == <<46>>

AfterLabel(msg, d, e) ==
    LET end == e[2] + 1 + msg[e[2] + 1]
        label == SubSeq(msg, e[2] + 2, end)
    IN  IF end > Len(msg) \/ ~IsUtf8(label) \/ d[<<e[1], end>>] = Malformed THEN Malformed
        ELSE Dot \o label \o d[<<e[1], end>>]

AfterPointer(msg, d, e) ==
    LET to == 256 * (msg[e[2] + 1] % 64) + msg[e[2] + 2]
    IN  IF e[2] + 1 = Len(msg) \/ e[1] = 0 \/ to >= e[2] THEN Malformed
        ELSE d[<<e[1] - 1, to>>]

NameAt(msg, d, e) ==
    CASE e[2] < Len(msg) /\ msg[e[2] + 1] = 0 -> <<>>
      [] e[2] < Len(msg) /\ msg[e[2] + 1] \in 1 .. 63 -> AfterLabel(msg, d, e)
      [] e[2] < Len(msg) /\ msg[e[2] + 1] \in 192 .. 255 -> AfterPointer(msg, d, e)
      [] OTHER -> Malformed

Dotted ==
    LET dotted[e \in (0 .. MaxJumps) \X (0 .. Len(pkt.msg))] == NameAt(pkt.msg, dotted, e)
    IN  dotted[<<MaxJumps, HeaderLen>>]

(* The headers are whole, and those of a message to a resolver. *)
AsksName == (Ipv4 \/ Ipv6) /\ IsDnsQuery

(* What comes out is the name the bytes encode, and it does whenever they  *)
(* encode one in a message to a resolver, wherever in it the walk ends;    *)
(* any other packet comes to nothing.                                      *)
NameIsEncoded ==
    stage = "done" =>
        result = IF ~AsksName \/ Dotted = Malformed THEN None
                 ELSE [some |-> TRUE, name |-> IF Dotted = <<>> THEN <<>> ELSE Tail(Dotted)]
===============================================================================
