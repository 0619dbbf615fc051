---------------------------- MODULE DnsName_proofs ----------------------------
(***************************************************************************)
(* The parser stays inside the packet, its walk ends, and what it returns  *)
(* is the name the bytes encode, for packets of any length and content and *)
(* any cap on jumps.                                                       *)
(*                                                                         *)
(* The name is a recursive function of the place in the message; that      *)
(* there is one (NamesExist) comes from RecursionExists, because every     *)
(* step of the recursion leaves less of the walk (LeftShrinks).            *)
(***************************************************************************)
EXTENDS DnsName, Data_proofs

LEMMA PacketTypes ==
    ASSUME NEW p, IsPacket(p)
    PROVE  /\ p.len \in Nat /\ Len(p.msg) \in Nat /\ IpLen(p) \in Nat
           /\ p.msg \in Seq(Byte)
           /\ \A q \in 0 .. Len(p.msg) - 1 : p.msg[q + 1] \in Byte
<1>1. p.len \in Nat /\ p.msg \in Seq(Byte) /\ p.ihl \in Nat
  <2>1. p \in [version : Nat, ihl : 0 .. 15, proto : Byte, port : Nat, len : Nat, msg : Seq(Byte)]
      BY DEF IsPacket
  <2>2. p.ihl \in 0 .. 15
      BY <2>1
  <2>. QED BY <2>1, <2>2
<1>2. Len(p.msg) \in Nat
    BY <1>1
<1>3. IpLen(p) \in Nat
    BY <1>1 DEF IpLen
<1>4. ASSUME NEW q \in 0 .. Len(p.msg) - 1
      PROVE  p.msg[q + 1] \in Byte
  <2>1. q + 1 \in 1 .. Len(p.msg)
      BY <1>2
  <2>. QED BY <1>1, <2>1
<1>. QED BY <1>1, <1>2, <1>3, <1>4

LEMMA InitWalk == Init => WalkInv
<1>. SUFFICES ASSUME Init PROVE WalkInv
    OBVIOUS
<1>1. IsPacket(pkt)
    BY DnsNameAssumption DEF Init
<1>. QED BY <1>1, PacketTypes, DnsNameAssumption DEF Init, WalkInv, TypeOK, ReadsInBounds, HeadersRead

(* Both header parsers take a slice only after comparing with its length.  *)
LEMMA HeadersWalk ==
    ASSUME WalkInv, ParseIp \/ NotIp \/ ParseUdp \/ NotDns
    PROVE  WalkInv'
<1>1. /\ IsPacket(pkt) /\ pkt' = pkt
      /\ pkt.len \in Nat /\ Len(pkt.msg) \in Nat /\ IpLen(pkt) \in Nat
    BY PacketTypes DEF WalkInv, TypeOK, ParseIp, NotIp, ParseUdp, NotDns, Finish
<1>2. CASE ParseIp
  <2>1. IpLen(pkt) <= pkt.len
      BY <1>1, <1>2 DEF ParseIp, Ipv4, Ipv6, IpLen
  <2>. QED BY <1>1, <1>2, <2>1 DEF ParseIp, WalkInv, TypeOK, ReadsInBounds, HeadersRead, walkVars,
           IpLen
<1>3. CASE NotIp
    BY <1>1, <1>3 DEF NotIp, Finish, WalkInv, TypeOK, ReadsInBounds, HeadersRead, walkVars
<1>4. CASE ParseUdp
  <2>1. pkt.len = IpLen(pkt) + 8 + Len(pkt.msg) /\ HeaderLen <= Len(pkt.msg)
    <3>1. CASE pkt.msg = <<>>
        BY <1>1, <1>4, <3>1 DEF ParseUdp, IsDnsQuery, IsPacket
    <3>2. CASE pkt.msg # <<>>
        BY <1>1, <1>4, <3>2 DEF ParseUdp, IsDnsQuery, IsPacket
    <3>. QED BY <3>1, <3>2
  <2>2. /\ stage' = "dns" /\ pos' = HeaderLen /\ jumps' = jumps
        /\ touched' = IpLen(pkt) + 8 /\ HeaderLen \in Nat
      BY <1>4, DnsNameAssumption DEF ParseUdp
  <2>3. pos' \in 0 .. Len(pkt.msg) /\ touched' \in Nat /\ touched' <= pkt.len
      BY <1>1, <2>1, <2>2
  <2>. QED BY <1>1, <2>1, <2>2, <2>3 DEF WalkInv, TypeOK, ReadsInBounds, HeadersRead, IpLen
<1>5. CASE NotDns
    BY <1>1, <1>5 DEF NotDns, Finish, WalkInv, TypeOK, ReadsInBounds, HeadersRead, walkVars
<1>. QED BY <1>2, <1>3, <1>4, <1>5

(* Every turn of the loop reads below an offset it compared with the       *)
(* length, and leaves pos inside the message.                              *)
LEMMA TurnsWalk ==
    ASSUME WalkInv, Finds \/ Jump \/ Push \/ GivesUp
    PROVE  WalkInv'
<1>1. /\ IsPacket(pkt) /\ pkt' = pkt
      /\ pkt.len \in Nat /\ Len(pkt.msg) \in Nat /\ IpLen(pkt) \in Nat
      /\ pkt.len = IpLen(pkt) + 8 + Len(pkt.msg)
      /\ pos \in 0 .. Len(pkt.msg)
    BY PacketTypes DEF WalkInv, TypeOK, HeadersRead, Finds, Jump, Push, GivesUp, Finish
<1>2. /\ jumps \in 0 .. MaxJumps /\ touched \in Nat /\ MaxJumps \in Nat
      /\ pos < Len(pkt.msg) => At(pos) \in Byte
    BY <1>1, PacketTypes, DnsNameAssumption DEF At, WalkInv, TypeOK
<1>3. CASE Finds
  <2>1. /\ stage' = "done" /\ pos' = pos /\ jumps' = jumps /\ pos < Len(pkt.msg)
        /\ touched' = IpLen(pkt) + 8 + (pos + 1)
      BY <1>1, <1>3 DEF Finds, Ends, Reads, Finish, walkVars
  <2>. QED BY <1>1, <1>2, <2>1 DEF WalkInv, TypeOK, ReadsInBounds, HeadersRead
<1>4. CASE Jump
  <2>1. pos + 1 < Len(pkt.msg) /\ At(pos) >= 192 /\ At(pos + 1) \in Byte /\ At(pos) \in Byte
      BY <1>1, <1>2, <1>4, PacketTypes DEF Jump, IsPointer, MayJump, At
  <2>2. Pointer \in 0 .. pos - 1
    <3>. DEFINE high == At(pos)  low == At(pos + 1)
    <3>1. (high - 192) * 256 + low < pos
        BY <1>4 DEF Jump, MayJump, Pointer
    <3>2. high \in Byte /\ high >= 192 /\ low \in Byte
        BY <2>1
    <3>. HIDE DEF high, low
    <3>3. (high - 192) * 256 + low \in 0 .. pos - 1
        BY <1>1, <3>1, <3>2 DEF Byte
    <3>. QED BY <3>3 DEF Pointer, high, low
  <2>3. /\ stage' = "dns" /\ stage = "dns" /\ jumps' = jumps + 1 /\ jumps < MaxJumps
        /\ pos' = Pointer /\ touched' = IpLen(pkt) + 8 + (pos + 2)
      BY <1>1, <1>4 DEF Jump, MayJump, Reads
  <2>4. jumps' \in 0 .. MaxJumps /\ pos' \in 0 .. Len(pkt.msg) /\ touched' \in Nat
        /\ touched' <= pkt.len
      BY <1>1, <1>2, <2>1, <2>2, <2>3
  <2>. QED BY <1>1, <2>3, <2>4 DEF WalkInv, TypeOK, ReadsInBounds, HeadersRead
<1>5. CASE Push
  <2>1. LabelEnd \in 0 .. Len(pkt.msg)
    <3>. DEFINE len == At(pos)
    <3>1. len \in 1 .. 63 /\ pos + 1 + len <= Len(pkt.msg)
        BY <1>5 DEF Push, IsLabel, MayPush, LabelEnd
    <3>. HIDE DEF len
    <3>2. pos + 1 + len \in 0 .. Len(pkt.msg)
        BY <1>1, <3>1
    <3>. QED BY <3>2 DEF LabelEnd, len
  <2>2. /\ stage' = "dns" /\ jumps' = jumps /\ pos' = LabelEnd
        /\ touched' = IpLen(pkt) + 8 + LabelEnd /\ stage = "dns"
      BY <1>1, <1>5 DEF Push, Reads
  <2>3. pos' \in 0 .. Len(pkt.msg) /\ touched' \in Nat /\ touched' <= pkt.len
      BY <1>1, <2>1, <2>2
  <2>. QED BY <1>1, <1>2, <2>2, <2>3 DEF WalkInv, TypeOK, ReadsInBounds, HeadersRead
<1>6. CASE GivesUp
    BY <1>1, <1>6 DEF GivesUp, Finish, WalkInv, TypeOK, ReadsInBounds, HeadersRead, walkVars
<1>. QED BY <1>3, <1>4, <1>5, <1>6

LEMMA NextWalk == WalkInv /\ [Next]_vars => WalkInv'
<1>. SUFFICES ASSUME WalkInv, [Next]_vars PROVE WalkInv'
    OBVIOUS
<1>1. CASE UNCHANGED vars
    BY <1>1 DEF vars, walkVars, WalkInv, TypeOK, ReadsInBounds, HeadersRead
<1>. QED BY <1>1, HeadersWalk, TurnsWalk DEF Next

LEMMA Walk == Spec => []WalkInv
BY InitWalk, NextWalk, PTL DEF Spec

(* The offset stays in the message or at its end and the jumps within      *)
(* their cap: the bounds that make the walk end.                           *)
THEOREM TypeCorrect == Spec => []TypeOK
<1>1. WalkInv => TypeOK
    BY DEF WalkInv
<1>. QED BY <1>1, Walk, PTL

(* The parser reads nothing outside the packet. *)
THEOREM NothingReadOutside == Spec => []ReadsInBounds
<1>1. WalkInv => ReadsInBounds
    BY DEF WalkInv
<1>. QED BY <1>1, Walk, PTL

(* Every turn of the loop uses up a jump or moves forward; both are        *)
(* bounded (TypeOK), so the loop ends.                                     *)
THEOREM EveryTurnProgresses == Spec => WalkProgresses
<1>. DEFINE Step == stage = "dns" /\ stage' = "dns"
                        => jumps' > jumps \/ (jumps' = jumps /\ pos' > pos)
<1>1. WalkInv /\ [Next]_vars => [Step]_vars
  <2>. SUFFICES ASSUME WalkInv, Next, stage = "dns", stage' = "dns"
                PROVE  jumps' > jumps \/ (jumps' = jumps /\ pos' > pos)
      BY DEF Step
  <2>1. CASE Jump
      BY <2>1 DEF Jump, WalkInv, TypeOK
  <2>2. CASE Push
    <3>1. pos \in Nat /\ jumps' = jumps /\ pos' = pos + 1 + At(pos) /\ At(pos) \in 1 .. 63
        BY <2>2, PacketTypes DEF Push, IsLabel, LabelEnd, WalkInv, TypeOK
    <3>. QED BY <3>1
  <2>. QED BY <2>1, <2>2 DEF Next, ParseIp, NotIp, ParseUdp, NotDns, Finds, GivesUp, Finish
<1>2. Spec => [][Step]_vars
    BY <1>1, Walk, PTL DEF Spec
<1>. QED BY <1>2 DEF WalkProgresses

-------------------------------------------------------------------------------
(* What the bytes encode.                                                  *)

Places(msg) == (0 .. MaxJumps) \X (0 .. Len(msg))

(* How far it is from a place to the end at most: every turn of the walk   *)
(* comes nearer.                                                           *)
Left(msg, e) == e[1] * (Len(msg) + 1) + (Len(msg) - e[2])

LEMMA LeftShrinks ==
    ASSUME NEW msg \in Seq(Byte), NEW e \in Places(msg)
    PROVE  /\ Left(msg, e) \in 0 .. MaxJumps * (Len(msg) + 1) + Len(msg)
           /\ \A end \in Int : e[2] < end /\ end <= Len(msg) =>
                 <<e[1], end>> \in Places(msg) /\ Left(msg, <<e[1], end>>) < Left(msg, e)
           /\ \A to \in Nat : to < e[2] /\ e[1] # 0 =>
                 <<e[1] - 1, to>> \in Places(msg) /\ Left(msg, <<e[1] - 1, to>>) < Left(msg, e)
<1> DEFINE L == Len(msg)
           j == e[1]
           p == e[2]
<1>1. /\ L \in Nat /\ MaxJumps \in Nat
      /\ j \in 0 .. MaxJumps /\ p \in 0 .. L /\ e = <<j, p>>
    BY DnsNameAssumption DEF Places
<1>2. Left(msg, e) = j * (L + 1) + (L - p)
    BY DEF Left
<1>3. \A i \in 0 .. MaxJumps, q \in 0 .. L : <<i, q>> \in Places(msg)
    BY DEF Places
<1>4. \A i, q : Left(msg, <<i, q>>) = i * (L + 1) + (L - q)
    BY DEF Left
<1> HIDE DEF L, j, p
<1>5. j * (L + 1) \in Nat /\ MaxJumps * (L + 1) \in Nat /\ j * (L + 1) <= MaxJumps * (L + 1)
  <2>1. MaxJumps - j \in Nat /\ L + 1 \in Nat
      BY <1>1
  <2>2. (MaxJumps - j) * (L + 1) \in Nat /\ j * (L + 1) \in Nat /\ MaxJumps * (L + 1) \in Nat
      BY <1>1, <2>1
  <2>3. MaxJumps * (L + 1) = j * (L + 1) + (MaxJumps - j) * (L + 1)
      BY <1>1, <2>1
  <2> QED BY <2>2, <2>3
<1>6. Left(msg, e) \in 0 .. MaxJumps * (L + 1) + L
    BY <1>1, <1>2, <1>5
<1>7. ASSUME NEW end \in Int, p < end, end <= L
      PROVE  <<j, end>> \in Places(msg) /\ Left(msg, <<j, end>>) < Left(msg, e)
  <2>1. end \in 0 .. L
      BY <1>1, <1>7
  <2>2. j * (L + 1) + (L - end) < j * (L + 1) + (L - p)
      BY <1>1, <1>5, <1>7
  <2> QED BY <1>1, <1>2, <1>3, <1>4, <2>1, <2>2
<1>8. ASSUME NEW to \in Nat, to < p, j # 0
      PROVE  <<j - 1, to>> \in Places(msg) /\ Left(msg, <<j - 1, to>>) < Left(msg, e)
  <2>1. j - 1 \in 0 .. MaxJumps /\ to \in 0 .. L
      BY <1>1, <1>8
  <2>2. (j - 1) * (L + 1) = j * (L + 1) - (L + 1)
      BY <1>1
  <2>3. (j - 1) * (L + 1) + (L - to) < j * (L + 1) + (L - p)
      BY <1>1, <1>5, <2>1, <2>2
  <2> QED BY <1>2, <1>3, <1>4, <2>1, <2>3
<1> QED BY <1>6, <1>7, <1>8 DEF L, j, p

LEMMA NameAtCases ==
    ASSUME NEW msg \in Seq(Byte), NEW e \in Places(msg), NEW d
    PROVE  /\ e[2] = Len(msg) => NameAt(msg, d, e) = Malformed
           /\ e[2] < Len(msg) =>
                /\ msg[e[2] + 1] \in Byte
                /\ msg[e[2] + 1] = 0 => NameAt(msg, d, e) = <<>>
                /\ msg[e[2] + 1] \in 1 .. 63 => NameAt(msg, d, e) = AfterLabel(msg, d, e)
                /\ msg[e[2] + 1] \in 64 .. 191 => NameAt(msg, d, e) = Malformed
                /\ msg[e[2] + 1] \in 192 .. 255 => NameAt(msg, d, e) = AfterPointer(msg, d, e)
<1> DEFINE p == e[2]
           byte == msg[p + 1]
<1>1. p \in 0 .. Len(msg) /\ Len(msg) \in Nat
    BY DEF Places
<1>2. p < Len(msg) => byte \in Byte
  <2>1. p < Len(msg) => p + 1 \in 1 .. Len(msg)
      BY <1>1
  <2> QED BY <2>1
<1>3. NameAt(msg, d, e) =
         CASE p < Len(msg) /\ byte = 0 -> <<>>
           [] p < Len(msg) /\ byte \in 1 .. 63 -> AfterLabel(msg, d, e)
           [] p < Len(msg) /\ byte \in 192 .. 255 -> AfterPointer(msg, d, e)
           [] OTHER -> Malformed
    BY DEF NameAt
<1> HIDE DEF p, byte
<1>4. byte \in 1 .. 63 => byte # 0 /\ byte \notin 192 .. 255
    OBVIOUS
<1>5. byte \in 64 .. 191 => byte # 0 /\ byte \notin 1 .. 63 /\ byte \notin 192 .. 255
    OBVIOUS
<1>6. byte \in 192 .. 255 => byte # 0 /\ byte \notin 1 .. 63
    OBVIOUS
<1>7. byte = 0 => byte \notin 1 .. 63 /\ byte \notin 192 .. 255
    OBVIOUS
<1>8. p = Len(msg) => ~(p < Len(msg))
    BY <1>1
<1> DEFINE name == NameAt(msg, d, e)
<1> HIDE DEF name
<1>9. name = CASE p < Len(msg) /\ byte = 0 -> <<>>
               [] p < Len(msg) /\ byte \in 1 .. 63 -> AfterLabel(msg, d, e)
               [] p < Len(msg) /\ byte \in 192 .. 255 -> AfterPointer(msg, d, e)
               [] OTHER -> Malformed
    BY <1>3 DEF name
<1>10. p = Len(msg) => name = Malformed
    BY <1>8, <1>9
<1>11. p < Len(msg) /\ byte = 0 => name = <<>>
    BY <1>7, <1>9
<1>12. p < Len(msg) /\ byte \in 1 .. 63 => name = AfterLabel(msg, d, e)
    BY <1>4, <1>9
<1>13. p < Len(msg) /\ byte \in 64 .. 191 => name = Malformed
    BY <1>5, <1>9
<1>14. p < Len(msg) /\ byte \in 192 .. 255 => name = AfterPointer(msg, d, e)
    BY <1>6, <1>9
<1> QED BY <1>2, <1>10, <1>11, <1>12, <1>13, <1>14 DEF p, byte, name

(* A place is decided by the places nearer to the end. *)
LEMMA AfterLabelDepends ==
    ASSUME NEW msg \in Seq(Byte), NEW e \in Places(msg), NEW g, NEW h,
           e[2] < Len(msg), msg[e[2] + 1] \in 1 .. 63,
           \A y \in Places(msg) : Left(msg, y) < Left(msg, e) => g[y] = h[y] /\ g[y] \in Seq(Byte)
    PROVE  AfterLabel(msg, g, e) = AfterLabel(msg, h, e) /\ AfterLabel(msg, g, e) \in Seq(Byte)
<1> DEFINE end == e[2] + 1 + msg[e[2] + 1]
           label == SubSeq(msg, e[2] + 2, end)
           next == <<e[1], end>>
<1>1. e[2] \in Nat /\ Len(msg) \in Nat /\ end \in Nat /\ e[2] < end
  <2>1. e[2] \in Nat /\ Len(msg) \in Nat
      BY DEF Places
  <2> DEFINE p == e[2]  byte == msg[e[2] + 1]
  <2>2. p \in Nat /\ byte \in 1 .. 63
      BY <2>1
  <2> HIDE DEF p, byte
  <2>3. p + 1 + byte \in Nat /\ p < p + 1 + byte
      BY <2>2
  <2> QED BY <2>1, <2>3 DEF p, byte
<1>2. CASE end > Len(msg) \/ ~IsUtf8(label)
  <2>1. AfterLabel(msg, g, e) = Malformed /\ AfterLabel(msg, h, e) = Malformed
      BY <1>2 DEF AfterLabel
  <2> QED BY <2>1 DEF Malformed, Byte
<1>3. CASE ~(end > Len(msg) \/ ~IsUtf8(label))
  <2>1. next \in Places(msg) /\ Left(msg, next) < Left(msg, e)
      BY <1>1, <1>3, LeftShrinks
  <2>2. g[next] = h[next] /\ g[next] \in Seq(Byte)
      BY <2>1
  <2>3. label \in Seq(Byte)
    <3>1. \A i \in e[2] + 2 .. end : msg[i] \in Byte
      <4>1. \A i \in e[2] + 2 .. end : i \in 1 .. Len(msg)
          BY <1>1, <1>3
      <4> QED BY <4>1
    <3> HIDE DEF end
    <3> QED BY <1>1, <1>3, <3>1, SubSeqProperties
  <2>4. Dot \o label \o g[next] \in Seq(Byte) /\ Malformed \in Seq(Byte)
    <3> HIDE DEF label, next
    <3>1. Dot \in Seq(Byte) /\ Malformed \in Seq(Byte)
        BY DEF Dot, Malformed, Byte
    <3> QED BY <2>2, <2>3, <3>1
  <2>5. \A d : AfterLabel(msg, d, e) =
                  IF d[next] = Malformed THEN Malformed ELSE Dot \o label \o d[next]
      BY <1>3 DEF AfterLabel
  <2> HIDE DEF label, next
  <2> QED BY <2>2, <2>4, <2>5
<1> QED BY <1>2, <1>3

LEMMA AfterPointerDepends ==
    ASSUME NEW msg \in Seq(Byte), NEW e \in Places(msg), NEW g, NEW h,
           e[2] < Len(msg), msg[e[2] + 1] \in 192 .. 255,
           \A y \in Places(msg) : Left(msg, y) < Left(msg, e) => g[y] = h[y] /\ g[y] \in Seq(Byte)
    PROVE  AfterPointer(msg, g, e) = AfterPointer(msg, h, e) /\ AfterPointer(msg, g, e) \in Seq(Byte)
<1> DEFINE to == 256 * (msg[e[2] + 1] % 64) + msg[e[2] + 2]
           next == <<e[1] - 1, to>>
<1>1. e[2] \in Nat /\ Len(msg) \in Nat /\ e[1] \in Nat
    BY DEF Places
<1>2. CASE e[2] + 1 = Len(msg) \/ e[1] = 0 \/ to >= e[2]
  <2>1. AfterPointer(msg, g, e) = Malformed /\ AfterPointer(msg, h, e) = Malformed
      BY <1>2 DEF AfterPointer
  <2> QED BY <2>1 DEF Malformed, Byte
<1>3. CASE ~(e[2] + 1 = Len(msg) \/ e[1] = 0 \/ to >= e[2])
  <2>1. to \in Nat /\ to < e[2] /\ e[1] # 0
    <3> DEFINE high == msg[e[2] + 1]  low == msg[e[2] + 2]
    <3>1. high \in 192 .. 255 /\ low \in Byte
      <4>1. e[2] + 2 \in 1 .. Len(msg)
          BY <1>1, <1>3
      <4> QED BY <4>1
    <3> HIDE DEF high, low
    <3>2. 256 * (high % 64) + low \in Nat
        BY <3>1 DEF Byte
    <3> QED BY <1>1, <1>3, <3>2 DEF high, low
  <2>2. next \in Places(msg) /\ Left(msg, next) < Left(msg, e)
      BY <2>1, LeftShrinks
  <2>3. g[next] = h[next] /\ g[next] \in Seq(Byte)
      BY <2>2
  <2>4. \A d : AfterPointer(msg, d, e) = d[next]
      BY <1>3 DEF AfterPointer
  <2> HIDE DEF next
  <2> QED BY <2>3, <2>4
<1> QED BY <1>2, <1>3

LEMMA NameAtDepends ==
    ASSUME NEW msg \in Seq(Byte), NEW e \in Places(msg), NEW g, NEW h,
           \A y \in Places(msg) : Left(msg, y) < Left(msg, e) => g[y] = h[y] /\ g[y] \in Seq(Byte)
    PROVE  NameAt(msg, g, e) = NameAt(msg, h, e) /\ NameAt(msg, g, e) \in Seq(Byte)
<1>1. Malformed \in Seq(Byte) /\ <<>> \in Seq(Byte)
    BY DEF Malformed, Byte
<1>2. CASE e[2] = Len(msg)
    BY <1>1, <1>2, NameAtCases
<1>3. CASE e[2] < Len(msg)
  <2>1. msg[e[2] + 1] \in Byte
      BY <1>3, NameAtCases
  <2>2. CASE msg[e[2] + 1] = 0
    <3>1. NameAt(msg, g, e) = <<>> /\ NameAt(msg, h, e) = <<>>
        BY <1>3, <2>2, NameAtCases
    <3> QED BY <1>1, <3>1
  <2>3. CASE msg[e[2] + 1] \in 1 .. 63
    <3>1. NameAt(msg, g, e) = AfterLabel(msg, g, e) /\ NameAt(msg, h, e) = AfterLabel(msg, h, e)
        BY <1>3, <2>3, NameAtCases
    <3>2. AfterLabel(msg, g, e) = AfterLabel(msg, h, e) /\ AfterLabel(msg, g, e) \in Seq(Byte)
        BY <1>3, <2>3, AfterLabelDepends
    <3> QED BY <3>1, <3>2
  <2>4. CASE msg[e[2] + 1] \in 64 .. 191
      BY <1>1, <1>3, <2>4, NameAtCases
  <2>5. CASE msg[e[2] + 1] \in 192 .. 255
    <3>1. NameAt(msg, g, e) = AfterPointer(msg, g, e) /\ NameAt(msg, h, e) = AfterPointer(msg, h, e)
        BY <1>3, <2>5, NameAtCases
    <3>2. AfterPointer(msg, g, e) = AfterPointer(msg, h, e) /\ AfterPointer(msg, g, e) \in Seq(Byte)
        BY <1>3, <2>5, AfterPointerDepends
    <3> QED BY <3>1, <3>2
  <2> QED BY <2>1, <2>2, <2>3, <2>4, <2>5 DEF Byte
<1>4. e[2] = Len(msg) \/ e[2] < Len(msg)
    BY DEF Places
<1> QED BY <1>2, <1>3, <1>4

(* So the names are well defined, and they are sequences of bytes.         *)
Names(msg) == CHOOSE d : d = [e \in Places(msg) |-> NameAt(msg, d, e)]

LEMMA NamesExist ==
    ASSUME NEW msg \in Seq(Byte)
    PROVE  Names(msg) = [e \in Places(msg) |-> NameAt(msg, Names(msg), e)]
<1> DEFINE S == Places(msg)
           V == Seq(Byte)
           F == [x \in S \X [S -> V] |-> NameAt(msg, x[2], x[1])]
           measure == [e \in S |-> Left(msg, e)]
           bound == MaxJumps * (Len(msg) + 1) + Len(msg)
<1>1. bound \in Nat
    BY DnsNameAssumption
<1>2. F \in [S \X [S -> V] -> V]
  <2>1. ASSUME NEW x \in S \X [S -> V]
        PROVE  NameAt(msg, x[2], x[1]) \in V
    <3>1. x[1] \in S /\ x[2] \in [S -> V]
        BY <2>1
    <3>2. \A y \in Places(msg) : x[2][y] \in Seq(Byte)
        BY <3>1
    <3> QED BY <3>1, <3>2, NameAtDepends
  <2> QED BY <2>1
<1>3. measure \in [S -> 0 .. bound]
    BY LeftShrinks
<1>4. ASSUME NEW x \in S, NEW g \in [S -> V], NEW h \in [S -> V],
             \A y \in S : measure[y] < measure[x] => g[y] = h[y]
      PROVE  F[<<x, g>>] = F[<<x, h>>]
  <2>1. F[<<x, g>>] = NameAt(msg, g, x) /\ F[<<x, h>>] = NameAt(msg, h, x)
      OBVIOUS
  <2>2. \A y \in Places(msg) : Left(msg, y) < Left(msg, x) => g[y] = h[y] /\ g[y] \in Seq(Byte)
      BY <1>4
  <2> QED BY <2>1, <2>2, NameAtDepends
<1>5. Recursive(S, V, F, measure, bound)
  <2> HIDE DEF S, V, F, measure, bound
  <2> QED BY <1>2, <1>3, <1>4 DEF Recursive
<1>6. Solvable(S, V, F)
  <2>1. V # {}
    <3>1. <<>> \in V
        OBVIOUS
    <3> QED BY <3>1
  <2> HIDE DEF S, V, F, measure, bound
  <2> QED BY <1>1, <1>5, <2>1, RecursionExists
<1>7. PICK f \in [S -> V] : \A x \in S : f[x] = F[<<x, f>>]
    BY <1>6 DEF Solvable
<1>8. f = [e \in Places(msg) |-> NameAt(msg, f, e)]
    BY <1>7
<1> QED BY <1>8 DEF Names

LEMMA NamesAreBytes ==
    ASSUME NEW msg \in Seq(Byte)
    PROVE  Names(msg) \in [Places(msg) -> Seq(Byte)]
<1> DEFINE N(n) == \A e \in Places(msg) : Left(msg, e) < n => Names(msg)[e] \in Seq(Byte)
           Typed == {n \in Nat : N(n)}
<1>1. \A e \in Places(msg) : Names(msg)[e] = NameAt(msg, Names(msg), e)
    BY NamesExist
<1>2. \A e \in Places(msg) : Left(msg, e) \in Nat
    BY LeftShrinks, DnsNameAssumption
<1>3. N(0)
    BY <1>2
<1>4. ASSUME NEW n \in Nat, N(n) PROVE N(n + 1)
  <2>1. ASSUME NEW e \in Places(msg), Left(msg, e) < n + 1
        PROVE  Names(msg)[e] \in Seq(Byte)
    <3>1. Left(msg, e) <= n
        BY <1>2, <2>1
    <3>2. \A y \in Places(msg) : Left(msg, y) < Left(msg, e) => Names(msg)[y] \in Seq(Byte)
        BY <1>2, <1>4, <3>1
    <3> QED BY <1>1, <3>2, NameAtDepends
  <2> QED BY <2>1
<1>5. \A n \in Nat : N(n)
  <2> HIDE DEF N
  <2>1. 0 \in Typed /\ \A n \in Nat : n \in Typed => n + 1 \in Typed
      BY <1>3, <1>4
  <2> HIDE DEF Typed
  <2>2. \A n \in Nat : n \in Typed
      BY <2>1, NatInduct
  <2> QED BY <2>2 DEF Typed
<1>6. \A e \in Places(msg) : Names(msg)[e] \in Seq(Byte)
  <2>1. ASSUME NEW e \in Places(msg) PROVE Names(msg)[e] \in Seq(Byte)
    <3>1. Left(msg, e) + 1 \in Nat /\ Left(msg, e) < Left(msg, e) + 1
        BY <1>2
    <3> QED BY <1>5, <3>1
  <2> QED BY <2>1
<1> QED BY <1>6, NamesExist

LEMMA DottedIsNamed == Dotted = Names(pkt.msg)[<<MaxJumps, HeaderLen>>]
BY DEF Dotted, Names, Places

(* The labels so far, joined: the function Joined takes its value from.    *)
JoinStep(ls, f, n) == IF n = 0 THEN <<>> ELSE (IF n = 1 THEN <<>> ELSE f[n - 1] \o <<46>>) \o ls[n]

Joins(ls) == CHOOSE f : f = [n \in 0 .. Len(ls) |-> JoinStep(ls, f, n)]

LEMMA JoinedIsJoins == Joined = Joins(labels)[Len(labels)]
BY DEF Joined, Joins, JoinStep

LEMMA JoinStepType ==
    ASSUME NEW ls \in Seq(Seq(Byte)), NEW n \in 0 .. Len(ls), NEW f,
           n > 1 => f[n - 1] \in Seq(Byte)
    PROVE  JoinStep(ls, f, n) \in Seq(Byte)
<1>1. n \in Nat /\ (n # 0 => n \in 1 .. Len(ls)) /\ (n # 0 /\ n # 1 => n > 1)
    OBVIOUS
<1>2. n # 0 => ls[n] \in Seq(Byte)
    BY <1>1
<1>3. <<>> \in Seq(Byte) /\ <<46>> \in Seq(Byte)
    BY DEF Byte
<1>4. n # 0 /\ n # 1 => f[n - 1] \o <<46>> \in Seq(Byte)
  <2>1. ASSUME n # 0, n # 1 PROVE f[n - 1] \o <<46>> \in Seq(Byte)
    <3>1. f[n - 1] \in Seq(Byte)
        BY <1>1, <2>1
    <3> QED BY <1>3, <3>1
  <2> QED BY <2>1
<1> DEFINE before == IF n = 1 THEN <<>> ELSE f[n - 1] \o <<46>>
<1>5. n # 0 => before \in Seq(Byte)
    BY <1>3, <1>4
<1>6. JoinStep(ls, f, n) = IF n = 0 THEN <<>> ELSE before \o ls[n]
    BY DEF JoinStep
<1> HIDE DEF before
<1> QED BY <1>2, <1>3, <1>5, <1>6

LEMMA JoinsExist ==
    ASSUME NEW ls \in Seq(Seq(Byte))
    PROVE  Joins(ls) = [n \in 0 .. Len(ls) |-> JoinStep(ls, Joins(ls), n)]
<1> DEFINE S == 0 .. Len(ls)
           V == Seq(Byte)
           F == [x \in S \X [S -> V] |-> JoinStep(ls, x[2], x[1])]
           measure == [n \in S |-> n]
           bound == Len(ls)
<1>1. bound \in Nat /\ measure \in [S -> 0 .. bound]
    OBVIOUS
<1>2. F \in [S \X [S -> V] -> V]
  <2>1. ASSUME NEW x \in S \X [S -> V] PROVE JoinStep(ls, x[2], x[1]) \in V
    <3>1. x[1] \in S /\ x[2] \in [S -> V]
        BY <2>1
    <3>2. x[1] > 1 => x[1] - 1 \in S
        BY <1>1, <3>1
    <3>3. x[1] > 1 => x[2][x[1] - 1] \in Seq(Byte)
        BY <3>1, <3>2
    <3> QED BY <3>1, <3>3, JoinStepType
  <2> QED BY <2>1
<1>3. ASSUME NEW n \in S, NEW g \in [S -> V], NEW h \in [S -> V],
             \A m \in S : measure[m] < measure[n] => g[m] = h[m]
      PROVE  F[<<n, g>>] = F[<<n, h>>]
  <2>1. F[<<n, g>>] = JoinStep(ls, g, n) /\ F[<<n, h>>] = JoinStep(ls, h, n)
      OBVIOUS
  <2>2. n \in Nat /\ (n # 0 => n - 1 \in S /\ n - 1 < n)
      BY <1>1
  <2>3. n # 0 => g[n - 1] = h[n - 1]
      BY <1>3, <2>2
  <2> QED BY <2>1, <2>3 DEF JoinStep
<1>4. Recursive(S, V, F, measure, bound)
  <2> HIDE DEF S, V, F, measure, bound
  <2> QED BY <1>1, <1>2, <1>3 DEF Recursive
<1>5. Solvable(S, V, F)
  <2>1. V # {}
    <3>1. <<>> \in V
        OBVIOUS
    <3> QED BY <3>1
  <2> HIDE DEF S, V, F, measure, bound
  <2> QED BY <1>1, <1>4, <2>1, RecursionExists
<1>6. PICK f \in [S -> V] : \A n \in S : f[n] = F[<<n, f>>]
    BY <1>5 DEF Solvable
<1>7. f = [n \in 0 .. Len(ls) |-> JoinStep(ls, f, n)]
    BY <1>6
<1> QED BY <1>7 DEF Joins

LEMMA JoinsAreBytes ==
    ASSUME NEW ls \in Seq(Seq(Byte)), NEW n \in 0 .. Len(ls)
    PROVE  Joins(ls)[n] \in Seq(Byte)
<1> DEFINE Typed == {k \in Nat : k <= Len(ls) => Joins(ls)[k] \in Seq(Byte)}
<1>1. \A k \in 0 .. Len(ls) : Joins(ls)[k] = JoinStep(ls, Joins(ls), k)
    BY JoinsExist
<1>2. 0 \in Typed
  <2>1. 0 \in 0 .. Len(ls) /\ ~(0 > 1)
      OBVIOUS
  <2>2. JoinStep(ls, Joins(ls), 0) \in Seq(Byte)
      BY <2>1, JoinStepType
  <2> QED BY <1>1, <2>1, <2>2
<1>3. ASSUME NEW k \in Nat, k \in Typed PROVE k + 1 \in Typed
  <2>1. ASSUME k + 1 <= Len(ls) PROVE Joins(ls)[k + 1] \in Seq(Byte)
    <3>1. k + 1 \in 0 .. Len(ls) /\ (k + 1) - 1 = k /\ k <= Len(ls)
        BY <2>1
    <3>2. Joins(ls)[(k + 1) - 1] \in Seq(Byte)
        BY <1>3, <3>1
    <3>3. JoinStep(ls, Joins(ls), k + 1) \in Seq(Byte)
        BY <3>1, <3>2, JoinStepType
    <3> QED BY <1>1, <3>1, <3>3
  <2> QED BY <2>1
<1>4. n \in Typed
  <2>1. n \in Nat
      OBVIOUS
  <2> HIDE DEF Typed
  <2> QED BY <2>1, <1>2, <1>3, NatInduct
<1> QED BY <1>4

LEMMA JoinsAppend ==
    ASSUME NEW ls \in Seq(Seq(Byte)), NEW l \in Seq(Byte)
    PROVE  /\ Joins(Append(ls, l)) [Len(ls) + 1]
                = IF ls = <<>> THEN l ELSE Joins(ls)[Len(ls)] \o Dot \o l
           /\ Append(ls, l) \in Seq(Seq(Byte)) /\ Append(ls, l) # <<>>
           /\ Len(Append(ls, l)) = Len(ls) + 1
<1> DEFINE more == Append(ls, l)
           Same == {k \in Nat : k <= Len(ls) => Joins(more)[k] = Joins(ls)[k]}
<1>1. /\ more \in Seq(Seq(Byte)) /\ Len(more) = Len(ls) + 1 /\ more[Len(ls) + 1] = l
      /\ Len(ls) \in Nat /\ \A i \in 1 .. Len(ls) : more[i] = ls[i]
    OBVIOUS
<1>2. /\ \A k \in 0 .. Len(ls) : Joins(ls)[k] = JoinStep(ls, Joins(ls), k)
      /\ \A k \in 0 .. Len(ls) + 1 : Joins(more)[k] = JoinStep(more, Joins(more), k)
  <2> HIDE DEF more
  <2> QED BY <1>1, JoinsExist
<1> HIDE DEF more
<1>3. 0 \in Same
    BY <1>1, <1>2 DEF JoinStep
<1>4. ASSUME NEW k \in Nat, k \in Same PROVE k + 1 \in Same
  <2>1. ASSUME k + 1 <= Len(ls) PROVE Joins(more)[k + 1] = Joins(ls)[k + 1]
    <3>1. k + 1 \in 1 .. Len(ls) /\ (k + 1) - 1 = k /\ k <= Len(ls)
          /\ k + 1 \in 0 .. Len(ls) /\ k + 1 \in 0 .. Len(ls) + 1
        BY <1>1, <2>1
    <3>2. Joins(more)[k] = Joins(ls)[k] /\ more[k + 1] = ls[k + 1]
        BY <1>1, <1>4, <3>1
    <3>3. JoinStep(more, Joins(more), k + 1) = JoinStep(ls, Joins(ls), k + 1)
        BY <3>1, <3>2 DEF JoinStep
    <3> QED BY <1>2, <3>1, <3>3
  <2> QED BY <2>1
<1>5. Len(ls) \in Same
  <2> HIDE DEF Same
  <2> QED BY <1>1, <1>3, <1>4, NatInduct
<1>6. Joins(more)[Len(ls) + 1] = JoinStep(more, Joins(more), Len(ls) + 1)
    BY <1>1, <1>2
<1> DEFINE joined == IF ls = <<>> THEN l ELSE Joins(ls)[Len(ls)] \o Dot \o l
<1>7. ASSUME ls = <<>> PROVE Joins(more)[Len(ls) + 1] = joined
  <2>1. Len(ls) + 1 = 1
      BY <1>7
  <2>2. JoinStep(more, Joins(more), Len(ls) + 1) = <<>> \o l
      BY <1>1, <2>1 DEF JoinStep
  <2>3. Joins(more)[Len(ls) + 1] = l
      BY <1>6, <2>2
  <2> QED BY <1>7, <2>3
<1>8. ASSUME ls # <<>> PROVE Joins(more)[Len(ls) + 1] = joined
  <2>1. Len(ls) + 1 # 1 /\ Len(ls) + 1 # 0 /\ (Len(ls) + 1) - 1 = Len(ls)
      BY <1>1, <1>8
  <2>2. Joins(more)[Len(ls)] = Joins(ls)[Len(ls)]
      BY <1>1, <1>5
  <2>3. JoinStep(more, Joins(more), Len(ls) + 1) = (Joins(more)[Len(ls)] \o <<46>>) \o l
      BY <1>1, <2>1 DEF JoinStep
  <2>4. Joins(more)[Len(ls) + 1] = (Joins(ls)[Len(ls)] \o Dot) \o l
      BY <1>6, <2>2, <2>3 DEF Dot
  <2> QED BY <1>8, <2>4
<1>9. more \in Seq(Seq(Byte)) /\ more # <<>> /\ Len(more) = Len(ls) + 1
    BY <1>1
<1> QED BY <1>7, <1>8, <1>9 DEF more

(* The name where the walk stands. *)
Here == Names(pkt.msg)[<<MaxJumps - jumps, pos>>]

(* What the walk has collected, with a dot before each label. *)
Before == IF labels = <<>> THEN <<>> ELSE Dot \o Joined

(* The whole name is what was collected followed by the name from here on, *)
(* and there is none if there is none from here on; nothing is walked but  *)
(* a message to a resolver.                                                *)
EncodedInv ==
    /\ labels \in Seq(Seq(Byte))
    /\ stage \in {"ip", "udp"} => pos = 0 /\ jumps = 0 /\ labels = <<>>
    /\ stage = "udp" => Ipv4 \/ Ipv6
    /\ stage = "dns" => AsksName
    /\ stage = "dns" => Dotted = IF Here = Malformed THEN Malformed ELSE Before \o Here
    /\ NameIsEncoded

(* A byte string that starts with a dot is the name of no malformed place. *)
LEMMA DottedString ==
    ASSUME NEW s \in Seq(Byte)
    PROVE  /\ Dot \o s \in Seq(Byte)
           /\ Dot \o s # Malformed /\ Dot \o s # <<>> /\ Tail(Dot \o s) = s
<1>1. Dot \in Seq(Byte) /\ Len(Dot) = 1 /\ Dot[1] = 46
    BY DEF Dot, Byte
<1>2. Dot \o s \in Seq(Byte) /\ Len(Dot \o s) = 1 + Len(s) /\ Len(s) \in Nat
      /\ \A i \in 1 .. 1 + Len(s) : (Dot \o s)[i] = IF i <= 1 THEN Dot[i] ELSE s[i - 1]
  <2>1. /\ Dot \o s \in Seq(Byte) /\ Len(Dot \o s) = Len(Dot) + Len(s)
        /\ \A i \in 1 .. Len(Dot) + Len(s) :
              (Dot \o s)[i] = IF i <= Len(Dot) THEN Dot[i] ELSE s[i - Len(Dot)]
    <3>1. Dot \in Seq(Byte)
        BY <1>1
    <3> QED BY <3>1, ConcatProperties
  <2>2. Len(s) \in Nat
      OBVIOUS
  <2> DEFINE t == Dot \o s  n == Len(Dot)
  <2> HIDE DEF t, n
  <2>3. n = 1 /\ Len(t) = n + Len(s)
        /\ \A i \in 1 .. n + Len(s) : t[i] = IF i <= n THEN Dot[i] ELSE s[i - n]
      BY <1>1, <2>1 DEF t, n
  <2>4. Len(t) = 1 + Len(s) /\ \A i \in 1 .. 1 + Len(s) : t[i] = IF i <= 1 THEN Dot[i] ELSE s[i - 1]
      BY <2>3
  <2> QED BY <2>1, <2>2, <2>4 DEF t
<1> DEFINE t == Dot \o s
<1> HIDE DEF t
<1>3. t \in Seq(Byte) /\ Len(t) = 1 + Len(s) /\ t[1] = 46
      /\ \A i \in 1 .. Len(s) : t[i + 1] = s[i]
  <2>1. \A i \in 1 .. Len(s) : i + 1 \in 1 .. 1 + Len(s) /\ ~(i + 1 <= 1) /\ (i + 1) - 1 = i
      BY <1>2
  <2>2. \A i \in 1 .. Len(s) : t[i + 1] = s[i]
    <3>1. ASSUME NEW i \in 1 .. Len(s) PROVE t[i + 1] = s[i]
      <4>1. i + 1 \in 1 .. 1 + Len(s) /\ ~(i + 1 <= 1) /\ (i + 1) - 1 = i
          BY <2>1
      <4>2. t[i + 1] = IF i + 1 <= 1 THEN Dot[i + 1] ELSE s[(i + 1) - 1]
          BY <1>2, <4>1 DEF t
      <4> QED BY <4>1, <4>2
    <3> QED BY <3>1
  <2> QED BY <1>1, <1>2, <2>2 DEF t
<1>4. t # Malformed /\ t # <<>>
    BY <1>2, <1>3 DEF Malformed
<1>5. Tail(t) = s
  <2>1. Tail(t) \in Seq(Byte) /\ Len(Tail(t)) = Len(s)
        /\ \A i \in 1 .. Len(s) : Tail(t)[i] = t[i + 1]
      BY <1>2, <1>3, <1>4
  <2>2. \A i \in 1 .. Len(s) : Tail(t)[i] = s[i]
      BY <1>3, <2>1
  <2> QED BY <2>1, <2>2, SeqEqual
<1> QED BY <1>2, <1>4, <1>5 DEF t

LEMMA HereFacts ==
    ASSUME WalkInv
    PROVE  /\ pkt.msg \in Seq(Byte) /\ Len(pkt.msg) \in Nat
           /\ pos \in 0 .. Len(pkt.msg) /\ jumps \in 0 .. MaxJumps /\ MaxJumps \in Nat
           /\ <<MaxJumps - jumps, pos>> \in Places(pkt.msg)
           /\ Here = NameAt(pkt.msg, Names(pkt.msg), <<MaxJumps - jumps, pos>>)
           /\ Here \in Seq(Byte)
<1>1. pkt.msg \in Seq(Byte) /\ Len(pkt.msg) \in Nat
    BY PacketTypes DEF WalkInv, TypeOK
<1>2. pos \in 0 .. Len(pkt.msg) /\ jumps \in 0 .. MaxJumps /\ MaxJumps \in Nat
    BY DnsNameAssumption DEF WalkInv, TypeOK
<1>3. <<MaxJumps - jumps, pos>> \in Places(pkt.msg)
  <2>1. MaxJumps - jumps \in 0 .. MaxJumps
      BY <1>2
  <2> QED BY <1>2, <2>1 DEF Places
<1> QED BY <1>1, <1>2, <1>3, NamesExist, NamesAreBytes DEF Here

LEMMA JoinedType ==
    ASSUME labels \in Seq(Seq(Byte))
    PROVE  Joined \in Seq(Byte) /\ (labels = <<>> => Joined = <<>>)
<1>1. Len(labels) \in 0 .. Len(labels)
    OBVIOUS
<1>2. labels = <<>> => Joins(labels)[Len(labels)] = <<>>
  <2>1. ASSUME labels = <<>> PROVE Joins(labels)[Len(labels)] = <<>>
    <3>1. Len(labels) = 0
        BY <2>1
    <3>2. Joins(labels)[Len(labels)] = JoinStep(labels, Joins(labels), Len(labels))
        BY <1>1, JoinsExist
    <3> QED BY <3>1, <3>2 DEF JoinStep
  <2> QED BY <2>1
<1> QED BY <1>1, <1>2, JoinsAreBytes, JoinedIsJoins

LEMMA EncodedBefore ==
    ASSUME WalkInv, EncodedInv, ParseIp \/ NotIp \/ ParseUdp \/ NotDns
    PROVE  EncodedInv'
<1>1. CASE ParseIp
  <2>1. (Ipv4 \/ Ipv6)'
      BY <1>1 DEF ParseIp, Ipv4, Ipv6
  <2> QED BY <1>1, <2>1 DEF ParseIp, EncodedInv, walkVars, NameIsEncoded
<1>2. CASE NotIp
  <2>1. ~AsksName'
      BY <1>2 DEF NotIp, Finish, AsksName, Ipv4, Ipv6
  <2> QED BY <1>2, <2>1 DEF NotIp, Finish, EncodedInv, walkVars, NameIsEncoded
<1>3. CASE NotDns
  <2>1. ~AsksName'
      BY <1>3 DEF NotDns, Finish, AsksName, IsDnsQuery
  <2> QED BY <1>3, <2>1 DEF NotDns, Finish, EncodedInv, walkVars, NameIsEncoded
<1>4. CASE ParseUdp
  <2>1. /\ pkt' = pkt /\ stage = "udp" /\ stage' = "dns" /\ pos' = HeaderLen /\ jumps' = jumps
        /\ labels' = labels /\ HeaderLen <= Len(pkt.msg)
      BY <1>4 DEF ParseUdp, IsDnsQuery
  <2>2. jumps = 0 /\ labels = <<>> /\ labels \in Seq(Seq(Byte))
      BY <2>1 DEF EncodedInv
  <2>3. /\ pkt.msg \in Seq(Byte) /\ Len(pkt.msg) \in Nat /\ MaxJumps \in Nat /\ HeaderLen \in Nat
      BY HereFacts, DnsNameAssumption
  <2>4. <<MaxJumps, HeaderLen>> \in Places(pkt.msg) /\ MaxJumps - jumps = MaxJumps
      BY <2>1, <2>2, <2>3 DEF Places
  <2>5. Here' = Names(pkt.msg)[<<MaxJumps, HeaderLen>>]
      BY <2>1, <2>4 DEF Here
  <2>6. Dotted' = Dotted
      BY <2>1 DEF Dotted
  <2>7. Here' = Dotted /\ Dotted \in Seq(Byte)
      BY <2>3, <2>4, <2>5, DottedIsNamed, NamesAreBytes
  <2>8. Before' = <<>>
      BY <2>1, <2>2 DEF Before
  <2>9. Before' \o Here' = Here'
      BY <2>7, <2>8
  <2>10. NameIsEncoded'
      BY <2>1 DEF NameIsEncoded
  <2>11. (Dotted = IF Here = Malformed THEN Malformed ELSE Before \o Here)'
      BY <2>6, <2>7, <2>9
  <2>12. AsksName'
    <3>1. Ipv4 \/ Ipv6
        BY <2>1 DEF EncodedInv
    <3>2. IsDnsQuery
        BY <1>4 DEF ParseUdp
    <3> QED BY <2>1, <3>1, <3>2 DEF AsksName, Ipv4, Ipv6, IsDnsQuery
  <2> QED BY <2>1, <2>2, <2>10, <2>11, <2>12 DEF EncodedInv
<1> QED BY <1>1, <1>2, <1>3, <1>4

(* At the zero nothing follows. *)
LEMMA EncodedFinds ==
    ASSUME WalkInv, EncodedInv, Finds
    PROVE  EncodedInv'
<1>1. /\ pkt' = pkt /\ stage = "dns" /\ stage' = "done" /\ labels' = labels
      /\ result' = [some |-> TRUE, name |-> Joined]
      /\ pos < Len(pkt.msg) /\ pkt.msg[pos + 1] = 0
    BY DEF Finds, Finish, Ends, At, walkVars
<1>2. /\ labels \in Seq(Seq(Byte)) /\ AsksName
      /\ Dotted = IF Here = Malformed THEN Malformed ELSE Before \o Here
    BY <1>1 DEF EncodedInv
<1>3. Here = <<>>
    BY <1>1, HereFacts, NameAtCases
<1>4. Here # Malformed
    BY <1>3 DEF Malformed
<1>5. Joined \in Seq(Byte) /\ (labels = <<>> => Joined = <<>>)
    BY <1>2, JoinedType
<1>6. Before \in Seq(Byte)
    BY <1>5, DottedString DEF Before
<1>7. Dotted = Before
    BY <1>2, <1>3, <1>4, <1>6
<1>8. Dotted # Malformed /\ Joined = IF Dotted = <<>> THEN <<>> ELSE Tail(Dotted)
  <2>1. CASE labels = <<>>
      BY <1>5, <1>7, <2>1 DEF Before, Malformed
  <2>2. CASE labels # <<>>
      BY <1>5, <1>7, <2>2, DottedString DEF Before
  <2> QED BY <2>1, <2>2
<1>9. Dotted' = Dotted /\ AsksName'
    BY <1>1, <1>2 DEF Dotted, AsksName, Ipv4, Ipv6, IsDnsQuery
<1>10. NameIsEncoded'
    BY <1>1, <1>8, <1>9 DEF NameIsEncoded
<1> QED BY <1>1, <1>2, <1>10 DEF EncodedInv

(* Where the walk gives up no name is encoded. *)
LEMMA EncodedGivesUp ==
    ASSUME WalkInv, EncodedInv, GivesUp
    PROVE  EncodedInv'
<1>1. /\ pkt' = pkt /\ stage = "dns" /\ stage' = "done" /\ labels' = labels /\ result' = None
      /\ ~Ends /\ (IsPointer => ~MayJump) /\ (IsLabel => ~MayPush)
    BY DEF GivesUp, Finish, walkVars
<1> DEFINE place == <<MaxJumps - jumps, pos>>
           D == Names(pkt.msg)
<1>2. /\ pkt.msg \in Seq(Byte) /\ Len(pkt.msg) \in Nat
      /\ pos \in 0 .. Len(pkt.msg) /\ jumps \in 0 .. MaxJumps /\ MaxJumps \in Nat
      /\ place \in Places(pkt.msg) /\ Here = NameAt(pkt.msg, D, place)
      /\ place[1] = MaxJumps - jumps /\ place[2] = pos
    BY HereFacts
<1> HIDE DEF place, D
<1>3. Here = Malformed
  <2>1. CASE pos = Len(pkt.msg)
      BY <1>2, <2>1, NameAtCases
  <2>2. CASE pos < Len(pkt.msg)
    <3>1. pkt.msg[pos + 1] \in Byte /\ pkt.msg[pos + 1] # 0
        BY <1>1, <1>2, <2>2, NameAtCases DEF Ends, At
    <3>2. CASE pkt.msg[pos + 1] \in 1 .. 63
      <4>1. ~(LabelEnd <= Len(pkt.msg) /\ IsUtf8(Label))
          BY <1>1, <2>2, <3>2 DEF IsLabel, MayPush, At
      <4>2. Here = AfterLabel(pkt.msg, D, place)
          BY <1>2, <2>2, <3>2, NameAtCases
      <4>3. pos + 1 + pkt.msg[pos + 1] > Len(pkt.msg)
               \/ ~IsUtf8(SubSeq(pkt.msg, pos + 2, pos + 1 + pkt.msg[pos + 1]))
        <5> DEFINE byte == pkt.msg[pos + 1]
        <5>1. ~(pos + 1 + byte <= Len(pkt.msg) /\ IsUtf8(SubSeq(pkt.msg, pos + 2, pos + 1 + byte)))
            BY <4>1 DEF LabelEnd, Label, At
        <5>2. byte \in Nat
            BY <3>2
        <5> HIDE DEF byte
        <5> QED BY <1>2, <5>1, <5>2 DEF byte
      <4> QED BY <1>2, <4>2, <4>3 DEF AfterLabel
    <3>3. CASE pkt.msg[pos + 1] \in 64 .. 191
        BY <1>2, <2>2, <3>3, NameAtCases
    <3>4. CASE pkt.msg[pos + 1] \in 192 .. 255
      <4>1. ~MayJump
        <5>1. pkt.msg[pos + 1] >= 192
          <6> DEFINE byte == pkt.msg[pos + 1]
          <6>1. byte \in 192 .. 255
              BY <3>4
          <6> HIDE DEF byte
          <6>2. byte >= 192
              BY <6>1
          <6> QED BY <6>2 DEF byte
        <5> QED BY <1>1, <2>2, <5>1 DEF IsPointer, At
      <4>2. Here = AfterPointer(pkt.msg, D, place)
          BY <1>2, <2>2, <3>4, NameAtCases
      <4>3. pos + 1 = Len(pkt.msg) \/ MaxJumps - jumps = 0
               \/ 256 * (pkt.msg[pos + 1] % 64) + pkt.msg[pos + 2] >= pos
        <5>1. CASE pos + 1 < Len(pkt.msg) /\ jumps < MaxJumps
          <6>1. ~(Pointer < pos)
              BY <4>1, <5>1 DEF MayJump
          <6> DEFINE high == pkt.msg[pos + 1]  low == pkt.msg[pos + 2]
          <6>2. low \in Byte /\ high \in 192 .. 255
            <7>1. pos + 2 \in 1 .. Len(pkt.msg)
                BY <1>2, <5>1
            <7> QED BY <1>2, <3>4, <7>1
          <6>3. ~((high - 192) * 256 + low < pos)
            <7>1. (pos + 1) + 1 = pos + 2
                BY <1>2
            <7> QED BY <6>1, <7>1 DEF Pointer, At
          <6> HIDE DEF high, low
          <6>4. high % 64 = high - 192
              BY <6>2
          <6>5. 256 * (high % 64) + low >= pos
              BY <1>2, <6>2, <6>3, <6>4 DEF Byte
          <6> QED BY <6>5 DEF high, low
        <5>2. CASE ~(pos + 1 < Len(pkt.msg) /\ jumps < MaxJumps)
            BY <1>2, <2>2, <5>2
        <5> QED BY <5>1, <5>2
      <4> QED BY <1>2, <4>2, <4>3 DEF AfterPointer
    <3> QED BY <3>1, <3>2, <3>3, <3>4 DEF Byte
  <2> QED BY <1>2, <2>1, <2>2
<1>4. labels \in Seq(Seq(Byte)) /\ Dotted = Malformed
    BY <1>1, <1>3 DEF EncodedInv
<1>5. Dotted' = Dotted
    BY <1>1 DEF Dotted
<1>6. NameIsEncoded'
    BY <1>1, <1>4, <1>5 DEF NameIsEncoded
<1> QED BY <1>1, <1>4, <1>6 DEF EncodedInv

(* A pointer leads to where the same name is encoded. *)
LEMMA EncodedJump ==
    ASSUME WalkInv, EncodedInv, Jump
    PROVE  EncodedInv'
<1>1. /\ pkt' = pkt /\ stage = "dns" /\ stage' = "dns" /\ labels' = labels
      /\ jumps' = jumps + 1 /\ pos' = Pointer
      /\ pos + 1 < Len(pkt.msg) /\ jumps < MaxJumps /\ Pointer < pos
      /\ pos < Len(pkt.msg) /\ pkt.msg[pos + 1] >= 192
    BY DEF Jump, IsPointer, MayJump, At
<1> DEFINE place == <<MaxJumps - jumps, pos>>
           D == Names(pkt.msg)
           to == 256 * (pkt.msg[pos + 1] % 64) + pkt.msg[pos + 2]
<1>2. /\ pkt.msg \in Seq(Byte) /\ Len(pkt.msg) \in Nat
      /\ pos \in 0 .. Len(pkt.msg) /\ jumps \in 0 .. MaxJumps /\ MaxJumps \in Nat
      /\ place \in Places(pkt.msg) /\ Here = NameAt(pkt.msg, D, place)
      /\ place[1] = MaxJumps - jumps /\ place[2] = pos
    BY HereFacts
<1>3. pkt.msg[pos + 1] \in 192 .. 255
  <2> DEFINE byte == pkt.msg[pos + 1]
  <2>1. byte \in Byte /\ byte >= 192
      BY <1>1, <1>2, NameAtCases
  <2> HIDE DEF byte
  <2>2. byte \in 192 .. 255
      BY <2>1 DEF Byte
  <2> QED BY <2>2 DEF byte
<1>4. to = Pointer /\ to < pos
  <2> DEFINE high == pkt.msg[pos + 1]  low == pkt.msg[pos + 2]
  <2>1. low \in Byte /\ high \in 192 .. 255
    <3>1. pos + 2 \in 1 .. Len(pkt.msg)
        BY <1>1, <1>2
    <3> QED BY <1>2, <1>3, <3>1
  <2>2. Pointer = (high - 192) * 256 + low
    <3>1. (pos + 1) + 1 = pos + 2
        BY <1>2
    <3> QED BY <3>1 DEF Pointer, At
  <2> HIDE DEF high, low
  <2>3. high % 64 = high - 192
      BY <2>1
  <2>4. 256 * (high % 64) + low = Pointer
      BY <2>1, <2>2, <2>3 DEF Byte
  <2> QED BY <1>1, <2>4 DEF high, low
<1>5. Here = AfterPointer(pkt.msg, D, place)
  <2> HIDE DEF place, D
  <2> QED BY <1>1, <1>2, <1>3, NameAtCases
<1>6. ~(place[2] + 1 = Len(pkt.msg) \/ place[1] = 0 \/ to >= place[2])
  <2> HIDE DEF to, place
  <2>1. Pointer \in Int
      BY <1>1, TurnsWalk DEF WalkInv, TypeOK
  <2> QED BY <1>1, <1>2, <1>4, <2>1
<1>7. Here = D[<<MaxJumps - jumps - 1, Pointer>>]
    BY <1>4, <1>5, <1>6 DEF AfterPointer
<1>8. Here' = Here
  <2>1. MaxJumps - (jumps + 1) = MaxJumps - jumps - 1
      BY <1>2
  <2> QED BY <1>1, <1>7, <2>1 DEF Here
<1>9. labels \in Seq(Seq(Byte)) /\ Dotted = IF Here = Malformed THEN Malformed ELSE Before \o Here
    BY <1>1 DEF EncodedInv
<1>10. Dotted' = Dotted
    BY <1>1 DEF Dotted
<1>11. Before' = Before
    BY <1>1 DEF Before, Joined
<1>12. NameIsEncoded'
    BY <1>1 DEF NameIsEncoded
<1>13. AsksName'
    BY <1>1 DEF EncodedInv, AsksName, Ipv4, Ipv6, IsDnsQuery
<1> QED BY <1>1, <1>8, <1>9, <1>10, <1>11, <1>12, <1>13 DEF EncodedInv

(* A label is the first of the name here, and the last of those collected. *)
LEMMA EncodedPush ==
    ASSUME WalkInv, EncodedInv, Push
    PROVE  EncodedInv'
<1>1. /\ pkt' = pkt /\ stage = "dns" /\ stage' = "dns" /\ labels' = Append(labels, Label)
      /\ jumps' = jumps /\ pos' = LabelEnd
      /\ LabelEnd <= Len(pkt.msg) /\ IsUtf8(Label)
      /\ pos < Len(pkt.msg) /\ pkt.msg[pos + 1] \in 1 .. 63
    BY DEF Push, IsLabel, MayPush, At
<1> DEFINE place == <<MaxJumps - jumps, pos>>
           D == Names(pkt.msg)
           end == pos + 1 + pkt.msg[pos + 1]
           next == D[<<MaxJumps - jumps, end>>]
           label == SubSeq(pkt.msg, pos + 2, end)
<1>2. /\ pkt.msg \in Seq(Byte) /\ Len(pkt.msg) \in Nat
      /\ pos \in 0 .. Len(pkt.msg) /\ jumps \in 0 .. MaxJumps /\ MaxJumps \in Nat
      /\ place \in Places(pkt.msg) /\ Here = NameAt(pkt.msg, D, place)
      /\ place[1] = MaxJumps - jumps /\ place[2] = pos
    BY HereFacts
<1>3. end = LabelEnd /\ label = Label /\ end \in Nat /\ pos < end
  <2> DEFINE byte == pkt.msg[pos + 1]
  <2>1. LabelEnd = pos + 1 + byte /\ Label = SubSeq(pkt.msg, pos + 2, LabelEnd)
      BY DEF LabelEnd, Label, At
  <2>2. byte \in 1 .. 63 /\ pos \in Nat
      BY <1>1, <1>2
  <2> HIDE DEF byte
  <2>3. pos + 1 + byte \in Nat /\ pos < pos + 1 + byte
      BY <2>2
  <2> QED BY <2>1, <2>3 DEF byte
<1>4. label \in Seq(Byte)
  <2> HIDE DEF end
  <2>1. \A i \in pos + 2 .. end : i \in 1 .. Len(pkt.msg)
      BY <1>1, <1>2, <1>3
  <2>2. \A i \in pos + 2 .. end : pkt.msg[i] \in Byte
      BY <1>2, <2>1
  <2>3. pos + 2 \in Int /\ end \in Int
      BY <1>2, <1>3
  <2> QED BY <1>1, <1>2, <1>3, <2>2, <2>3, SubSeqProperties
<1>5. Here = AfterLabel(pkt.msg, D, place)
  <2> HIDE DEF place, D
  <2> QED BY <1>1, <1>2, NameAtCases
<1>6. Here = IF next = Malformed THEN Malformed ELSE Dot \o label \o next
  <2>1. ~(end > Len(pkt.msg)) /\ IsUtf8(label)
    <3> HIDE DEF end, label
    <3> QED BY <1>1, <1>2, <1>3
  <2>2. AfterLabel(pkt.msg, D, place)
           = IF end > Len(pkt.msg) \/ ~IsUtf8(label) \/ next = Malformed THEN Malformed
             ELSE Dot \o label \o next
      BY DEF AfterLabel
  <2> HIDE DEF end, label, next
  <2> QED BY <1>5, <2>1, <2>2
<1>7. Here' = next
    BY <1>1, <1>3 DEF Here
<1>8. next \in Seq(Byte)
  <2>1. <<MaxJumps - jumps, end>> \in Places(pkt.msg)
    <3> HIDE DEF end
    <3>1. end \in 0 .. Len(pkt.msg) /\ MaxJumps - jumps \in 0 .. MaxJumps
        BY <1>1, <1>2, <1>3
    <3> QED BY <3>1 DEF Places
  <2> HIDE DEF end
  <2> QED BY <1>2, <2>1, NamesAreBytes
<1> HIDE DEF end, label, next, place, D
<1>9. labels \in Seq(Seq(Byte)) /\ Dotted = IF Here = Malformed THEN Malformed ELSE Before \o Here
    BY <1>1 DEF EncodedInv
<1>10. Dotted' = Dotted
    BY <1>1 DEF Dotted
<1>11. /\ labels' \in Seq(Seq(Byte)) /\ labels' # <<>>
       /\ Joined' = IF labels = <<>> THEN label ELSE Joined \o Dot \o label
  <2>1. labels' = Append(labels, label)
      BY <1>1, <1>3
  <2>2. Joined' = Joins(labels')[Len(labels')]
      BY DEF Joined, Joins, JoinStep
  <2>3. /\ Joins(labels')[Len(labels) + 1]
              = IF labels = <<>> THEN label ELSE Joins(labels)[Len(labels)] \o Dot \o label
        /\ labels' \in Seq(Seq(Byte)) /\ labels' # <<>> /\ Len(labels') = Len(labels) + 1
      BY <1>4, <1>9, <2>1, JoinsAppend
  <2> QED BY <2>2, <2>3, JoinedIsJoins
<1>12. Joined \in Seq(Byte) /\ Dot \in Seq(Byte)
    BY <1>9, JoinedType DEF Dot, Byte
<1>13. Before' \o next = Before \o (Dot \o label \o next)
  <2>1. CASE labels = <<>>
    <3>1. Before' = Dot \o label /\ Before = <<>>
        BY <1>11, <2>1 DEF Before
    <3>2. Dot \o label \o next \in Seq(Byte)
        BY <1>4, <1>8, <1>12
    <3> QED BY <3>1, <3>2
  <2>2. CASE labels # <<>>
    <3>1. Before' = Dot \o (Joined \o Dot \o label) /\ Before = Dot \o Joined
        BY <1>11, <2>2 DEF Before
    <3>2. Dot \o Joined \in Seq(Byte) /\ Dot \o label \in Seq(Byte)
        BY <1>4, <1>12
    <3>3. Dot \o (Joined \o Dot \o label) = (Dot \o Joined) \o (Dot \o label)
      <4>1. (Joined \o Dot) \o label = Joined \o (Dot \o label)
          BY <1>4, <1>12, ConcatAssociative
      <4> DEFINE first == Dot \o label
      <4>2. first \in Seq(Byte)
          BY <3>2
      <4> HIDE DEF first
      <4>3. (Dot \o Joined) \o first = Dot \o (Joined \o first)
          BY <1>12, <4>2, ConcatAssociative
      <4> QED BY <4>1, <4>3 DEF first
    <3>4. ((Dot \o Joined) \o (Dot \o label)) \o next = (Dot \o Joined) \o ((Dot \o label) \o next)
      <4> DEFINE before == Dot \o Joined  first == Dot \o label
      <4>1. before \in Seq(Byte) /\ first \in Seq(Byte)
          BY <3>2
      <4> HIDE DEF before, first
      <4>2. (before \o first) \o next = before \o (first \o next)
          BY <1>8, <4>1, ConcatAssociative
      <4> QED BY <4>2 DEF before, first
    <3>5. Before' \o next = ((Dot \o Joined) \o (Dot \o label)) \o next
        BY <3>1, <3>3
    <3> QED BY <3>1, <3>4, <3>5
  <2> QED BY <2>1, <2>2
<1>14. Dot \o label \o next # Malformed
  <2>1. label \o next \in Seq(Byte)
      BY <1>4, <1>8
  <2>2. (Dot \o label) \o next = Dot \o (label \o next)
      BY <1>4, <1>8, <1>12, ConcatAssociative
  <2> QED BY <2>1, <2>2, DottedString
<1>15. Dotted' = IF Here' = Malformed THEN Malformed ELSE Before' \o Here'
    BY <1>6, <1>7, <1>9, <1>10, <1>13, <1>14
<1>16. NameIsEncoded'
    BY <1>1 DEF NameIsEncoded
<1>17. AsksName'
    BY <1>1 DEF EncodedInv, AsksName, Ipv4, Ipv6, IsDnsQuery
<1> QED BY <1>1, <1>11, <1>15, <1>16, <1>17 DEF EncodedInv

(* What comes out is the name the bytes encode, and it does whenever they  *)
(* encode one in a message to a resolver, wherever in it the walk ends;    *)
(* any other packet comes to nothing.                                      *)
THEOREM NameAlwaysEncoded == Spec => []NameIsEncoded
<1>1. Init => EncodedInv
    BY DEF Init, EncodedInv, NameIsEncoded
<1>2. WalkInv /\ EncodedInv /\ [Next]_vars => EncodedInv'
  <2> SUFFICES ASSUME WalkInv, EncodedInv, [Next]_vars PROVE EncodedInv'
      OBVIOUS
  <2>1. CASE UNCHANGED vars
    <3>1. pkt' = pkt /\ stage' = stage /\ pos' = pos /\ jumps' = jumps /\ labels' = labels
          /\ result' = result
        BY <2>1 DEF vars, walkVars
    <3>2. /\ Dotted' = Dotted /\ Here' = Here /\ Before' = Before
          /\ Ipv4' = Ipv4 /\ Ipv6' = Ipv6 /\ AsksName' = AsksName
        BY <3>1 DEF Dotted, Here, Before, Joined, Ipv4, Ipv6, AsksName, IsDnsQuery
    <3> QED BY <3>1, <3>2 DEF EncodedInv, NameIsEncoded
  <2> QED BY <2>1, EncodedBefore, EncodedFinds, EncodedJump, EncodedPush, EncodedGivesUp DEF Next
<1>3. EncodedInv => NameIsEncoded
    BY DEF EncodedInv
<1> QED BY <1>1, <1>2, <1>3, Walk, PTL DEF Spec
===============================================================================
