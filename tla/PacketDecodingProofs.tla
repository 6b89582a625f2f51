-------------------------- MODULE PacketDecodingProofs -------------------------
(***************************************************************************)
(* Proofs that the decoders are right about every packet, whatever its     *)
(* bytes, and exact about every packet that is laid out as it should be.   *)
(***************************************************************************)
EXTENDS PacketDecodingProperties, SequenceLemmas

(* What is known of a packet.                                              *)
LEMMA PacketFacts ==
    ASSUME NEW p \in Packet
    PROVE  /\ p.mark \in Mark /\ p.size \in Nat /\ p.size >= 5 /\ p.content \in Nat
           /\ p.mark = "long" => p.size >= 6
           /\ p.mark = "imei" => p.size >= 17
           /\ p.mark = "avl" => p.size >= 12
           /\ p.byte \in [0..(p.size - 1) -> 0..255]
           /\ p.starts \in Seq(Nat) /\ p.io \in Seq(IoCounts)
<1>1. p.mark \in Mark /\ p.size >= [short |-> 5, long |-> 6, imei |-> 17, avl |-> 12][p.mark]
  BY PacketAssumption
<1>2. p.size \in Nat
  BY PacketAssumption
<1>3. p.mark = "short" \/ p.mark = "long" \/ p.mark = "imei" \/ p.mark = "avl"
  BY <1>1 DEF Mark
<1>4. /\ p.size >= 5
      /\ p.mark = "long" => p.size >= 6
      /\ p.mark = "imei" => p.size >= 17
      /\ p.mark = "avl" => p.size >= 12
  BY <1>1, <1>2, <1>3
<1>5. /\ p.content \in Nat /\ p.byte \in [0..(p.size - 1) -> 0..255]
      /\ p.starts \in Seq(Nat) /\ p.io \in Seq(IoCounts)
  BY PacketAssumption
<1> QED BY <1>1, <1>2, <1>4, <1>5

LEMMA ByteType ==
    ASSUME NEW p \in Packet, NEW o \in Nat
    PROVE  Byte(p, o) \in 0..255 /\ Byte(p, o) \in Nat /\ Word(p, o) \in Nat
<1>1. ASSUME NEW n \in Nat PROVE Byte(p, n) \in 0..255
  <2>1. p.size \in Nat /\ p.byte \in [0..(p.size - 1) -> 0..255]
    BY PacketFacts
  <2>2. CASE n < p.size
    <3>1. n \in 0..(p.size - 1)
      BY <2>1, <2>2
    <3>2. p.byte[n] \in 0..255
      BY <2>1, <3>1
    <3> QED BY <2>2, <3>2 DEF Byte
  <2>3. CASE ~(n < p.size)
    BY <2>3 DEF Byte
  <2> QED BY <2>2, <2>3
<1>2. Byte(p, o) \in 0..255 /\ Byte(p, o + 1) \in 0..255
  BY <1>1
<1>3. \A a, b \in 0..255 : a \in Nat /\ 256 * a + b \in Nat
  OBVIOUS
<1> QED BY <1>2, <1>3 DEF Word

(* A group of IO elements has at least the byte of its count.              *)
LEMMA GroupGrows ==
    ASSUME NEW p \in Packet, NEW at \in Nat, NEW w \in {1, 2, 4, 8}
    PROVE  GroupEnd(p, at, w) \in Nat /\ GroupEnd(p, at, w) > at
<1>1. Byte(p, at) \in 0..255
  BY ByteType
<1>2. CASE w = 1
  BY <1>1, <1>2 DEF GroupEnd
<1>3. CASE w = 2
  BY <1>1, <1>3 DEF GroupEnd
<1>4. CASE w = 4
  BY <1>1, <1>4 DEF GroupEnd
<1>5. CASE w = 8
  BY <1>1, <1>5 DEF GroupEnd
<1> QED BY <1>2, <1>3, <1>4, <1>5

(* A record has at least the 26 bytes before its IO elements.              *)
LEMMA RecordGrows ==
    ASSUME NEW p \in Packet, NEW at \in Nat
    PROVE  RecordEnd(p, at) \in Nat /\ RecordEnd(p, at) >= at + 26
<1>1. Io1(at) \in Nat /\ Io1(at) = at + 26
  BY DEF Io1
<1>2. Io2(p, at) \in Nat /\ Io2(p, at) > Io1(at)
  BY <1>1, GroupGrows DEF Io2
<1>3. Io4(p, at) \in Nat /\ Io4(p, at) > Io2(p, at)
  BY <1>2, GroupGrows DEF Io4
<1>4. Io8(p, at) \in Nat /\ Io8(p, at) > Io4(p, at)
  BY <1>3, GroupGrows DEF Io8
<1>5. GroupEnd(p, Io8(p, at), 8) \in Nat /\ GroupEnd(p, Io8(p, at), 8) > Io8(p, at)
  BY <1>4, GroupGrows
<1> QED BY <1>1, <1>2, <1>3, <1>4, <1>5 DEF RecordEnd

(* A record that is laid out as it should be is parsed to its last byte.   *)
LEMMA LaidOutParsed ==
    ASSUME NEW p \in Packet, AvlLaidOut(p), NEW k \in DOMAIN p.io
    PROVE  /\ p.starts[k] \in Nat /\ p.starts[k + 1] \in Nat
           /\ ~RecordFails(p, p.starts[k])
           /\ RecordEnd(p, p.starts[k]) = p.starts[k + 1]
<1> DEFINE at == p.starts[k]
           c == p.io[k]
           to == p.starts[k + 1]
<1>1. Len(p.io) \in Nat /\ k \in 1..Len(p.io) /\ DOMAIN p.starts = 1..(Len(p.io) + 1)
  BY PacketFacts, LenProperties DEF AvlLaidOut
<1>2. at \in Nat /\ to \in Nat /\ to <= p.size - 5
  <2>1. p.starts \in Seq(Nat) /\ Len(p.starts) = Len(p.io) + 1
    BY PacketFacts DEF AvlLaidOut
  <2>2. k \in 1..Len(p.starts) /\ k + 1 \in 1..Len(p.starts) /\ k + 1 \in DOMAIN p.starts
    BY <1>1, <2>1
  <2>3. at \in Nat /\ to \in Nat
    BY <2>1, <2>2, ElementOfSeq
  <2>4. to <= p.size - 5
    BY <2>2 DEF AvlLaidOut
  <2> QED BY <2>3, <2>4
<1>3. c \in IoCounts
  BY <1>1, PacketFacts, ElementOfSeq
<1>4. c.one \in Nat /\ c.two \in Nat /\ c.four \in Nat /\ c.eight \in Nat
  BY <1>3 DEF IoCounts
<1>5. RecordLaidOut(p, at, c, to) /\ HasIo(p) /\ p.size \in Nat
  BY PacketFacts DEF AvlLaidOut, HasIo
<1> HIDE DEF at, c, to
<1>6. at + 26 < p.size /\ Byte(p, at + 26) = c.one
  BY <1>2, <1>4, <1>5 DEF RecordLaidOut, Byte
<1>7. Io2(p, at) = at + 27 + 2 * c.one
  BY <1>2, <1>4, <1>6 DEF Io2, Io1, GroupEnd
<1>8. Byte(p, Io2(p, at)) = c.two
  BY <1>2, <1>4, <1>5, <1>7 DEF RecordLaidOut, Byte
<1>9. Io4(p, at) = at + 28 + 2 * c.one + 3 * c.two
  BY <1>2, <1>4, <1>7, <1>8 DEF Io4, GroupEnd
<1>10. Byte(p, Io4(p, at)) = c.four
  BY <1>2, <1>4, <1>5, <1>9 DEF RecordLaidOut, Byte
<1>11. Io8(p, at) = at + 29 + 2 * c.one + 3 * c.two + 5 * c.four
  BY <1>2, <1>4, <1>9, <1>10 DEF Io8, GroupEnd
<1>12. Byte(p, Io8(p, at)) = c.eight
  BY <1>2, <1>4, <1>5, <1>11 DEF RecordLaidOut, Byte
<1>13. to = at + 30 + 2 * c.one + 3 * c.two + 5 * c.four + 9 * c.eight
  BY <1>5 DEF RecordLaidOut
<1>14. RecordEnd(p, at) = to
  <2>1. GroupEnd(p, Io8(p, at), 8) = Io8(p, at) + 1 + c.eight * (1 + 8)
    BY <1>12 DEF GroupEnd
  <2>2. Io8(p, at) + 1 + c.eight * (1 + 8) = to
    <3>1. c.eight * (1 + 8) = 9 * c.eight
      BY <1>4
    <3> DEFINE a == 2 * c.one
               b == 3 * c.two
               d == 5 * c.four
               e == 9 * c.eight
    <3>2. a \in Nat /\ b \in Nat /\ d \in Nat /\ e \in Nat
      BY <1>4
    <3>3. Io8(p, at) = at + 29 + a + b + d /\ to = at + 30 + a + b + d + e
      BY <1>11, <1>13
    <3> HIDE DEF a, b, d
    <3> QED BY <1>2, <3>1, <3>2, <3>3
  <2> QED BY <1>5, <2>1, <2>2 DEF RecordEnd
<1>15. /\ at + 24 <= p.size
       /\ Io4(p, at) <= p.size /\ Io8(p, at) <= p.size /\ RecordEnd(p, at) <= p.size
  BY <1>2, <1>4, <1>5, <1>9, <1>11, <1>13, <1>14
<1>16. Io4(p, at) \in Nat /\ Io8(p, at) \in Nat /\ RecordEnd(p, at) \in Nat
  BY <1>2, <1>4, <1>9, <1>11, <1>14
<1>17. /\ ~(at + 24 > p.size)
       /\ ~(Io4(p, at) > p.size) /\ ~(Io8(p, at) > p.size) /\ ~(RecordEnd(p, at) > p.size)
  BY <1>2, <1>5, <1>15, <1>16
<1>18. ~RecordFails(p, at)
  BY <1>17, Zenon DEF RecordFails
<1> QED BY <1>2, <1>14, <1>18 DEF at, to

(* In front of the second count there is no room for another record.       *)
LEMMA NoMoreRecords ==
    ASSUME NEW p \in Packet, NEW at \in Nat, at = p.size - 5
    PROVE  RecordFails(p, at)
<1> QED BY PacketFacts DEF RecordFails

(* The fields of a location are spans.                                     *)
LEMMA LocationFieldsType ==
    ASSUME NEW p \in Packet
    PROVE  LocationFields(p) \in Seq(Span)
<1> DEFINE at == Header(p)
<1>1. at \in Nat /\ at \in {4, 5}
  BY DEF Header
<1> HIDE DEF at
<1>2. \A a, n \in Nat : Field(a, n) \in Span
  BY DEF Field, Span
<1>3. FixFields(at) \in Seq(Span)
  BY <1>1, <1>2 DEF FixFields
<1>4. CellFields(at + 18) \in Seq(Span)
  BY <1>1, <1>2 DEF CellFields
<1>5. <<Field(at + 26, 1)>> \in Seq(Span)
  BY <1>1, <1>2
<1>6. <<>> \in Seq(Span)
  OBVIOUS
<1>7. \A u, v, x \in Seq(Span) : u \o v \o x \in Seq(Span)
  BY ConcatProperties
<1> QED BY <1>3, <1>4, <1>5, <1>6, <1>7 DEF LocationFields, at

(* Sixteen digits at most, each of four bits.                              *)
LEMMA HexDigitsType ==
    ASSUME NEW p \in Packet
    PROVE  /\ HexDigits(p) \in Seq(0..15)
           /\ Header(p) + 8 <= p.size => Len(HexDigits(p)) = 16
<1> DEFINE bytes == IF Header(p) + 8 <= p.size THEN 8 ELSE p.size - Header(p)
           at(k) == Byte(p, Header(p) + (k - 1) \div 2)
<1>1. Header(p) \in Nat /\ Header(p) <= p.size /\ p.size \in Nat
  BY PacketFacts DEF Header
<1>2. bytes \in Nat
  BY <1>1
<1>3. ASSUME NEW k \in 1..(2 * bytes)
      PROVE  (IF k % 2 = 1 THEN at(k) \div 16 ELSE at(k) % 16) \in 0..15
  <2>1. Header(p) + (k - 1) \div 2 \in Nat
    BY <1>1, <1>2
  <2>2. at(k) \in 0..255
    BY <2>1, ByteType
  <2>3. \A n \in 0..255 : n \div 16 \in 0..15 /\ n % 16 \in 0..15
    OBVIOUS
  <2> QED BY <2>2, <2>3, Zenon
<1>4. HexDigits(p) = [k \in 1..(2 * bytes) |-> IF k % 2 = 1 THEN at(k) \div 16 ELSE at(k) % 16]
  BY Zenon DEF HexDigits
<1> HIDE DEF at, bytes
<1>5. 2 * bytes \in Nat
  BY <1>2
<1>6. HexDigits(p) \in [1..(2 * bytes) -> 0..15]
  BY <1>3, <1>4
<1>7. HexDigits(p) \in Seq(0..15)
  BY <1>5, <1>6, IsASeq
<1>8. ASSUME Header(p) + 8 <= p.size PROVE Len(HexDigits(p)) = 16
  <2>1. bytes = 8
    BY <1>8 DEF bytes
  <2>2. 2 * bytes = 16
    BY <2>1
  <2>3. DOMAIN HexDigits(p) = 1..16
    BY <1>6, <2>2, Zenon
  <2>4. DOMAIN HexDigits(p) = 1..Len(HexDigits(p)) /\ Len(HexDigits(p)) \in Nat
    BY <1>7, LenProperties
  <2> QED BY <2>3, <2>4
<1> QED BY <1>7, <1>8

(* Taking the leading zeros off digits, not all of them zero, loses        *)
(* nothing but their number.                                               *)
LEMMA ZerosTakenOff ==
    ASSUME NEW hex \in Seq(0..15)
    PROVE  /\ HexToImei(hex) \in Seq(Nat)
           /\ Len(hex) = 16 /\ (\E k \in 1..16 : hex[k] # 0) =>
                 HexToImei(hex) # <<>> /\ Padded(HexToImei(hex)) = hex
<1> DEFINE digits == {k \in DOMAIN hex : hex[k] # 0}
           first == Min(digits)
           n == Len(hex)
           result == SubSeq(hex, first, n)
<1>1. n \in Nat /\ DOMAIN hex = 1..n /\ \A k \in 1..n : hex[k] \in 0..15
  BY LenProperties, ElementOfSeq
<1>2. CASE digits = {}
  <2>1. HexToImei(hex) = <<>>
    BY <1>2, Zenon DEF HexToImei
  <2>2. ~ (Len(hex) = 16 /\ \E k \in 1..16 : hex[k] # 0)
    BY <1>1, <1>2
  <2> QED BY <2>1, <2>2
<1>3. CASE digits # {}
  <2>1. digits \in SUBSET Nat
    BY <1>1
  <2>2. first \in digits /\ \A y \in digits : first <= y
    BY <1>3, <2>1, MinInSet, Zenon
  <2>3. first \in 1..n
    BY <1>1, <2>2
  <2>4. ASSUME NEW k \in 1..n, k < first PROVE hex[k] = 0
    <3>1. k \in digits => first <= k
      BY <2>2
    <3> QED BY <1>1, <2>3, <2>4, <3>1
  <2>5. HexToImei(hex) = result
    BY <1>3, Zenon DEF HexToImei
  <2> HIDE DEF first, digits
  <2>6. /\ result \in Seq(Nat)
        /\ Len(result) = n - first + 1
        /\ \A k \in 1..(n - first + 1) : result[k] = hex[first + k - 1]
    <3>1. \A k \in first..n : hex[k] \in Nat
      BY <1>1, <2>3
    <3>2. first \in Int /\ n \in Int /\ first <= n
      BY <1>1, <2>3
    <3> QED BY <3>1, <3>2, SubSeqProperties
  <2> HIDE DEF result
  <2>8. ASSUME n = 16 PROVE result # <<>> /\ Padded(result) = hex
    <3>1. Len(result) = 17 - first /\ first \in 1..16
      BY <2>3, <2>6, <2>8
    <3>2. result # <<>>
      BY <3>1
    <3>3. ASSUME NEW k \in 1..16
          PROVE  (IF k + Len(result) <= 16 THEN 0 ELSE result[k + Len(result) - 16]) = hex[k]
      <4>1. CASE k < first
        <5>1. k + Len(result) <= 16 => hex[k] = 0
          BY <2>4, <2>8, <4>1
        <5>2. k + Len(result) <= 16
          BY <3>1, <4>1
        <5> QED BY <5>1, <5>2
      <4>2. CASE k >= first
        <5>1. ~ (k + Len(result) <= 16) /\ k + Len(result) - 16 = k - first + 1
          BY <3>1, <4>2
        <5>2. k - first + 1 \in 1..(n - first + 1) /\ first + (k - first + 1) - 1 = k
          BY <2>8, <3>1, <4>2
        <5>3. result[k - first + 1] = hex[k]
          BY <2>6, <5>2
        <5> QED BY <5>1, <5>3
      <4> QED BY <3>1, <4>1, <4>2
    <3>4. DOMAIN hex = 1..16
      BY <1>1, <2>8
    <3>5. hex = [k \in 1..16 |-> hex[k]]
      BY <3>4
    <3>6. Padded(result) = [k \in 1..16 |-> hex[k]]
      BY <3>3 DEF Padded
    <3> QED BY <3>2, <3>5, <3>6
  <2> QED BY <2>5, <2>6, <2>8
<1> QED BY <1>2, <1>3

(* What decode returns has its type.                                       *)
DecodedType == [type : PacketType \cup {"null"}, imei : Seq(Nat), number : Nat,
                fields : Seq(Span)]
LEMMA Gt06DecodeType ==
    ASSUME NEW p \in Packet, NEW known \in Seq(Nat)
    PROVE  Gt06Decode(p, known) \in DecodedType
<1>1. Null \in DecodedType
  BY DEF Null, DecodedType
<1>2. ASSUME ~Throws(p) PROVE Gt06Decode(p, known) \in DecodedType
  <2>1. TypeOf(Protocol(p)) \in PacketType
    BY DEF TypeOf, PacketType
  <2>2. HexToImei(HexDigits(p)) \in Seq(Nat)
    BY HexDigitsType, ZerosTakenOff
  <2>3. SerialNumber(p) \in Nat
    <3>1. p.size \in Nat /\ p.size - 6 \in Nat
      BY <1>2, PacketFacts DEF Throws
    <3> QED BY <3>1, ByteType DEF SerialNumber
  <2>4. LocationFields(p) \in Seq(Span) /\ <<>> \in Seq(Span)
    BY LocationFieldsType
  <2> QED BY <1>2, <2>1, <2>2, <2>3, <2>4 DEF Gt06Decode, DecodedType
<1> QED BY <1>1, <1>2 DEF Gt06Decode
-----------------------------------------------------------------------------
(* The invariant holds at the beginning.                                   *)
LEMMA DecodingInit == Init => DecodingInv
<1> SUFFICES ASSUME Init PROVE DecodingInv
  OBVIOUS
<1> USE DEF Init, FirstRecord
<1>1. TypeOK
  BY DEF TypeOK, Null, NoDevice, NoCommand
<1>2. Walking
  BY DEF Walking, Before
<1>3. WalkingExact /\ AvlResult /\ ImeiResult /\ Gt06Result /\ ProtocolFits /\ RecordsInPacket
  BY DEF WalkingExact, AvlResult, ImeiResult, Gt06Result, ProtocolFits, RecordsInPacket, Returned
<1>4. RecordsContiguous
  BY DEF RecordsContiguous
<1> QED BY <1>1, <1>2, <1>3, <1>4 DEF DecodingInv

(* A packet is taken.                                                      *)
LEMMA BeginKeeps ==
    ASSUME DecodingInv, NEW p \in Packet, Begin(p)
    PROVE  DecodingInv'
<1> USE DEF Begin, FirstRecord
<1>1. TypeOK'
  <2>1. TypeOK
    BY DEF DecodingInv
  <2> QED BY <2>1 DEF TypeOK, Null, NoDevice
<1>2. p.mark \in Mark /\ RecordCount(p) \in Nat
  <2>1. RecordCount(p) \in Nat
    BY ByteType DEF RecordCount
  <2>2. p.mark \in Mark
    BY PacketFacts
  <2> QED BY <2>1, <2>2
<1>3. Walking'
  BY <1>2 DEF Walking, Before
<1>4. WalkingExact'
  <2>1. Len(p.io) \in Nat
    BY PacketFacts, LenProperties
  <2> QED BY <2>1 DEF WalkingExact
<1>5. AvlResult' /\ ImeiResult' /\ Gt06Result' /\ RecordsInPacket'
  BY DEF AvlResult, ImeiResult, Gt06Result, RecordsInPacket, Returned
<1>6. ProtocolFits'
  <2>1. protocol \in {"GT06", "TELTONIKA"}
    BY DEF DecodingInv, TypeOK
  <2> QED BY <1>2, <2>1 DEF ProtocolFits, Mark
<1>7. RecordsContiguous'
  BY DEF RecordsContiguous
<1> QED BY <1>1, <1>3, <1>4, <1>5, <1>6, <1>7 DEF DecodingInv

(* What Returns leaves alone.                                              *)
LEMMA ReturnsKeeps ==
    ASSUME DecodingInv, NEW result \in DecodedType, Returns(result), phase = "decode",
           packet.mark = "avl" => i = RecordCount(packet)
    PROVE  TypeOK' /\ Walking' /\ WalkingExact' /\ ProtocolFits' /\ RecordsContiguous'
<1> USE DEF Returns
<1>1. TypeOK'
  <2>1. TypeOK
    BY DEF DecodingInv
  <2> QED BY <2>1 DEF TypeOK, DecodedType
<1>2. Walking' /\ WalkingExact' /\ ProtocolFits'
  BY DEF DecodingInv, Walking, Before, WalkingExact, ProtocolFits
<1>3. RecordsContiguous'
  BY DEF DecodingInv, RecordsContiguous
<1> QED BY <1>1, <1>2, <1>3

LEMMA DecodeGt06Keeps ==
    ASSUME DecodingInv, DecodeGt06
    PROVE  DecodingInv'
<1> DEFINE result == Gt06Decode(packet, imei)
<1>1. /\ phase = "decode" /\ protocol = "GT06" /\ Returns(result)
      /\ packet \in Packet /\ imei \in Seq(Nat) /\ TypeOK
  BY DEF DecodeGt06, DecodingInv, TypeOK
<1>2. result \in DecodedType
  BY <1>1, Gt06DecodeType
<1>3. packet.mark \in {"short", "long"} /\ packet.mark # "avl" /\ records = <<>>
  BY <1>1 DEF DecodingInv, ProtocolFits, Walking
<1>4. TypeOK' /\ Walking' /\ WalkingExact' /\ ProtocolFits' /\ RecordsContiguous'
  BY <1>1, <1>2, <1>3, ReturnsKeeps
<1>5. decoded' = result /\ phase' = "handle" /\ UNCHANGED <<protocol, packet, records>>
  BY <1>1 DEF Returns
<1>6. AvlResult' /\ ImeiResult' /\ RecordsInPacket'
  BY <1>3, <1>5 DEF AvlResult, ImeiResult, RecordsInPacket
<1>7. Gt06Result'
  <2>1. result # Null =>
           /\ result.fields \in {<<>>, LocationFields(packet)}
           /\ result.number = SerialNumber(packet)
           /\ result.type = "LOGIN" => result.imei = HexToImei(HexDigits(packet))
    BY DEF Gt06Decode
  <2> HIDE DEF result
  <2> QED BY <1>5, <2>1 DEF Gt06Result
<1> QED BY <1>4, <1>6, <1>7 DEF DecodingInv

LEMMA DecodeImeiKeeps ==
    ASSUME DecodingInv, DecodeImei
    PROVE  DecodingInv'
<1> DEFINE result == [type |-> "LOGIN", imei |-> ImeiOf(packet), number |-> 0, fields |-> <<>>]
<1>1. /\ phase = "decode" /\ packet.mark = "imei" /\ Returns(result)
      /\ packet \in Packet /\ records = <<>> /\ protocol # "GT06"
  BY DEF DecodeImei, DecodingInv, TypeOK, Walking, ProtocolFits
<1>2. result \in DecodedType
  <2>1. ASSUME NEW k \in 1..15 PROVE Byte(packet, k + 1) \in Nat
    <3>1. k + 1 \in Nat
      OBVIOUS
    <3> QED BY <1>1, <3>1, ByteType
  <2>2. ImeiOf(packet) \in Seq(Nat)
    BY <2>1, IsASeq DEF ImeiOf
  <2> QED BY <2>2 DEF DecodedType, PacketType
<1>3. TypeOK' /\ Walking' /\ WalkingExact' /\ ProtocolFits' /\ RecordsContiguous'
  BY <1>1, <1>2, ReturnsKeeps
<1>4. AvlResult' /\ ImeiResult' /\ RecordsInPacket' /\ Gt06Result'
  BY <1>1 DEF AvlResult, ImeiResult, RecordsInPacket, Gt06Result, Returns
<1> QED BY <1>3, <1>4 DEF DecodingInv
(* In a packet that is laid out as it should be, the loop stands before    *)
(* the next record, or before the second count.                            *)
LEMMA WhereLaidOut ==
    ASSUME DecodingInv, packet.mark = "avl", phase # "wait", AvlLaidOut(packet)
    PROVE  /\ Len(records) \in Nat /\ Len(packet.io) \in Nat /\ Len(records) <= Len(packet.io)
           /\ offset = packet.starts[Len(records) + 1]
           /\ Len(records) = Len(packet.io) => offset = packet.size - 5
           /\ offset <= packet.size - 5
<1>1. /\ packet \in Packet /\ records \in Seq(Span) /\ i \in Nat
      /\ offset = Before
      /\ Len(records) = IF i <= Len(packet.io) THEN i ELSE Len(packet.io)
      /\ \A k \in DOMAIN records :
             records[k] = [from |-> packet.starts[k], to |-> packet.starts[k + 1]]
  BY DEF DecodingInv, TypeOK, Walking, WalkingExact
<1>2. Len(records) \in Nat /\ DOMAIN records = 1..Len(records) /\ Len(packet.io) \in Nat
  BY <1>1, PacketFacts, LenProperties
<1>3. Len(records) <= Len(packet.io)
  BY <1>1, <1>2
<1>4. /\ packet.starts[1] = 10 /\ packet.starts[Len(packet.starts)] = packet.size - 5
      /\ Len(packet.starts) = Len(packet.io) + 1
      /\ \A k \in DOMAIN packet.starts : packet.starts[k] <= packet.size - 5
  BY DEF AvlLaidOut
<1>5. offset = packet.starts[Len(records) + 1]
  <2>1. CASE records = <<>>
    BY <1>1, <1>4, <2>1 DEF Before, FirstRecord
  <2>2. CASE records # <<>>
    <3>1. Len(records) \in DOMAIN records
      BY <1>1, <1>2, <2>2, EmptySeq
    <3>2. Before = packet.starts[Len(records) + 1]
      BY <1>1, <2>2, <3>1 DEF Before
    <3> QED BY <1>1, <3>2
  <2> QED BY <2>1, <2>2
<1>6. Len(records) + 1 \in DOMAIN packet.starts
  <2>1. packet.starts \in Seq(Nat)
    BY <1>1, PacketFacts
  <2>2. DOMAIN packet.starts = 1..Len(packet.starts)
    BY <2>1, LenProperties
  <2> QED BY <1>2, <1>3, <1>4, <2>2
<1> QED BY <1>2, <1>3, <1>4, <1>5, <1>6

LEMMA ParseRecordKeeps ==
    ASSUME DecodingInv, ParseRecord
    PROVE  DecodingInv'
<1>1. /\ phase = "decode" /\ packet.mark = "avl" /\ i < RecordCount(packet)
      /\ i' = i + 1
      /\ offset' = IF RecordFails(packet, offset) THEN offset ELSE RecordEnd(packet, offset)
      /\ records' = IF RecordFails(packet, offset) THEN records
                    ELSE Append(records, [from |-> offset, to |-> offset'])
      /\ UNCHANGED <<protocol, imei, phase, packet, decoded, device, ack, command>>
  BY DEF ParseRecord, Resume
<1>2. TypeOK /\ packet \in Packet /\ i \in Nat /\ offset \in Nat /\ records \in Seq(Span)
  BY DEF DecodingInv, TypeOK
<1>3. /\ offset = Before /\ Len(records) <= i
      /\ \A k \in DOMAIN records : records[k].to <= offset
      /\ Len(records) < i => RecordFails(packet, offset)
  BY DEF DecodingInv, Walking
<1>4. RecordCount(packet) \in Nat
  BY <1>2, ByteType DEF RecordCount
<1>5. Len(records) \in Nat /\ DOMAIN records = 1..Len(records)
  BY <1>2, LenProperties
<1>6. AvlResult' /\ ImeiResult' /\ Gt06Result' /\ RecordsInPacket'
  BY <1>1 DEF AvlResult, ImeiResult, Gt06Result, RecordsInPacket, Returned
<1>7. ProtocolFits'
  BY <1>1 DEF DecodingInv, ProtocolFits
<1>8. CASE RecordFails(packet, offset)
  <2>1. UNCHANGED <<offset, records>>
    BY <1>1, <1>8
  <2>2. TypeOK'
    BY <1>1, <1>2, <2>1 DEF TypeOK
  <2>3. Walking'
    BY <1>1, <1>2, <1>3, <1>4, <1>5, <1>8, <2>1 DEF Walking, Before
  <2>4. RecordsContiguous'
    BY <2>1 DEF DecodingInv, RecordsContiguous
  <2>5. WalkingExact'
    <3> SUFFICES ASSUME AvlLaidOut(packet)
                 PROVE  Len(records) = IF i + 1 <= Len(packet.io) THEN i + 1 ELSE Len(packet.io)
      BY <1>1, <2>1 DEF DecodingInv, WalkingExact
    <3>1. /\ Len(packet.io) \in Nat /\ Len(records) <= Len(packet.io)
          /\ offset = packet.starts[Len(records) + 1]
      BY <1>1, WhereLaidOut
    <3>2. Len(records) = IF i <= Len(packet.io) THEN i ELSE Len(packet.io)
      BY <1>1 DEF DecodingInv, WalkingExact
    <3>3. ~ (Len(records) + 1 \in DOMAIN packet.io)
      BY <1>2, <1>8, <3>1, LaidOutParsed
    <3>4. DOMAIN packet.io = 1..Len(packet.io)
      BY <1>2, PacketFacts, LenProperties
    <3>5. Len(records) = Len(packet.io)
      BY <1>5, <3>1, <3>3, <3>4
    <3> QED BY <1>2, <3>1, <3>2, <3>5
  <2> QED BY <1>6, <1>7, <2>2, <2>3, <2>4, <2>5 DEF DecodingInv
<1>9. CASE ~RecordFails(packet, offset)
  <2> DEFINE new == [from |-> offset, to |-> offset']
  <2>1. offset' = RecordEnd(packet, offset) /\ offset' \in Nat /\ offset' >= offset + 26
    BY <1>1, <1>2, <1>9, RecordGrows
  <2>2. new \in Span
    BY <1>2, <2>1 DEF Span
  <2>3. /\ records' = Append(records, new) /\ records' \in Seq(Span) /\ records' # <<>>
        /\ Len(records') = Len(records) + 1
        /\ DOMAIN records' = 1..(Len(records) + 1)
        /\ \A k \in 1..Len(records) : records'[k] = records[k]
        /\ records'[Len(records) + 1] = new
    BY <1>1, <1>2, <1>9, <2>2, AppendProperties
  <2>4. new.from = offset /\ new.to = offset'
    OBVIOUS
  <2>5. Len(records) = i
    BY <1>2, <1>3, <1>5, <1>9
  <2> HIDE DEF new
  <2>6. TypeOK'
    BY <1>1, <1>2, <2>1, <2>3 DEF TypeOK
  <2>7. Walking'
    <3>1. offset' = Before'
      BY <2>3, <2>4 DEF Before
    <3>2. \A k \in DOMAIN records' : records'[k].to <= offset'
      <4> TAKE k \in DOMAIN records'
      <4>1. CASE k = Len(records) + 1
        BY <2>1, <2>3, <2>4, <4>1
      <4>2. CASE k \in 1..Len(records)
        <5>1. records'[k] = records[k] /\ records[k].to <= offset /\ records[k] \in Span
          BY <1>2, <1>3, <1>5, <2>3, <4>2, ElementOfSeq
        <5> QED BY <1>2, <2>1, <5>1 DEF Span
      <4> QED BY <1>5, <2>3, <4>1, <4>2
    <3>3. Len(records') = i' /\ Len(records') <= i' /\ ~ (Len(records') < i')
      BY <1>1, <1>2, <2>3, <2>5
    <3>4. i' <= RecordCount(packet)
      BY <1>1, <1>2, <1>4
    <3> QED BY <1>1, <3>1, <3>2, <3>3, <3>4 DEF Walking
  <2>8. RecordsContiguous'
    <3> SUFFICES ASSUME NEW k \in 1..(Len(records) + 1)
                 PROVE  /\ records'[k].from = IF k = 1 THEN FirstRecord ELSE records'[k - 1].to
                        /\ records'[k].from < records'[k].to
      BY <2>3 DEF RecordsContiguous
    <3>1. CASE k \in 1..Len(records)
      <4>1. k = 1 \/ k - 1 \in 1..Len(records)
        BY <1>5, <3>1
      <4>2. /\ records[k].from = IF k = 1 THEN FirstRecord ELSE records[k - 1].to
            /\ records[k].from < records[k].to
        BY <1>5, <3>1 DEF DecodingInv, RecordsContiguous
      <4> QED BY <2>3, <3>1, <4>1, <4>2
    <3>2. CASE k = Len(records) + 1
      <4>1. records'[k].from = offset /\ records'[k].to = offset' /\ offset < offset'
        BY <1>2, <2>1, <2>3, <2>4, <3>2
      <4>2. CASE records = <<>>
        <5>1. Before = FirstRecord /\ k = 1
          BY <3>2, <4>2 DEF Before
        <5> QED BY <1>3, <4>1, <5>1
      <4>3. CASE records # <<>>
        <5>1. Before = records[Len(records)].to /\ Len(records) \in 1..Len(records)
          BY <1>2, <1>5, <4>3, EmptySeq DEF Before
        <5>2. k # 1 /\ records'[k - 1] = records[Len(records)]
          BY <1>5, <2>3, <3>2, <5>1
        <5> QED BY <1>3, <4>1, <5>1, <5>2
      <4> QED BY <4>2, <4>3
    <3> QED BY <1>5, <3>1, <3>2
  <2>9. WalkingExact'
    <3> SUFFICES ASSUME AvlLaidOut(packet)
                 PROVE  /\ Len(records') = IF i' <= Len(packet.io) THEN i' ELSE Len(packet.io)
                        /\ \A k \in DOMAIN records' :
                               records'[k] = [from |-> packet.starts[k], to |-> packet.starts[k + 1]]
      BY <1>1 DEF WalkingExact
    <3>1. /\ Len(packet.io) \in Nat /\ Len(records) <= Len(packet.io)
          /\ offset = packet.starts[Len(records) + 1]
          /\ Len(records) = Len(packet.io) => offset = packet.size - 5
      BY <1>1, WhereLaidOut
    <3>2. Len(records) < Len(packet.io)
      BY <1>2, <1>5, <1>9, <3>1, NoMoreRecords
    <3>3. Len(records) + 1 \in DOMAIN packet.io
      BY <1>2, <1>5, <3>1, <3>2, PacketFacts, LenProperties
    <3>4. offset' = packet.starts[Len(records) + 1 + 1]
      BY <1>2, <2>1, <3>1, <3>3, LaidOutParsed
    <3>5. Len(records') = i' /\ i' <= Len(packet.io)
      BY <1>1, <1>5, <2>3, <2>5, <3>1, <3>2
    <3>6. ASSUME NEW k \in DOMAIN records'
          PROVE  records'[k] = [from |-> packet.starts[k], to |-> packet.starts[k + 1]]
      <4>1. CASE k = Len(records) + 1
        BY <2>3, <3>1, <3>4, <4>1 DEF new
      <4>2. CASE k \in 1..Len(records)
        <5>1. records[k] = [from |-> packet.starts[k], to |-> packet.starts[k + 1]]
          BY <1>1, <1>5, <4>2 DEF DecodingInv, WalkingExact
        <5> QED BY <2>3, <4>2, <5>1
      <4> QED BY <1>5, <2>3, <4>1, <4>2
    <3> QED BY <3>5, <3>6
  <2> QED BY <1>6, <1>7, <2>6, <2>7, <2>8, <2>9 DEF DecodingInv
<1> QED BY <1>8, <1>9
LEMMA TrailerKeeps ==
    ASSUME DecodingInv, Trailer
    PROVE  DecodingInv'
<1> DEFINE result == IF offset + 5 > packet.size THEN Null
                     ELSE [type |-> IF records = <<>> THEN "HEARTBEAT" ELSE "LOCATION",
                           imei |-> imei, number |-> RecordCount(packet), fields |-> <<>>]
<1>1. /\ phase = "decode" /\ packet.mark = "avl" /\ i = RecordCount(packet)
      /\ Returns(result) /\ packet \in Packet /\ imei \in Seq(Nat)
      /\ offset \in Nat /\ records \in Seq(Span)
  BY DEF Trailer, TrailerFails, DecodingInv, TypeOK
<1>2. result \in DecodedType
  <2>1. RecordCount(packet) \in Nat
    BY <1>1, ByteType DEF RecordCount
  <2> QED BY <1>1, <2>1 DEF DecodedType, PacketType, Null
<1>3. TypeOK' /\ Walking' /\ WalkingExact' /\ ProtocolFits' /\ RecordsContiguous'
  <2> HIDE DEF result
  <2> QED BY <1>1, <1>2, ReturnsKeeps
<1>4. /\ decoded' = result /\ phase' = "handle"
      /\ UNCHANGED <<protocol, imei, packet, i, offset, records>>
  BY <1>1 DEF Returns
<1>5. AvlResult'
  <2>1. result # Null => result.imei = imei
    BY DEF Null
  <2>2. result = IF offset + 5 > packet.size THEN Null
                 ELSE [type |-> IF records = <<>> THEN "HEARTBEAT" ELSE "LOCATION",
                       imei |-> result.imei, number |-> RecordCount(packet), fields |-> <<>>]
    OBVIOUS
  <2> HIDE DEF result
  <2> QED BY <1>1, <1>4, <2>1, <2>2 DEF AvlResult
<1>6. ImeiResult'
  BY <1>1, <1>4 DEF ImeiResult
<1>7. Gt06Result'
  BY <1>1, <1>4 DEF Gt06Result, DecodingInv, ProtocolFits
<1>8. RecordsInPacket'
  <2> SUFFICES ASSUME result # Null, NEW k \in DOMAIN records
               PROVE  records[k].to <= packet.size - 5
    BY <1>4 DEF RecordsInPacket
  <2>1. ~ (offset + 5 > packet.size) /\ packet.size \in Nat
    BY <1>1, PacketFacts
  <2>2. records[k].to <= offset /\ records[k] \in Span
    BY <1>1, ElementOfSeq, LenProperties DEF DecodingInv, Walking
  <2>3. records[k].to \in Nat
    BY <2>2 DEF Span
  <2> QED BY <1>1, <2>1, <2>2, <2>3
<1> QED BY <1>3, <1>5, <1>6, <1>7, <1>8 DEF DecodingInv

LEMMA HandleKeeps ==
    ASSUME DecodingInv, Handle
    PROVE  DecodingInv'
<1>1. /\ phase = "handle" /\ phase' = "done"
      /\ UNCHANGED <<protocol, packet, i, offset, records, decoded, command>>
      /\ decoded = Null => UNCHANGED <<imei, device, ack>>
      /\ decoded # Null =>
            /\ imei' = IF decoded.imei = <<>> THEN imei ELSE decoded.imei
            /\ device' = DeviceData
            /\ ack' = IF protocol = "GT06" THEN Gt06Ack(decoded) ELSE TeltonikaAck(decoded)
  BY DEF Handle
<1>2. TypeOK /\ decoded \in DecodedType /\ records \in Seq(Span) /\ imei \in Seq(Nat)
  BY DEF DecodingInv, TypeOK, DecodedType
<1>3. decoded.imei \in Seq(Nat) /\ decoded.number \in Nat /\ decoded.fields \in Seq(Span)
  BY <1>2 DEF DecodedType
<1>4. protocol \in {"GT06", "TELTONIKA"}
      /\ (packet.mark \in {"short", "long"} <=> protocol = "GT06")
  BY <1>1, <1>2 DEF DecodingInv, TypeOK, ProtocolFits
<1>5. protocol # "GT06" /\ decoded.type = "LOCATION" => records # <<>>
  <2>1. packet.mark \in Mark
    BY <1>2, PacketFacts DEF TypeOK
  <2>2. CASE packet.mark = "imei"
    BY <1>1, <2>2 DEF DecodingInv, ImeiResult, Returned
  <2>3. CASE packet.mark = "avl"
    BY <1>1, <2>3 DEF DecodingInv, AvlResult, Returned, Null
  <2> QED BY <1>4, <2>1, <2>2, <2>3 DEF Mark
<1>6. TypeOK'
  <2>1. CASE decoded = Null
    BY <1>1, <1>2, <2>1 DEF TypeOK
  <2>2. CASE decoded # Null
    <3>1. imei' \in Seq(Nat)
      BY <1>1, <1>2, <1>3, <2>2
    <3>2. ack' \in Seq(Nat)
      <4>1. \A a, b \in Nat : <<a, b>> \in Seq(Nat) /\ <<a>> \in Seq(Nat)
        OBVIOUS
      <4>2. Gt06Ack(decoded) \in Seq(Nat)
        BY <1>3, <4>1 DEF Gt06Ack
      <4>3. TeltonikaAck(decoded) \in Seq(Nat)
        BY <1>3, <4>1 DEF TeltonikaAck
      <4> QED BY <1>1, <2>2, <4>2, <4>3
    <3>3. DeviceData \in [imei : Seq(Nat), location : Seq(Span)]
      <4>1. records # <<>> => records[1] \in Span
        BY <1>2, EmptySeq, LenProperties, ElementOfSeq
      <4>2. records # <<>> => <<records[1]>> \in Seq(Span)
        BY <4>1
      <4>3. Unknown \in Seq(Nat) /\ <<>> \in Seq(Nat) /\ <<>> \in Seq(Span)
        BY DEF Unknown
      <4>4. NoDevice \in [imei : Seq(Nat), location : Seq(Span)]
        BY <4>3 DEF NoDevice
      <4> QED BY <1>3, <1>5, <4>2, <4>3, <4>4 DEF DeviceData
    <3> QED BY <1>1, <1>2, <2>2, <3>1, <3>2, <3>3 DEF TypeOK
  <2> QED BY <2>1, <2>2
<1>7. Walking' /\ WalkingExact' /\ ProtocolFits' /\ RecordsContiguous'
  BY <1>1 DEF DecodingInv, Walking, Before, WalkingExact, ProtocolFits, RecordsContiguous
<1>8. ImeiResult' /\ RecordsInPacket'
  BY <1>1 DEF DecodingInv, ImeiResult, RecordsInPacket, Returned
<1>9. AvlResult'
  <2> SUFFICES ASSUME packet.mark = "avl" PROVE AvlResult'
    BY <1>1 DEF AvlResult
  <2>1. /\ i = RecordCount(packet)
        /\ decoded = IF offset + 5 > packet.size THEN Null
                     ELSE [type |-> IF records = <<>> THEN "HEARTBEAT" ELSE "LOCATION",
                           imei |-> decoded.imei, number |-> RecordCount(packet),
                           fields |-> <<>>]
        /\ decoded # Null => decoded.imei = imei
    BY <1>1 DEF DecodingInv, AvlResult, Returned
  <2>2. decoded # Null => decoded.imei = imei'
    BY <1>1, <2>1
  <2>3. decoded # Null => device' = DeviceData'
    BY <1>1 DEF DeviceData, GivesDevice
  <2> QED BY <1>1, <2>1, <2>2, <2>3 DEF AvlResult
<1>10. Gt06Result'
  <2>1. protocol = "GT06" /\ decoded # Null =>
           /\ decoded.fields \in {<<>>, LocationFields(packet)}
           /\ decoded.number = SerialNumber(packet)
           /\ decoded.type = "LOGIN" => decoded.imei = HexToImei(HexDigits(packet))
    BY <1>1 DEF DecodingInv, Gt06Result, Returned
  <2>2. protocol = "GT06" /\ decoded # Null =>
           /\ ack' = Gt06Ack(decoded)
           /\ decoded.imei # <<>> => imei' = decoded.imei
    BY <1>1
  <2> QED BY <1>1, <2>1, <2>2 DEF Gt06Result
<1> QED BY <1>6, <1>7, <1>8, <1>9, <1>10 DEF DecodingInv

LEMMA SendCommandKeeps ==
    ASSUME DecodingInv, NEW n \in CommandSize, SendCommand(n)
    PROVE  DecodingInv'
<1>1. n \in Nat
  BY CommandSizeAssumption
<1>2. UNCHANGED <<protocol, imei, phase, packet, i, offset, records, decoded, device, ack>>
  BY DEF SendCommand
<1>3. command' \in [size : Nat, length : Nat]
  BY <1>1 DEF SendCommand, Gt06Command, TeltonikaCommand
<1>4. TypeOK'
  BY <1>2, <1>3 DEF DecodingInv, TypeOK
<1>5. Walking' /\ WalkingExact' /\ ProtocolFits' /\ RecordsContiguous'
  BY <1>2 DEF DecodingInv, Walking, Before, WalkingExact, ProtocolFits, RecordsContiguous
<1>6. ImeiResult' /\ RecordsInPacket'
  BY <1>2 DEF DecodingInv, ImeiResult, RecordsInPacket, Returned
<1>7. AvlResult'
  BY <1>2 DEF DecodingInv, AvlResult, Returned, DeviceData, GivesDevice
<1>8. Gt06Result'
  BY <1>2 DEF DecodingInv, Gt06Result, Returned
<1> QED BY <1>4, <1>5, <1>6, <1>7, <1>8 DEF DecodingInv

LEMMA StutterKeeps ==
    ASSUME DecodingInv, UNCHANGED vars
    PROVE  DecodingInv'
<1>1. TypeOK' /\ Walking' /\ WalkingExact' /\ ProtocolFits' /\ RecordsContiguous'
  BY DEF vars, DecodingInv, TypeOK, Walking, Before, WalkingExact, ProtocolFits,
         RecordsContiguous
<1>2. ImeiResult' /\ RecordsInPacket'
  BY DEF vars, DecodingInv, ImeiResult, RecordsInPacket, Returned
<1>3. AvlResult'
  BY DEF vars, DecodingInv, AvlResult, Returned, DeviceData, GivesDevice
<1>4. Gt06Result'
  BY DEF vars, DecodingInv, Gt06Result, Returned
<1> QED BY <1>1, <1>2, <1>3, <1>4 DEF DecodingInv

LEMMA DecodingStep == DecodingInv /\ [Next]_vars => DecodingInv'
<1> SUFFICES ASSUME DecodingInv, [Next]_vars PROVE DecodingInv'
  OBVIOUS
<1>1. CASE \E p \in Packet : Begin(p)
  BY <1>1, BeginKeeps
<1>2. CASE DecodeGt06
  BY <1>2, DecodeGt06Keeps
<1>3. CASE DecodeImei
  BY <1>3, DecodeImeiKeeps
<1>4. CASE ParseRecord
  BY <1>4, ParseRecordKeeps
<1>5. CASE Trailer
  BY <1>5, TrailerKeeps
<1>6. CASE Handle
  BY <1>6, HandleKeeps
<1>7. CASE \E n \in CommandSize : SendCommand(n)
  BY <1>7, SendCommandKeeps
<1>8. CASE UNCHANGED vars
  BY <1>8, StutterKeeps
<1> QED BY <1>1, <1>2, <1>3, <1>4, <1>5, <1>6, <1>7, <1>8 DEF Next, Decode

(* The inductive invariant of the decoding, for every set of packets and   *)
(* of commands: types included, records end to end and inside their packet.*)
THEOREM DecodingCorrect == Spec => []DecodingInv
<1> QED BY DecodingInit, DecodingStep, PTL DEF Spec
-----------------------------------------------------------------------------
(* No byte of a packet is parsed into two records or skipped between two.  *)
THEOREM RecordsAlwaysContiguous == Spec => []RecordsContiguous
<1>1. DecodingInv => RecordsContiguous
  BY DEF DecodingInv
<1> QED BY <1>1, DecodingCorrect, PTL

(* No record of a decoded packet reaches into the second count or beyond.  *)
THEOREM RecordsAlwaysInPacket == Spec => []RecordsInPacket
<1>1. DecodingInv => RecordsInPacket
  BY DEF DecodingInv
<1> QED BY <1>1, DecodingCorrect, PTL

(* An AVL packet that is laid out as it should be is decoded into exactly  *)
(* the records in it, and its first record becomes the device's location.  *)
THEOREM RecordsAlwaysExact == Spec => []RecordsExact
<1>1. DecodingInv => RecordsExact
  <2> SUFFICES ASSUME DecodingInv, Returned, AvlLaidOut(packet)
               PROVE  /\ decoded # Null
                      /\ records = SentRecords
                      /\ phase = "done" /\ imei # <<>> /\ Present(packet) > 0 =>
                             device = [imei |-> imei, location |-> <<SentRecords[1]>>]
    BY DEF RecordsExact
  <2>1. packet.mark = "avl" /\ phase # "wait" /\ phase \in {"handle", "done"}
    BY DEF AvlLaidOut, Returned
  <2>2. packet \in Packet /\ offset \in Nat /\ records \in Seq(Span)
        /\ protocol # "GT06" /\ packet.size \in Nat
    BY <2>1, PacketFacts DEF DecodingInv, TypeOK, ProtocolFits
  <2>3. ~ (offset + 5 > packet.size)
    BY <2>1, <2>2, WhereLaidOut
  <2>4. /\ i = RecordCount(packet)
        /\ decoded = [type |-> IF records = <<>> THEN "HEARTBEAT" ELSE "LOCATION",
                       imei |-> decoded.imei, number |-> RecordCount(packet), fields |-> <<>>]
        /\ decoded # Null => decoded.imei = imei
        /\ phase = "done" /\ decoded # Null => device = DeviceData
    BY <2>1, <2>3 DEF DecodingInv, AvlResult, Returned
  <2>5. decoded # Null
    BY <2>4 DEF Null
  <2>6. /\ Len(records) = Present(packet)
        /\ \A k \in DOMAIN records :
               records[k] = [from |-> packet.starts[k], to |-> packet.starts[k + 1]]
    BY <2>1, <2>4 DEF DecodingInv, WalkingExact, Present
  <2>7. records = [k \in 1..Len(records) |-> records[k]] /\ DOMAIN records = 1..Len(records)
    BY <2>2, LenProperties
  <2>8. records = SentRecords
    BY <2>6, <2>7 DEF SentRecords
  <2>9. ASSUME phase = "done", imei # <<>>, Present(packet) > 0
        PROVE  device = [imei |-> imei, location |-> <<SentRecords[1]>>]
    <3>1. records # <<>>
      BY <2>2, <2>6, <2>9, EmptySeq
    <3>2. decoded.type = "LOCATION" /\ decoded.imei = imei /\ device = DeviceData
      BY <2>4, <2>5, <2>9, <3>1
    <3> QED BY <2>2, <2>8, <2>9, <3>2 DEF DeviceData, GivesDevice
  <2> QED BY <2>5, <2>8, <2>9
<1> QED BY <1>1, DecodingCorrect, PTL

(* Every acknowledgement of a GT06 packet carries its serial number.       *)
THEOREM SerialAlwaysEchoed == Spec => []SerialEchoed
<1>1. DecodingInv => SerialEchoed
  <2> SUFFICES ASSUME DecodingInv, Accepted, Gt06LaidOut(packet)
               PROVE  ack[2] = Word(packet, Header(packet) + packet.content)
    BY DEF SerialEchoed
  <2>1. phase = "done" /\ decoded # Null /\ protocol = "GT06" /\ packet \in Packet
    BY DEF Accepted, Gt06LaidOut, DecodingInv, ProtocolFits, TypeOK
  <2>2. ack[2] = SerialNumber(packet)
    BY <2>1 DEF DecodingInv, Gt06Result, Returned, Gt06Ack
  <2>3. packet.size - 6 = Header(packet) + packet.content
    BY <2>1, PacketFacts DEF Gt06LaidOut, Header
  <2> QED BY <2>2, <2>3 DEF SerialNumber
<1> QED BY <1>1, DecodingCorrect, PTL

(* No two GT06 devices have the same identity for the server.              *)
THEOREM IdentityAlwaysKept == Spec => []IdentityKept
<1>1. DecodingInv => IdentityKept
  <2> SUFFICES ASSUME DecodingInv, Accepted, IsLogin, Gt06LaidOut(packet), HasDigits
               PROVE  Padded(imei) = HexDigits(packet)
    BY DEF IdentityKept
  <2>1. /\ phase = "done" /\ decoded # Null /\ protocol = "GT06" /\ packet \in Packet
        /\ decoded.type = "LOGIN" /\ packet.content >= 8
    BY DEF Accepted, IsLogin, DecodingInv, TypeOK
  <2>2. /\ decoded.imei = HexToImei(HexDigits(packet))
        /\ decoded.imei # <<>> => imei = decoded.imei
    BY <2>1 DEF DecodingInv, Gt06Result, Returned
  <2>3. Header(packet) + 8 <= packet.size
    BY <2>1, PacketFacts DEF Gt06LaidOut, Header
  <2>4. HexDigits(packet) \in Seq(0..15) /\ Len(HexDigits(packet)) = 16
    BY <2>1, <2>3, HexDigitsType
  <2>5. decoded.imei # <<>> /\ Padded(decoded.imei) = HexDigits(packet)
    BY <2>2, <2>4, ZerosTakenOff DEF HasDigits
  <2> QED BY <2>2, <2>5
<1> QED BY <1>1, DecodingCorrect, PTL

(* A command of up to 248 bytes is one packet for whoever reads lengths.   *)
THEOREM DownlinkAlwaysWhole == Spec => []DownlinkWhole
<1>1. Init => DownlinkWhole
  BY DEF Init, DownlinkWhole
<1>2. DownlinkWhole /\ [Next]_vars => DownlinkWhole'
  <2> SUFFICES ASSUME DownlinkWhole, [Next]_vars PROVE DownlinkWhole'
    OBVIOUS
  <2>1. CASE \E n \in CommandSize : SendCommand(n)
    <3>1. PICK n \in CommandSize : SendCommand(n)
      BY <2>1
    <3>2. n \in Nat
      BY CommandSizeAssumption
    <3>3. CASE protocol = "GT06"
      <4>1. command' = [size |-> (n + 7) + 5, length |-> (n + 7) % 256] /\ protocol' = "GT06"
        BY <3>1, <3>3 DEF SendCommand, Gt06Command
      <4>2. (n + 7) + 5 <= 248 + 12 => (n + 7) % 256 = n + 7
        BY <3>2
      <4>3. command'.size <= 248 + 12 => command'.length + 5 = command'.size
        BY <3>2, <4>1, <4>2
      <4> QED BY <4>1, <4>3 DEF DownlinkWhole
    <3>4. CASE protocol # "GT06"
      BY <3>1, <3>2, <3>4 DEF SendCommand, TeltonikaCommand, DownlinkWhole
    <3> QED BY <3>3, <3>4
  <2>2. CASE ~ \E n \in CommandSize : SendCommand(n)
    <3>1. UNCHANGED <<protocol, command>>
      BY <2>2 DEF Next, Decode, Begin, DecodeGt06, DecodeImei, ParseRecord, Trailer, Handle,
                  Returns, vars
    <3> QED BY <3>1 DEF DownlinkWhole
  <2> QED BY <2>1, <2>2
<1> QED BY <1>1, <1>2, PTL DEF Spec
(* Spans in order between two places of a packet; such sequences can be    *)
(* put one behind the other.                                               *)
Ordered(q, lo, hi) ==
    /\ lo <= hi
    /\ \A a \in DOMAIN q : lo <= q[a].from /\ q[a].from <= q[a].to /\ q[a].to <= hi
    /\ \A a, b \in DOMAIN q : a < b => q[a].to <= q[b].from
LEMMA OrderedConcat ==
    ASSUME NEW u \in Seq(Span), NEW v \in Seq(Span),
           NEW lo \in Nat, NEW mid \in Nat, NEW hi \in Nat,
           Ordered(u, lo, mid), Ordered(v, mid, hi)
    PROVE  Ordered(u \o v, lo, hi) /\ u \o v \in Seq(Span)
<1> DEFINE w == u \o v
<1>1. /\ Len(u) \in Nat /\ DOMAIN u = 1..Len(u) /\ Len(v) \in Nat /\ DOMAIN v = 1..Len(v)
      /\ w \in Seq(Span) /\ Len(w) = Len(u) + Len(v) /\ DOMAIN w = 1..(Len(u) + Len(v))
      /\ \A k \in 1..Len(u) : w[k] = u[k]
      /\ \A k \in (Len(u) + 1)..(Len(u) + Len(v)) : w[k] = v[k - Len(u)]
  BY ConcatProperties, LenProperties
<1> HIDE DEF w
<1>2. lo <= mid /\ mid <= hi
  BY DEF Ordered
<1>3. ASSUME NEW k \in DOMAIN w
      PROVE  \/ k \in DOMAIN u /\ w[k] = u[k] /\ w[k].to <= mid
             \/ k - Len(u) \in DOMAIN v /\ w[k] = v[k - Len(u)] /\ mid <= w[k].from
  <2>1. CASE k <= Len(u)
    BY <1>1, <2>1 DEF Ordered
  <2>2. CASE ~ (k <= Len(u))
    <3>1. k \in (Len(u) + 1)..(Len(u) + Len(v)) /\ k - Len(u) \in DOMAIN v
      BY <1>1, <2>2
    <3>2. w[k] = v[k - Len(u)]
      BY <1>1, <3>1
    <3> QED BY <3>1, <3>2 DEF Ordered
  <2> QED BY <2>1, <2>2
<1>4. ASSUME NEW k \in DOMAIN w
      PROVE  /\ w[k].from \in Nat /\ w[k].to \in Nat
             /\ lo <= w[k].from /\ w[k].from <= w[k].to /\ w[k].to <= hi
  <2>1. w[k] \in Span
    BY <1>1, ElementOfSeq
  <2>2. w[k].from \in Nat /\ w[k].to \in Nat
    BY <2>1 DEF Span
  <2>3. CASE k \in DOMAIN u /\ w[k] = u[k]
    BY <1>2, <2>2, <2>3 DEF Ordered
  <2>4. CASE k - Len(u) \in DOMAIN v /\ w[k] = v[k - Len(u)]
    BY <1>2, <2>2, <2>4 DEF Ordered
  <2> QED BY <1>3, <2>3, <2>4
<1>5. ASSUME NEW a \in DOMAIN w, NEW b \in DOMAIN w, a < b
      PROVE  w[a].to <= w[b].from
  <2>1. w[a].to \in Nat /\ w[b].from \in Nat
    BY <1>4
  <2>2. CASE a \in DOMAIN u /\ b \in DOMAIN u
    BY <1>1, <1>5, <2>2 DEF Ordered
  <2>3. CASE a \in DOMAIN u /\ b \notin DOMAIN u
    BY <1>1, <1>3, <2>1, <2>3
  <2>4. CASE a \notin DOMAIN u
    <3>1. /\ a - Len(u) \in DOMAIN v /\ w[a] = v[a - Len(u)]
          /\ b - Len(u) \in DOMAIN v /\ w[b] = v[b - Len(u)]
          /\ a - Len(u) < b - Len(u)
      BY <1>1, <1>3, <1>5, <2>4
    <3> QED BY <3>1 DEF Ordered
  <2> QED BY <2>2, <2>3, <2>4
<1> QED BY <1>1, <1>2, <1>4, <1>5 DEF Ordered, w

(* The fields of a location are in order, between its header and the end   *)
(* of its content.                                                         *)
LEMMA FieldsOrdered ==
    ASSUME NEW p \in Packet, Gt06LaidOut(p), p.content >= 18
    PROVE  Ordered(LocationFields(p), Header(p), Header(p) + p.content)
<1> DEFINE at == Header(p)
           end == at + p.content
           remaining == p.size - (at + 18) - 6
           cell == IF remaining >= 8 THEN CellFields(at + 18) ELSE <<>>
           acc == IF remaining >= 9 THEN <<Field(at + 26, 1)>> ELSE <<>>
           cellEnd == IF remaining >= 8 THEN at + 26 ELSE at + 18
<1>1. at \in Nat /\ p.content \in Nat /\ p.content >= 18
  BY PacketFacts DEF Header
<1>2. remaining = p.content - 18 /\ end \in Nat
  BY <1>1, PacketFacts DEF Gt06LaidOut
<1>3. LocationFields(p) = FixFields(at) \o cell \o acc
  BY Zenon DEF LocationFields
<1> HIDE DEF at
<1>5. Ordered(FixFields(at), at, at + 18) /\ FixFields(at) \in Seq(Span)
  <2> DEFINE q == FixFields(at)
  <2>1. q \in Seq(Span)
    BY <1>1 DEF FixFields, Field, Span
  <2>2. DOMAIN q = 1..6
    BY DEF FixFields
  <2>3. /\ q[1].from = at /\ q[1].to = at + 6
        /\ q[2].from = at + 6 /\ q[2].to = at + 7
        /\ q[3].from = at + 7 /\ q[3].to = at + 11
        /\ q[4].from = at + 11 /\ q[4].to = at + 15
        /\ q[5].from = at + 15 /\ q[5].to = at + 16
        /\ q[6].from = at + 16 /\ q[6].to = at + 18
    BY <1>1 DEF FixFields, Field, Span
  <2> HIDE DEF q
  <2>4. \A a \in 1..6 : a = 1 \/ a = 2 \/ a = 3 \/ a = 4 \/ a = 5 \/ a = 6
    OBVIOUS
  <2>5. \A a \in DOMAIN q : at <= q[a].from /\ q[a].from <= q[a].to /\ q[a].to <= at + 18
    BY <1>1, <2>2, <2>3, <2>4
  <2>6. \A a, b \in DOMAIN q : a < b => q[a].to <= q[b].from
    BY <1>1, <2>2, <2>3, <2>4
  <2>7. at <= at + 18
    BY <1>1
  <2> QED BY <2>1, <2>5, <2>6, <2>7 DEF Ordered, q
<1>6. \A lo, hi \in Nat : lo <= hi => Ordered(<<>>, lo, hi)
  BY DEF Ordered
<1>7. Ordered(cell, at + 18, cellEnd) /\ cell \in Seq(Span)
  <2>1. CASE remaining >= 8
    <3>1. /\ Ordered(CellFields(at + 18), at + 18, at + 26)
          /\ CellFields(at + 18) \in Seq(Span)
      <4> DEFINE q == CellFields(at + 18)
      <4>1. q \in Seq(Span)
        BY <1>1 DEF CellFields, Field, Span
      <4>2. DOMAIN q = 1..4
        BY DEF CellFields
      <4>3. /\ q[1].from = at + 18 /\ q[1].to = at + 20
            /\ q[2].from = at + 20 /\ q[2].to = at + 21
            /\ q[3].from = at + 21 /\ q[3].to = at + 23
            /\ q[4].from = at + 23 /\ q[4].to = at + 26
        BY <1>1 DEF CellFields, Field, Span
      <4> HIDE DEF q
      <4>4. \A a \in 1..4 : a = 1 \/ a = 2 \/ a = 3 \/ a = 4
        OBVIOUS
      <4>5. \A a \in DOMAIN q : at + 18 <= q[a].from /\ q[a].from <= q[a].to /\ q[a].to <= at + 26
        BY <1>1, <4>2, <4>3, <4>4
      <4>6. \A a, b \in DOMAIN q : a < b => q[a].to <= q[b].from
        BY <1>1, <4>2, <4>3, <4>4
      <4>7. at + 18 <= at + 26
        BY <1>1
      <4> QED BY <4>1, <4>5, <4>6, <4>7 DEF Ordered, q
    <3> QED BY <2>1, <3>1
  <2>2. CASE ~ (remaining >= 8)
    BY <1>1, <1>6, <2>2
  <2> QED BY <2>1, <2>2
<1>8. Ordered(acc, cellEnd, end) /\ acc \in Seq(Span) /\ cellEnd \in Nat
  <2>1. CASE remaining >= 9
    <3>1. cellEnd = at + 26 /\ at + 27 <= end
      BY <1>1, <1>2, <2>1
    <3>2. /\ Ordered(<<Field(at + 26, 1)>>, at + 26, end)
          /\ <<Field(at + 26, 1)>> \in Seq(Span)
      <4> DEFINE q == <<Field(at + 26, 1)>>
      <4>1. q \in Seq(Span) /\ DOMAIN q = {1}
        BY <1>1 DEF Field, Span
      <4>2. q[1].from = at + 26 /\ q[1].to = at + 27
        BY <1>1 DEF Field, Span
      <4> HIDE DEF q
      <4>3. at + 26 <= end
        BY <1>1, <1>2, <3>1
      <4> QED BY <1>1, <1>2, <3>1, <4>1, <4>2, <4>3 DEF Ordered, q
    <3> QED BY <1>1, <2>1, <3>1, <3>2
  <2>2. CASE ~ (remaining >= 9)
    <3>1. cellEnd \in Nat /\ cellEnd <= end
      BY <1>1, <1>2, <2>2
    <3> QED BY <1>2, <1>6, <2>2, <3>1
  <2> QED BY <2>1, <2>2
<1> HIDE DEF cell, acc, cellEnd, end, remaining
<1>9. Ordered(FixFields(at) \o cell, at, cellEnd) /\ FixFields(at) \o cell \in Seq(Span)
  <2>1. at + 18 \in Nat
    BY <1>1
  <2> QED BY <1>1, <1>5, <1>7, <1>8, <2>1, OrderedConcat
<1>10. Ordered(FixFields(at) \o cell \o acc, at, end)
  BY <1>1, <1>2, <1>8, <1>9, OrderedConcat
<1> QED BY <1>3, <1>10 DEF at, end

(* No byte of a GT06 location is read for two fields, and none behind its  *)
(* content for any.                                                        *)
THEOREM FieldsAlwaysDisjoint == Spec => []FieldsDisjoint
<1>1. DecodingInv => FieldsDisjoint
  <2> DEFINE fields == decoded.fields
             end == Header(packet) + packet.content
  <2> SUFFICES ASSUME DecodingInv, Returned, protocol = "GT06", Gt06LaidOut(packet),
                      packet.content >= 18
               PROVE  \A a \in DOMAIN fields :
                         /\ Header(packet) <= fields[a].from
                         /\ fields[a].to <= end
                         /\ \A b \in DOMAIN fields : a < b => fields[a].to <= fields[b].from
    BY DEF FieldsDisjoint
  <2>1. packet \in Packet
    BY DEF DecodingInv, TypeOK
  <2>2. Ordered(LocationFields(packet), Header(packet), end)
    BY <2>1, FieldsOrdered
  <2>3. Null.fields = <<>>
    BY DEF Null
  <2>4. fields = <<>> \/ fields = LocationFields(packet)
    BY <2>3 DEF DecodingInv, Gt06Result
  <2>5. CASE fields = <<>>
    BY <2>5
  <2>6. CASE fields = LocationFields(packet)
    <3> HIDE DEF fields, end
    <3> QED BY <2>2, <2>6 DEF Ordered
  <2> QED BY <2>4, <2>5, <2>6
<1> QED BY <1>1, DecodingCorrect, PTL
=============================================================================
