------------------------ MODULE PacketDecodingProperties ------------------------
(***************************************************************************)
(* What the decoders must make of a packet, whatever its bytes, and what   *)
(* they must make of one that is laid out as its sender should.            *)
(***************************************************************************)
EXTENDS PacketDecoding

Span == [from : Nat, to : Nat]

(* Every variable has its type.                                            *)
TypeOK ==
    /\ protocol \in {"GT06", "TELTONIKA"}
    /\ imei \in Seq(Nat)
    /\ phase \in {"wait", "decode", "handle", "done"}
    /\ packet \in Packet
    /\ i \in Nat /\ offset \in Nat
    /\ records \in Seq(Span)
    /\ decoded \in [type : PacketType \cup {"null"}, imei : Seq(Nat), number : Nat,
                    fields : Seq(Span)]
    /\ device \in [imei : Seq(Nat), location : Seq(Span)]
    /\ ack \in Seq(Nat)
    /\ command \in [size : Nat, length : Nat]

(* An AVL packet with records of codec 8, each with its IO counts where it *)
(* says, from the first to the last before the second count.  The counts   *)
(* at the front and at the back may be anything.                           *)
RecordLaidOut(p, at, counts, to) ==
    /\ p.byte[at + 26] = counts.one
    /\ p.byte[at + 27 + 2 * counts.one] = counts.two
    /\ p.byte[at + 28 + 2 * counts.one + 3 * counts.two] = counts.four
    /\ p.byte[at + 29 + 2 * counts.one + 3 * counts.two + 5 * counts.four] = counts.eight
    /\ to = at + 30 + 2 * counts.one + 3 * counts.two + 5 * counts.four + 9 * counts.eight
AvlLaidOut(p) ==
    /\ p.mark = "avl" /\ Codec(p) = 8
    /\ Len(p.starts) = Len(p.io) + 1
    /\ p.starts[1] = 10 /\ p.starts[Len(p.starts)] = p.size - 5
    /\ \A k \in DOMAIN p.starts : p.starts[k] <= p.size - 5
    /\ \A k \in DOMAIN p.io : RecordLaidOut(p, p.starts[k], p.io[k], p.starts[k + 1])
Present(p) == IF RecordCount(p) <= Len(p.io) THEN RecordCount(p) ELSE Len(p.io)

(* A GT06 packet whose length counts the protocol number, the content, the *)
(* serial number and the CRC.                                              *)
Gt06LaidOut(p) ==
    p.mark \in {"short", "long"} /\ p.size = Header(p) + p.content + 6

Returned == phase \in {"handle", "done"}
Accepted == phase = "done" /\ decoded # Null
-----------------------------------------------------------------------------
(* Whatever the bytes: the records lie end to end from the tenth byte on.  *)
(* No byte is read for two records, and none between two is passed over,   *)
(* also when a record failed and the loop goes on (decodeAvlPacket).       *)
RecordsContiguous ==
    \A k \in DOMAIN records :
        /\ records[k].from = IF k = 1 THEN FirstRecord ELSE records[k - 1].to
        /\ records[k].from < records[k].to

(* Whatever the bytes: when decode returns an AVL packet, every record was *)
(* read from its data, none from the second count, the CRC or past the     *)
(* end, although the reads of single bytes are not checked.                *)
RecordsInPacket ==
    Returned /\ decoded # Null =>
        \A k \in DOMAIN records : records[k].to <= packet.size - 5

(* A packet laid out as it should be is decoded, and into the records that *)
(* its sender put there, each from its own bytes, as many as it announced  *)
(* and has.  The location of the device data is the first of them.         *)
SentRecords ==
    [k \in 1..Present(packet) |-> [from |-> packet.starts[k], to |-> packet.starts[k + 1]]]
RecordsExact ==
    Returned /\ AvlLaidOut(packet) =>
        /\ decoded # Null
        /\ records = SentRecords
        /\ phase = "done" /\ imei # <<>> /\ Present(packet) > 0 =>
               device = [imei |-> imei, location |-> <<SentRecords[1]>>]

(* The fields of a GT06 location with at least the content of a fix are    *)
(* read from its content and no byte counts for two of them: the cell and  *)
(* ACC are taken only when they are there, and never from the serial       *)
(* number, the CRC or the stop bits.                                       *)
FieldsDisjoint ==
    LET fields == decoded.fields
    IN Returned /\ protocol = "GT06" /\ Gt06LaidOut(packet) /\ packet.content >= 18 =>
        \A a \in DOMAIN fields :
            /\ Header(packet) <= fields[a].from
            /\ fields[a].to <= Header(packet) + packet.content
            /\ \A b \in DOMAIN fields :
                   a < b => fields[a].to <= fields[b].from

(* A GT06 device can tell which of its packets was acknowledged: the       *)
(* acknowledgement carries the serial number that follows the content.     *)
SerialEchoed ==
    Accepted /\ Gt06LaidOut(packet) => ack[2] = Word(packet, Header(packet) + packet.content)

(* Two GT06 devices are never taken for one: what the login's eight bytes  *)
(* become has no more forgotten than the zeros before the first digit.     *)
Padded(digits) ==
    [k \in 1..16 |-> IF k + Len(digits) <= 16 THEN 0 ELSE digits[k + Len(digits) - 16]]
IsLogin == protocol = "GT06" /\ decoded.type = "LOGIN" /\ packet.content >= 8
HasDigits == \E k \in 1..16 : HexDigits(packet)[k] # 0
IdentityKept ==
    Accepted /\ IsLogin /\ Gt06LaidOut(packet) /\ HasDigits => Padded(imei) = HexDigits(packet)

(* A command of up to 248 bytes is sent as one packet: its length field    *)
(* says where it ends, by the rule that getPacketLength applies to what    *)
(* comes in.                                                               *)
DownlinkWhole ==
    command # NoCommand =>
        IF protocol = "GT06"
        THEN command.size <= 248 + 12 => command.length + 5 = command.size
        ELSE 8 + command.length + 4 = command.size

(* Under FairSpec: the decoding of every packet comes to its end, whatever *)
(* count the packet announces.                                             *)
DecodeEnds == phase = "decode" ~> phase = "done"
-----------------------------------------------------------------------------
(* teltonika.service.ts:352 says "For AVL data packet, send number of      *)
(* records accepted": what an AVL packet is acknowledged with is the       *)
(* number of records that were parsed.                                     *)
AckIsAccepted == Accepted /\ packet.mark = "avl" => ack = <<Len(records)>>
-----------------------------------------------------------------------------
(* What makes them inductive: where the loop stands, and with which of the *)
(* records of a laid out packet.                                           *)
Before == IF records = <<>> THEN FirstRecord ELSE records[Len(records)].to
Walking ==
    /\ offset = Before /\ \A k \in DOMAIN records : records[k].to <= offset
    /\ Len(records) <= i
    /\ Len(records) < i => RecordFails(packet, offset)
    /\ packet.mark # "avl" => records = <<>>
    /\ phase = "decode" /\ packet.mark = "avl" => i <= RecordCount(packet)
WalkingExact ==
    packet.mark = "avl" /\ phase # "wait" /\ AvlLaidOut(packet) =>
        /\ Len(records) = IF i <= Len(packet.io) THEN i ELSE Len(packet.io)
        /\ \A k \in DOMAIN records :
               records[k] = [from |-> packet.starts[k], to |-> packet.starts[k + 1]]
(* What decode returned for the packet in hand, and what Handle made of it. *)
AvlResult ==
    Returned /\ packet.mark = "avl" =>
        /\ i = RecordCount(packet)
        /\ decoded = IF offset + 5 > packet.size THEN Null
                     ELSE [type |-> IF records = <<>> THEN "HEARTBEAT" ELSE "LOCATION",
                           imei |-> decoded.imei, number |-> RecordCount(packet),
                           fields |-> <<>>]
        /\ decoded # Null => decoded.imei = imei
        /\ phase = "done" /\ decoded # Null => device = DeviceData
ImeiResult == Returned /\ packet.mark = "imei" => decoded.type = "LOGIN"
Gt06Result ==
    Returned /\ protocol = "GT06" /\ decoded # Null =>
        /\ decoded.fields \in {<<>>, LocationFields(packet)}
        /\ decoded.number = SerialNumber(packet)
        /\ decoded.type = "LOGIN" => decoded.imei = HexToImei(HexDigits(packet))
        /\ phase = "done" => /\ ack = Gt06Ack(decoded)
                             /\ decoded.imei # <<>> => imei = decoded.imei
ProtocolFits ==
    phase # "wait" => (packet.mark \in {"short", "long"} <=> protocol = "GT06")
DecodingInv ==
    /\ TypeOK /\ Walking /\ WalkingExact /\ AvlResult /\ ImeiResult /\ Gt06Result
    /\ ProtocolFits /\ RecordsContiguous /\ RecordsInPacket
=============================================================================
