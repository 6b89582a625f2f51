----------------------------- MODULE PacketDecoding ----------------------------
(***************************************************************************)
(* What handleData does with the packets it has cut off, at the level of   *)
(* their bytes: decode (step by step for the records of an AVL packet),    *)
(* the socket's identity, transformToDeviceData and generateAck; and the   *)
(* commands written to the same socket between two packets.                *)
(***************************************************************************)
EXTENDS TeltonikaDecoder

CONSTANTS
    Packet,       \* what devices send
    CommandSize   \* the lengths of commands, in bytes

(* handleData has cut the packet off by its length field: an IMEI packet   *)
(* has 17 bytes, an AVL packet at least 12, a GT06 packet its start bits,  *)
(* length and stop bits.                                                   *)
ASSUME PacketAssumption ==
    \A p \in Packet :
        /\ p.mark \in Mark /\ p.size \in Nat /\ p.content \in Nat
        /\ p.byte \in [0..(p.size - 1) -> 0..255]
        /\ p.starts \in Seq(Nat) /\ p.io \in Seq(IoCounts)
        /\ p.size >= [short |-> 5, long |-> 6, imei |-> 17, avl |-> 12][p.mark]
ASSUME CommandSizeAssumption == CommandSize \subseteq Nat

VARIABLES
    protocol,   \* the decoder of the socket's port
    imei,       \* socket.meta.imei, <<>> when undefined
    phase,      \* wait for the first packet, decode, handle the result, done
    packet,     \* the packet in hand, or the last one
    i, offset,  \* of decodeAvlPacket
    records,    \* the records parsed
    decoded,    \* what decode returned
    device,     \* what transformToDeviceData returned
    ack,        \* the acknowledgement written for it, <<>> for none
    command     \* the last command written

vars == <<protocol, imei, phase, packet, i, offset, records, decoded, device, ack, command>>

NoDevice == [imei |-> <<>>, location |-> <<>>]
Unknown == <<16>>   \* 'unknown', which no digits spell
NoCommand == [size |-> 0, length |-> 0]
-----------------------------------------------------------------------------
Init ==
    /\ protocol \in {"GT06", "TELTONIKA"}
    /\ imei = <<>>
    /\ phase = "wait"
    /\ packet \in Packet   \* of no account in this phase
    /\ i = 0 /\ offset = FirstRecord /\ records = <<>>
    /\ decoded = Null /\ device = NoDevice /\ ack = <<>>
    /\ command = NoCommand

BetweenPackets == phase \in {"wait", "done"}

Begin(p) ==
    /\ BetweenPackets
    /\ p.mark \in (IF protocol = "GT06" THEN {"short", "long"} ELSE {"imei", "avl"})
    /\ phase' = "decode" /\ packet' = p
    /\ i' = 0 /\ offset' = FirstRecord /\ records' = <<>>
    /\ decoded' = Null /\ device' = NoDevice /\ ack' = <<>>
    /\ UNCHANGED <<protocol, imei, command>>

Returns(result) ==
    /\ phase' = "handle"
    /\ decoded' = result
    /\ UNCHANGED <<protocol, imei, packet, i, offset, records, device, ack, command>>

DecodeGt06 ==
    /\ phase = "decode" /\ protocol = "GT06"
    /\ Returns(Gt06Decode(packet, imei))

DecodeImei ==
    /\ phase = "decode" /\ packet.mark = "imei"
    /\ Returns([type |-> "LOGIN", imei |-> ImeiOf(packet), number |-> 0, fields |-> <<>>])

(* One turn of the loop of decodeAvlPacket.  A record that fails is not    *)
(* kept, and the next turn begins at the same offset.                      *)
ResumeByteOn(at) ==   \* mutant: looks for a record one byte further on
    IF RecordFails(packet, at) THEN at + 1 ELSE RecordEnd(packet, at)
Resume(at) == IF RecordFails(packet, at) THEN at ELSE RecordEnd(packet, at)

ParseRecordUntilParsed ==   \* mutant: a failed record is tried again
    /\ phase = "decode" /\ packet.mark = "avl" /\ i < RecordCount(packet)
    /\ offset' = Resume(offset)
    /\ i' = IF offset' = offset THEN i ELSE i + 1
    /\ records' = IF offset' = offset THEN records
                  ELSE Append(records, [from |-> offset, to |-> offset'])
    /\ UNCHANGED <<protocol, imei, phase, packet, decoded, device, ack, command>>
ParseRecordKept ==   \* mutant: also a record that failed is kept
    /\ phase = "decode" /\ packet.mark = "avl" /\ i < RecordCount(packet)
    /\ i' = i + 1
    /\ records' = Append(records, [from |-> offset, to |-> RecordEnd(packet, offset)])
    /\ offset' = RecordEnd(packet, offset)
    /\ UNCHANGED <<protocol, imei, phase, packet, decoded, device, ack, command>>
ParseRecord ==
    /\ phase = "decode" /\ packet.mark = "avl" /\ i < RecordCount(packet)
    /\ i' = i + 1
    /\ offset' = Resume(offset)
    /\ records' = IF RecordFails(packet, offset) THEN records
                  ELSE Append(records, [from |-> offset, to |-> offset'])
    /\ UNCHANGED <<protocol, imei, phase, packet, decoded, device, ack, command>>

(* The second count, and the CRC, of which only the read can fail.  A      *)
(* packet without records counts as a heartbeat.                           *)
TrailerFailsAtEnd == offset + 1 > packet.size   \* mutant: the CRC is not read
TrailerFails == offset + 5 > packet.size
Trailer ==
    /\ phase = "decode" /\ packet.mark = "avl" /\ i = RecordCount(packet)
    /\ Returns(IF TrailerFails THEN Null
               ELSE [type |-> IF records = <<>> THEN "HEARTBEAT" ELSE "LOCATION",
                     imei |-> imei, number |-> RecordCount(packet), fields |-> <<>>])

(* transformToDeviceData: a Teltonika location is the first record.        *)
GivesDevice ==
    decoded.imei # <<>> \/ (protocol = "GT06" /\ decoded.type \in {"LOCATION", "ALARM"})
DeviceData ==
    IF ~GivesDevice THEN NoDevice
    ELSE [imei |-> IF decoded.imei = <<>> THEN Unknown ELSE decoded.imei,
          location |-> IF protocol = "GT06" THEN decoded.fields
                       ELSE IF decoded.type = "LOCATION" THEN <<records[1]>> ELSE <<>>]

Handle ==
    /\ phase = "handle"
    /\ phase' = "done"
    /\ IF decoded = Null
       THEN UNCHANGED <<imei, device, ack>>
       ELSE /\ imei' = IF decoded.imei = <<>> THEN imei ELSE decoded.imei
            /\ device' = DeviceData
            /\ ack' = IF protocol = "GT06" THEN Gt06Ack(decoded) ELSE TeltonikaAck(decoded)
    /\ UNCHANGED <<protocol, packet, i, offset, records, decoded, command>>

(* sendCommand, for a command of n bytes.  handleData runs to its end      *)
(* within one event.                                                       *)
SendCommand(n) ==
    /\ BetweenPackets
    /\ command' = IF protocol = "GT06" THEN Gt06Command(n) ELSE TeltonikaCommand(n)
    /\ UNCHANGED <<protocol, imei, phase, packet, i, offset, records, decoded, device, ack>>

Decode == DecodeGt06 \/ DecodeImei \/ ParseRecord \/ Trailer \/ Handle
Next ==
    \/ \E p \in Packet : Begin(p)
    \/ Decode
    \/ \E n \in CommandSize : SendCommand(n)

Spec == Init /\ [][Next]_vars

(* The decoding is not interrupted.                                        *)
FairSpec == Spec /\ WF_vars(Decode)
=============================================================================
