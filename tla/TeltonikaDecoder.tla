--------------------------- MODULE TeltonikaDecoder ---------------------------
(***************************************************************************)
(* TeltonikaService.parseAvlRecord, parseIoElements, generateAck and       *)
(* encodeCommand.  A record is represented by the bytes it is read from.   *)
(***************************************************************************)
EXTENDS Gt06Decoder

Codec(p) == Byte(p, 8)
RecordCount(p) == Byte(p, 9)
FirstRecord == 10

(* The IMEI packet: the 15 bytes after the length.                         *)
ImeiOf(p) == [k \in 1..15 |-> Byte(p, k + 1)]

(* An IO group begins with the number of its elements, each of them an id  *)
(* byte and a value of the group's width: where it ends.                   *)
GroupEndNoId(p, at, width) == at + 1 + Byte(p, at) * width   \* mutant
GroupEnd(p, at, width) == at + 1 + Byte(p, at) * (1 + width)

(* A record is 24 bytes of time, priority and GPS, an event id, a total,   *)
(* and for the codecs 8 and 8 Extended alike four groups of one byte ids.  *)
HasIo(p) == Codec(p) \in {8, 142}
Io1(at) == at + 26
Io2(p, at) == GroupEnd(p, Io1(at), 1)
Io4(p, at) == GroupEnd(p, Io2(p, at), 2)
Io8(p, at) == GroupEnd(p, Io4(p, at), 4)
RecordEnd(p, at) == IF HasIo(p) THEN GroupEnd(p, Io8(p, at), 8) ELSE Io1(at)

(* parseAvlRecord returns null when a read of several bytes goes past the  *)
(* end; a read of one byte never throws.                                   *)
RecordFails(p, at) ==
    \/ at + 24 > p.size
    \/ /\ HasIo(p)
       /\ \/ Byte(p, Io2(p, at)) > 0 /\ Io4(p, at) > p.size
          \/ Byte(p, Io4(p, at)) > 0 /\ Io8(p, at) > p.size
          \/ Byte(p, Io8(p, at)) > 0 /\ RecordEnd(p, at) > p.size

(* generateAck: one byte for the IMEI, the record count for AVL data.      *)
TeltonikaAck(packet) == IF packet.type = "LOGIN" THEN <<1>> ELSE <<packet.number>>

(* encodeCommand, codec 12: the size of the packet, and the length field.  *)
TeltonikaCommand(n) ==
    LET dataLength == 1 + 1 + 1 + 4 + n + 1
    IN [size |-> 8 + dataLength + 4, length |-> dataLength]
=============================================================================
