------------------------------ MODULE Gt06Decoder -----------------------------
(***************************************************************************)
(* GT06Service.decode, generateAck and encodeCommand, on the bytes of one  *)
(* packet.  A decoded value is represented by the bytes it is read from.   *)
(***************************************************************************)
EXTENDS FiniteSetsExt, Sequences, Integers

(* A packet: what its first two bytes say it is, its size, its bytes       *)
(* (numbered from 0), and what its sender put into it: the length of a     *)
(* GT06 packet's content, or the starts and the IO counts of AVL records.  *)
Mark == {"short", "long", "imei", "avl"}
IoCounts == [one : Nat, two : Nat, four : Nat, eight : Nat]

(* buffer[o]: undefined past the end, which no comparison finds above 0.   *)
Byte(p, o) == IF o < p.size THEN p.byte[o] ELSE 0
Word(p, o) == 256 * Byte(p, o) + Byte(p, o + 1)

(* What decode returns.  number is the serial number of a GT06 packet, the *)
(* record count of an AVL packet; fields are the places of a location.     *)
PacketType == {"LOGIN", "HEARTBEAT", "LOCATION", "ALARM", "STATUS", "UNKNOWN"}
Null == [type |-> "null", imei |-> <<>>, number |-> 0, fields |-> <<>>]
-----------------------------------------------------------------------------
(* The content follows the start bits, the length and the protocol number. *)
Header(p) == IF p.mark = "long" THEN 5 ELSE 4
Protocol(p) == Byte(p, Header(p) - 1)

TypeOf(n) ==
    IF n = 1 THEN "LOGIN"
    ELSE IF n = 19 THEN "HEARTBEAT"
    ELSE IF n \in {18, 34} THEN "LOCATION"
    ELSE IF n \in {22, 38} THEN "ALARM"
    ELSE IF n = 26 THEN "STATUS"
    ELSE "UNKNOWN"

(* The IMEI bytes in hex, as many of the eight as the packet has.          *)
HexDigits(p) ==
    LET bytes == IF Header(p) + 8 <= p.size THEN 8 ELSE p.size - Header(p)
        at(k) == Byte(p, Header(p) + (k - 1) \div 2)
    IN [k \in 1..(2 * bytes) |-> IF k % 2 = 1 THEN at(k) \div 16 ELSE at(k) % 16]

(* hexToImei: no leading zeros.                                            *)
HexToImeiAnyZeros(hex) ==   \* mutant: the first zeros, wherever they are
    LET zeros == {k \in DOMAIN hex : hex[k] = 0}
        from == Min(zeros)
        to == Min({k \in DOMAIN hex : k > from /\ hex[k] # 0} \cup {Len(hex) + 1})
    IN IF zeros = {} THEN hex
       ELSE SubSeq(hex, 1, from - 1) \o SubSeq(hex, to, Len(hex))
HexToImei(hex) ==
    LET digits == {k \in DOMAIN hex : hex[k] # 0}
    IN IF digits = {} THEN <<>> ELSE SubSeq(hex, Min(digits), Len(hex))

(* decodeLocation: time, satellites, latitude, longitude, speed, course;   *)
(* then the cell (the cell id is read with the byte before it, which is    *)
(* masked off) and ACC, as far as the bytes before the serial number go.   *)
Field(from, length) == [from |-> from, to |-> from + length]
FixFields(at) ==
    <<Field(at, 6), Field(at + 6, 1), Field(at + 7, 4), Field(at + 11, 4),
      Field(at + 15, 1), Field(at + 16, 2)>>
CellFieldsUnmasked(at) ==   \* mutant: the cell id is read where it begins
    <<Field(at, 2), Field(at + 2, 1), Field(at + 3, 2), Field(at + 5, 4)>>
CellFields(at) ==
    <<Field(at, 2), Field(at + 2, 1), Field(at + 3, 2), Field(at + 5, 3)>>
LocationFields(p) ==
    LET at == Header(p)
        remaining == p.size - (at + 18) - 6
    IN FixFields(at)
       \o (IF remaining >= 8 THEN CellFields(at + 18) ELSE <<>>)
       \o (IF remaining >= 9 THEN <<Field(at + 26, 1)>> ELSE <<>>)

(* A read out of range throws, and decode catches it: the course of a      *)
(* location, the serial number of any packet.                              *)
Throws(p) ==
    \/ TypeOf(Protocol(p)) \in {"LOCATION", "ALARM"} /\ Header(p) + 18 > p.size
    \/ p.size < 6

SerialNumberAtStop(p) == Word(p, p.size - 4)   \* mutant: the CRC
SerialNumber(p) == Word(p, p.size - 6)

(* decode; metaImei is socket.meta.imei.                                   *)
Gt06Decode(p, metaImei) ==
    LET type == TypeOf(Protocol(p))
    IN IF Throws(p) THEN Null
       ELSE [type |-> type,
             imei |-> IF type = "LOGIN" THEN HexToImei(HexDigits(p)) ELSE metaImei,
             number |-> SerialNumber(p),
             fields |-> IF type \in {"LOCATION", "ALARM"} THEN LocationFields(p) ELSE <<>>]

(* generateAck: a protocol number and the packet's serial number.  Status  *)
(* and unknown packets get the number of a login.                          *)
Gt06Ack(packet) ==
    <<IF packet.type = "HEARTBEAT" THEN 19
      ELSE IF packet.type = "LOCATION" THEN 18
      ELSE IF packet.type = "ALARM" THEN 22
      ELSE 1, packet.number>>

(* encodeCommand, for a command of n bytes: the size of the packet, and    *)
(* the length byte in it.                                                  *)
Gt06CommandNoCrc(n) == [size |-> n + 12, length |-> (n + 5) % 256]   \* mutant
Gt06Command(n) == [size |-> (n + 7) + 5, length |-> (n + 7) % 256]
=============================================================================
