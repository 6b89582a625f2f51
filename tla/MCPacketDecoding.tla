--------------------------- MODULE MCPacketDecoding ---------------------------
(***************************************************************************)
(* Packets for TLC, put together byte by byte the way a device would, and  *)
(* some that no device should send.                                        *)
(***************************************************************************)
EXTENDS PacketDecodingProperties

Zeros(n) == [k \in 1..n |-> 0]
Numbered(bytes) == [o \in 0..(Len(bytes) - 1) |-> bytes[o + 1]]
Made(mark, bytes, content, starts, io) ==
    [mark |-> mark, size |-> Len(bytes), byte |-> Numbered(bytes), content |-> content,
     starts |-> starts, io |-> io]

Io(a, b, c, d) == [one |-> a, two |-> b, four |-> c, eight |-> d]
RecordBytes(io) ==
    Zeros(26) \o <<io.one>> \o Zeros(2 * io.one) \o <<io.two>> \o Zeros(3 * io.two)
    \o <<io.four>> \o Zeros(5 * io.four) \o <<io.eight>> \o Zeros(9 * io.eight)
RecordSize(io) == Len(RecordBytes(io))
StartOf(io, k) ==
    10 + (IF k > 1 THEN RecordSize(io[1]) ELSE 0) + (IF k > 2 THEN RecordSize(io[2]) ELSE 0)
DataBytes(io) ==
    (IF Len(io) > 0 THEN RecordBytes(io[1]) ELSE <<>>)
    \o (IF Len(io) > 1 THEN RecordBytes(io[2]) ELSE <<>>)
Avl(codec, count, io) ==
    Made("avl", Zeros(8) \o <<codec, count>> \o DataBytes(io) \o <<Len(io)>> \o Zeros(4),
         0, [k \in 1..(Len(io) + 1) |-> StartOf(io, k)], io)
(* The same packet, sent with less data than the records need.             *)
Cut(p, n) ==
    Made("avl", [k \in 1..(p.size - n) |-> p.byte[k - 1]], 0, <<>>, <<>>)

IoShapes == {Io(0, 0, 0, 0), Io(2, 0, 0, 0), Io(0, 1, 0, 0), Io(0, 0, 1, 1), Io(1, 1, 1, 2)}
AvlPackets ==
    {Avl(8, count, <<>>) : count \in {0, 1}}
    \cup {Avl(8, count, <<io>>) : count \in 0..3, io \in IoShapes}
    \cup {Avl(8, count, <<a, b>>) : count \in {1, 2, 3}, a, b \in IoShapes}
    \cup {Avl(codec, 2, <<a, a>>) : codec \in {142, 16}, a \in IoShapes}
    \cup {Cut(Avl(8, 2, <<a, a>>), n) : a \in IoShapes, n \in {1, 5, 8, 20, 40}}
    \cup {Made("avl", Zeros(12), 0, <<>>, <<>>),
          Made("avl", Zeros(8) \o <<8, 6>> \o Zeros(29) \o <<200>> \o Zeros(20), 0, <<>>, <<>>)}
Imei == Made("imei", <<0, 15>> \o [k \in 1..15 |-> 48 + (k % 10)], 0, <<>>, <<>>)

(* 0x78 0x78, a length, protocol number, content, serial number, CRC, stop *)
Gt06(mark, number, content, serial) ==
    LET length == Len(content) + 5
        start == IF mark = "short" THEN <<120, 120, length>> ELSE <<121, 121, 0, length>>
    IN Made(mark, start \o <<number>> \o content \o serial \o <<7, 7, 13, 10>>,
            Len(content), <<>>, <<>>)
Login(a, b, h) == Gt06("short", 1, <<a, b>> \o [k \in 1..6 |-> h], <<0, 1>>)
Gt06Packets ==
    {Login(a, b, h) : a \in {0, 3, 18}, b \in {0, 2, 32}, h \in {0, 9, 16}}
    \cup {Gt06(mark, number, Zeros(n), <<1, 2>>) :
             mark \in {"short", "long"}, number \in {18, 19, 38, 26, 128},
             n \in {0, 5, 12, 18, 25, 26, 27, 30}}
    \cup {Gt06("short", 1, <<1, 2>>, <<0, 9>>),
          Made("short", <<120, 120, 0, 13, 10>>, 0, <<>>, <<>>)}

AllPackets == AvlPackets \cup {Imei} \cup Gt06Packets
=============================================================================
