--------------------------- MODULE MCPacketFraming ---------------------------
(***************************************************************************)
(* Small streams for TLC, of packets as short as they come.                *)
(***************************************************************************)
EXTENDS PacketFramingProperties

CONSTANTS d1, d2

Stretch(mark, field, kind, imei, decodes) ==
    [mark |-> mark, field |-> field, kind |-> kind, imei |-> imei, decodes |-> decodes]

Gt06Frames ==
    {Stretch("short", 13, "LOGIN", d1, TRUE),
     Stretch("short", 13, "LOGIN", d2, TRUE),
     Stretch("short", 5, "HEARTBEAT", None, TRUE),
     Stretch("long", 6, "LOCATION", None, TRUE),
     Stretch("short", 7, "LOCATION", None, FALSE)}
TeltonikaFrames ==
    {Stretch("imei", 15, "LOGIN", d1, TRUE),
     Stretch("avl", 0, "LOCATION", None, FALSE),
     Stretch("avl", 3, "LOCATION", None, TRUE)}
Garbage == {Stretch("garbage", 2, "HEARTBEAT", None, FALSE)}
AllFrames == Gt06Frames \cup TeltonikaFrames \cup Garbage
=============================================================================
