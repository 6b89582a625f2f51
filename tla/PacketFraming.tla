---------------------------- MODULE PacketFraming ----------------------------
(***************************************************************************)
(* TcpServerService.handleData: the buffer of one socket, the loop that    *)
(* cuts packets off its front with hasCompletePacket and getPacketLength   *)
(* of the port's decoder, and what it keeps of each packet.                *)
(*                                                                         *)
(* The bytes of the stream are numbered from 0; byte positions lo..hi-1    *)
(* are in socketBuffer.buffer.  What the device sends is a sequence of     *)
(* stretches of bytes: packets that begin with a header and are as long as *)
(* it says, and garbage, which no decoder takes for a header.  The loop    *)
(* runs to its end within one 'data' event, but the device keeps sending.  *)
(***************************************************************************)
EXTENDS SequencesExt

CONSTANTS
    Imei,       \* device identities
    None,       \* no identity
    Frame,      \* the stretches of bytes a device may send
    MaxFrames   \* bound: stretches sent

(* short: 0x7878, long: 0x7979, imei: 0x000F, avl: four zero bytes.        *)
Mark == {"short", "long", "imei", "avl", "garbage"}
Kind == {"LOGIN", "HEARTBEAT", "LOCATION"}

(* A stretch: its first bytes, its length field, and what decode makes of  *)
(* it: null, or a packet of a kind, with the IMEI a login carries.  Right  *)
(* or wrong, the CRC makes no difference to that in either decoder.        *)
ASSUME FrameAssumption ==
    /\ None \notin Imei
    /\ MaxFrames \in Nat
    /\ Frame \subseteq [mark : Mark, field : Nat, kind : Kind, imei : Imei \cup {None},
                        decodes : BOOLEAN]
    /\ \A f \in Frame : /\ f.mark = "imei" => f.field = 15
                        /\ f.mark = "garbage" => f.field > 0
                        /\ f.kind = "LOGIN" <=> f.imei # None

VARIABLES
    decoder,   \* getDecoderByPort of the socket's port
    sent,      \* the stretches sent, with the position of their first byte
    lo, hi,    \* socketBuffer.buffer
    looping,   \* handleData is in its while loop
    metaImei,  \* socket.meta.imei
    taken,     \* the pieces cut off the buffer
    acked,     \* the positions of the packets acknowledged
    produced   \* result.deviceData, over all events

vars == <<decoder, sent, lo, hi, looping, metaImei, taken, acked, produced>>
-----------------------------------------------------------------------------
Size(f) ==
    f.field + [short |-> 5, long |-> 6, imei |-> 2, avl |-> 12, garbage |-> 0][f.mark]

Extent(i) == [from |-> sent[i].start, to |-> sent[i].start + Size(sent[i].frame)]
StreamEnd == IF sent = <<>> THEN 0 ELSE Extent(Len(sent)).to

(* The two decoders, on a buffer of n bytes that begins with stretch f.    *)
Gt06LengthShort(f, n) ==   \* mutant: the stop bytes are not counted
    IF n < 3 THEN 0
    ELSE IF f.mark = "short" THEN f.field + 3
    ELSE IF f.mark = "long" /\ n >= 4 THEN f.field + 6
    ELSE 0
Gt06Length(f, n) ==
    IF n < 3 THEN 0
    ELSE IF f.mark = "short" THEN f.field + 5
    ELSE IF f.mark = "long" /\ n >= 4 THEN f.field + 6
    ELSE 0

TeltonikaLengthNoCrc(f, n) ==   \* mutant: the CRC is not counted
    IF n < 2 THEN 0
    ELSE IF f.mark = "imei" THEN 17
    ELSE IF f.mark = "avl" /\ n >= 8 THEN 8 + f.field
    ELSE 0
TeltonikaLength(f, n) ==
    IF n < 2 THEN 0
    ELSE IF f.mark = "imei" THEN 17
    ELSE IF f.mark = "avl" /\ n >= 8 THEN 8 + f.field + 4
    ELSE 0

PacketLength(f, n) ==
    IF decoder = "GT06" THEN Gt06Length(f, n) ELSE TeltonikaLength(f, n)

Gt06Complete(f, n) ==
    /\ n >= 10
    /\ f.mark \in {"short", "long"}
    /\ Gt06Length(f, n) > 0 /\ n >= Gt06Length(f, n)
TeltonikaComplete(f, n) ==
    \/ n >= 2 /\ f.mark = "imei" /\ n >= 17
    \/ n >= 8 /\ TeltonikaLength(f, n) > 0 /\ n >= TeltonikaLength(f, n)

HasMore(f, n) ==   \* mutant: waits for a byte beyond the packet
    LET length == PacketLength(f, n)
    IN IF decoder = "GT06"
       THEN n >= 10 /\ f.mark \in {"short", "long"} /\ length > 0 /\ n > length
       ELSE \/ n >= 2 /\ f.mark = "imei" /\ n > 17
            \/ n >= 8 /\ length > 0 /\ n > length
HasCompletePacket(f, n) ==
    IF decoder = "GT06" THEN Gt06Complete(f, n) ELSE TeltonikaComplete(f, n)

(* Stretch i begins at the front of the buffer and is all there.           *)
CompleteAt(i) ==
    /\ sent[i].start = lo
    /\ HasCompletePacket(sent[i].frame, hi - lo)

(* What the loop does with a packet: transformToDeviceData returns null    *)
(* without an IMEI, except for a GT06 location ('unknown').                *)
NewImei(f) == IF f.decodes /\ f.imei # None THEN f.imei ELSE metaImei
GivesData(f, imei) ==
    f.decodes /\ (imei # None \/ (decoder = "GT06" /\ f.kind = "LOCATION"))
-----------------------------------------------------------------------------
Init ==
    /\ decoder \in {"GT06", "Teltonika"}
    /\ sent = <<>>
    /\ lo = 0 /\ hi = 0
    /\ looping = FALSE
    /\ metaImei = None
    /\ taken = <<>> /\ acked = <<>> /\ produced = <<>>

(* The device writes one more stretch to its end of the connection.        *)
Send(f) ==
    /\ Len(sent) < MaxFrames
    /\ sent' = Append(sent, [frame |-> f, start |-> StreamEnd])
    /\ UNCHANGED <<decoder, lo, hi, looping, metaImei, taken, acked, produced>>

(* A 'data' event: TCP delivers the bytes up to position n, any number of  *)
(* them, and handleData appends them to the buffer.                        *)
ArriveForgetting(n) ==   \* mutant: the identity lives for one event
    /\ ~looping
    /\ hi' = n /\ looping' = TRUE /\ metaImei' = None
    /\ UNCHANGED <<decoder, sent, lo, taken, acked, produced>>

Arrive(n) ==
    /\ ~looping
    /\ hi' = n
    /\ looping' = TRUE
    /\ UNCHANGED <<decoder, sent, lo, metaImei, taken, acked, produced>>

(* One turn of the loop: slice, decode, remember the IMEI, transform, ack. *)
(* A packet that decodes to null is skipped.                               *)
TakeKeeping(i) ==   \* mutant: only a decoded packet is sliced off
    /\ looping /\ CompleteAt(i)
    /\ IF sent[i].frame.decodes
       THEN /\ lo' = lo + PacketLength(sent[i].frame, hi - lo)
            /\ taken' = Append(taken, [from |-> lo, to |-> lo'])
       ELSE UNCHANGED <<lo, taken>>
    /\ UNCHANGED <<decoder, sent, hi, looping, metaImei, acked, produced>>

Take(i) ==
    LET f == sent[i].frame
        length == PacketLength(f, hi - lo)
    IN /\ looping
       /\ CompleteAt(i)
       /\ taken' = Append(taken, [from |-> lo, to |-> lo + length])
       /\ lo' = lo + length
       /\ metaImei' = NewImei(f)
       /\ produced' = IF GivesData(f, NewImei(f))
                      THEN Append(produced, [from |-> lo, imei |-> NewImei(f)])
                      ELSE produced
       /\ acked' = IF f.decodes THEN Append(acked, lo) ELSE acked
       /\ UNCHANGED <<decoder, sent, hi, looping>>

LoopEnds ==
    /\ looping
    /\ \A i \in DOMAIN sent : ~CompleteAt(i)
    /\ looping' = FALSE
    /\ UNCHANGED <<decoder, sent, lo, hi, metaImei, taken, acked, produced>>

ArriveSome == \E n \in (hi + 1)..StreamEnd : Arrive(n)
Loop == LoopEnds \/ \E i \in DOMAIN sent : Take(i)

Next == (\E f \in Frame : Send(f)) \/ ArriveSome \/ Loop

Spec == Init /\ [][Next]_vars

(* A connection that stays up delivers its bytes, and the loop is not      *)
(* interrupted.  Nothing obliges the device to send.                       *)
FairSpec == Spec /\ WF_vars(ArriveSome) /\ WF_vars(Loop)
=============================================================================
