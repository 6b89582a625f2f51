----------------------- MODULE PacketFramingProperties -----------------------
(***************************************************************************)
(* What handleData must do with a stream, however TCP cuts it.             *)
(***************************************************************************)
EXTENDS PacketFraming

Piece == [from : Nat, to : Nat]

(* Every variable has its type.                                            *)
TypeOK ==
    /\ decoder \in {"GT06", "Teltonika"}
    /\ sent \in Seq([frame : Frame, start : Nat])
    /\ lo \in Nat /\ hi \in Nat
    /\ looping \in BOOLEAN
    /\ metaImei \in Imei \cup {None}
    /\ taken \in Seq(Piece)
    /\ acked \in Seq(Nat)
    /\ produced \in Seq([from : Nat, imei : Imei \cup {None}])

(* What the ports' devices send when nothing is wrong: packets of their    *)
(* protocol (the length byte of a GT06 packet counts at least its own      *)
(* protocol number, serial number and CRC).                                *)
Legal(f) == IF decoder = "GT06" THEN f.mark \in {"short", "long"} /\ f.field >= 5
            ELSE f.mark \in {"imei", "avl"}
LegalUpTo(i) == \A j \in 1..i : Legal(sent[j].frame)
-----------------------------------------------------------------------------
(* The pieces that the loop cuts off the buffer are exactly the packets    *)
(* sent, in order, whatever the chunks: a packet is never split, merged    *)
(* with another, taken twice or skipped, and after bytes no decoder knows  *)
(* nothing more is taken at all.                                           *)
FramesIntact ==
    /\ Len(taken) <= Len(sent)
    /\ \A j \in DOMAIN taken : taken[j] = Extent(j)

(* When handleData returns, no complete packet is left in the buffer:      *)
(* there might be no further 'data' event to look at it again.             *)
NothingWaits ==
    ~looping => \A i \in DOMAIN sent :
                   i > Len(taken) /\ LegalUpTo(i) => Extent(i).to > hi

(* What makes them inductive: the stretches lie end to end, and the buffer *)
(* begins where the last piece ended.                                      *)
StretchesMeet ==
    \A i \in DOMAIN sent :
        /\ sent[i].start = IF i = 1 THEN 0 ELSE Extent(i - 1).to
        /\ \A j \in 1..(i - 1) : Extent(j).to <= sent[i].start
BufferBegins == lo = IF taken = <<>> THEN 0 ELSE taken[Len(taken)].to
BufferInStream == lo <= hi /\ hi <= StreamEnd
LoopDone == ~looping => \A i \in DOMAIN sent : ~CompleteAt(i)
FramingInv == /\ TypeOK /\ FramesIntact /\ StretchesMeet /\ BufferBegins
              /\ BufferInStream /\ LoopDone

(* Device data and acknowledgements are those that the packets determine,  *)
(* in their order and each once: that TCP cut the stream into these chunks *)
(* and not others, or put several packets into one, cannot be seen.  The   *)
(* IMEI that counts for a packet is that of the last login before it.      *)
Decoded == {i \in 1..Len(taken) : sent[i].frame.decodes}
ImeiFor(i) ==
    LET logins == {j \in Decoded : j <= i /\ sent[j].frame.imei # None}
    IN IF logins = {} THEN None ELSE sent[Max(logins)].frame.imei
Increasing(q) == \A i, j \in DOMAIN q : i < j => q[i] < q[j]
ChunkingInvisible ==
    /\ Increasing(acked)
    /\ ToSet(acked) = {sent[i].start : i \in Decoded}
    /\ Increasing([j \in DOMAIN produced |-> produced[j].from])
    /\ ToSet(produced) = {[from |-> sent[i].start, imei |-> ImeiFor(i)] :
                             i \in {j \in Decoded : GivesData(sent[j].frame, ImeiFor(j))}}

(* What makes it inductive: socket.meta.imei, which outlives the event, is *)
(* the IMEI of the last login taken.                                       *)
ImeiKept == metaImei = ImeiFor(Len(taken))
ChunkingInv == ImeiKept /\ ChunkingInvisible

(* The framing implements a stream of packets: a piece stands for the      *)
(* packet it consists of, if it is one.                                    *)
PacketOf(piece) ==
    LET whole == {i \in DOMAIN sent : Extent(i) = piece}
    IN IF whole = {} THEN None ELSE sent[CHOOSE i \in whole : TRUE].frame
SentPackets == [i \in DOMAIN sent |-> sent[i].frame]
TakenPackets == [j \in DOMAIN taken |-> PacketOf(taken[j])]
Stream == INSTANCE PacketStream WITH
             Packet <- Frame, out <- SentPackets, got <- TakenPackets
ImplementsStream == Stream!Spec
-----------------------------------------------------------------------------
(* Under FairSpec: the while loop comes to an end, whatever it is fed.     *)
LoopTerminates == looping ~> ~looping

(* Under FairSpec: every packet that a device sends before it sends        *)
(* anything else is taken.                                                 *)
EveryPacketTaken ==
    \A i \in 1..MaxFrames : i <= Len(sent) /\ LegalUpTo(i) ~> Len(taken) >= i
=============================================================================
