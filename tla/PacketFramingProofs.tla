------------------------- MODULE PacketFramingProofs -------------------------
(***************************************************************************)
(* Proofs that the framing of handleData is right for every stream, every  *)
(* way of cutting it into chunks and every set of packets.                 *)
(***************************************************************************)
EXTENDS PacketFramingProperties, SequenceLemmas

(* Every stretch has at least one byte.                                    *)
LEMMA SizePositive ==
    ASSUME NEW f \in Frame
    PROVE  Size(f) \in Nat /\ Size(f) > 0
<1>1. f.mark \in Mark /\ f.field \in Nat /\ (f.mark = "garbage" => f.field > 0)
  BY FrameAssumption
<1>2. CASE f.mark = "garbage"
  BY <1>1, <1>2 DEF Size
<1>3. CASE f.mark = "short"
  BY <1>1, <1>3 DEF Size
<1>4. CASE f.mark = "long"
  BY <1>1, <1>4 DEF Size
<1>5. CASE f.mark = "imei"
  BY <1>1, <1>5 DEF Size
<1>6. CASE f.mark = "avl"
  BY <1>1, <1>6 DEF Size
<1> QED BY <1>1, <1>2, <1>3, <1>4, <1>5, <1>6 DEF Mark

(* A packet for which hasCompletePacket is true is there to its last byte, *)
(* and getPacketLength gives its size.                                     *)
LEMMA CompleteIsWhole ==
    ASSUME NEW f \in Frame, NEW n \in Int, HasCompletePacket(f, n),
           decoder \in {"GT06", "Teltonika"}
    PROVE  PacketLength(f, n) = Size(f) /\ Size(f) <= n
<1>1. f.mark \in Mark /\ f.field \in Nat /\ (f.mark = "imei" => f.field = 15)
  BY FrameAssumption
<1>2. CASE decoder = "GT06" /\ f.mark = "short"
  BY <1>1, <1>2 DEF HasCompletePacket, Gt06Complete, PacketLength, Gt06Length, Size
<1>3. CASE decoder = "GT06" /\ f.mark = "long"
  BY <1>1, <1>3 DEF HasCompletePacket, Gt06Complete, PacketLength, Gt06Length, Size
<1>4. CASE decoder = "Teltonika" /\ f.mark = "imei"
  BY <1>1, <1>4 DEF HasCompletePacket, TeltonikaComplete, PacketLength, TeltonikaLength, Size
<1>5. CASE decoder = "Teltonika" /\ f.mark = "avl"
  BY <1>1, <1>5 DEF HasCompletePacket, TeltonikaComplete, PacketLength, TeltonikaLength, Size
<1>6. CASE decoder = "Teltonika" /\ f.mark \notin {"imei", "avl"}
  BY <1>1, <1>6 DEF HasCompletePacket, TeltonikaComplete, PacketLength, TeltonikaLength
<1>7. CASE decoder = "GT06" /\ f.mark \notin {"short", "long"}
  BY <1>7 DEF HasCompletePacket, Gt06Complete
<1> QED BY <1>2, <1>3, <1>4, <1>5, <1>6, <1>7

(* Conversely, a legal packet of which every byte is there is complete.    *)
LEMMA WholeIsComplete ==
    ASSUME NEW f \in Frame, NEW n \in Int, Legal(f), Size(f) <= n,
           decoder \in {"GT06", "Teltonika"}
    PROVE  HasCompletePacket(f, n)
<1>1. f.mark \in Mark /\ f.field \in Nat /\ (f.mark = "imei" => f.field = 15)
  BY FrameAssumption
<1>2. CASE decoder = "GT06" /\ f.mark = "short"
  BY <1>1, <1>2 DEF HasCompletePacket, Gt06Complete, PacketLength, Gt06Length, Size, Legal
<1>3. CASE decoder = "GT06" /\ f.mark = "long"
  BY <1>1, <1>3 DEF HasCompletePacket, Gt06Complete, PacketLength, Gt06Length, Size, Legal
<1>4. CASE decoder = "Teltonika" /\ f.mark = "imei"
  BY <1>1, <1>4 DEF HasCompletePacket, TeltonikaComplete, PacketLength, TeltonikaLength, Size, Legal
<1>5. CASE decoder = "Teltonika" /\ f.mark = "avl"
  BY <1>1, <1>5 DEF HasCompletePacket, TeltonikaComplete, PacketLength, TeltonikaLength, Size, Legal
<1> QED BY <1>2, <1>3, <1>4, <1>5 DEF Legal

(* The places of the stretches, as numbers.                                *)
LEMMA Extents ==
    ASSUME TypeOK, NEW i \in DOMAIN sent
    PROVE  /\ i \in 1..Len(sent) /\ sent[i].frame \in Frame /\ sent[i].start \in Nat
           /\ Extent(i) \in Piece
           /\ Extent(i).from = sent[i].start
           /\ Extent(i).to = sent[i].start + Size(sent[i].frame)
           /\ sent[i].start < Extent(i).to
<1>1. i \in 1..Len(sent) /\ sent[i] \in [frame : Frame, start : Nat]
  BY LenProperties, ElementOfSeq DEF TypeOK
<1>2. Size(sent[i].frame) \in Nat /\ Size(sent[i].frame) > 0
  BY <1>1, SizePositive
<1> QED BY <1>1, <1>2 DEF Extent, Piece

(* The stretch after the last one taken begins at the front of the buffer. *)
LEMMA FrontIsNext ==
    ASSUME FramingInv, Len(taken) < Len(sent)
    PROVE  sent[Len(taken) + 1].start = lo
<1> DEFINE k == Len(taken)
<1>1. k \in Nat /\ Len(sent) \in Nat /\ DOMAIN sent = 1..Len(sent) /\ DOMAIN taken = 1..k
  BY LenProperties DEF FramingInv, TypeOK
<1>2. k + 1 \in DOMAIN sent
  BY <1>1
<1>3. CASE taken = <<>>
  BY <1>1, <1>2, <1>3 DEF FramingInv, StretchesMeet, BufferBegins
<1>4. CASE taken # <<>>
  <2>1. k > 0
    BY <1>1, <1>4, EmptySeq DEF FramingInv, TypeOK
  <2>2. lo = Extent(k).to
    BY <1>1, <1>4, <2>1 DEF FramingInv, BufferBegins, FramesIntact
  <2>3. sent[k + 1].start = Extent(k).to
    BY <1>1, <1>2, <2>1 DEF FramingInv, StretchesMeet
  <2> QED BY <2>2, <2>3
<1> QED BY <1>3, <1>4

(* No other stretch begins there.                                          *)
LEMMA OnlyNextAtFront ==
    ASSUME FramingInv, NEW i \in DOMAIN sent, sent[i].start = lo
    PROVE  i = Len(taken) + 1
<1> DEFINE k == Len(taken)
<1>1. k \in Nat /\ Len(sent) \in Nat /\ DOMAIN sent = 1..Len(sent) /\ DOMAIN taken = 1..k
  BY LenProperties DEF FramingInv, TypeOK
<1>2. k <= Len(sent)
  BY DEF FramingInv, FramesIntact
<1>3. lo \in Nat /\ i \in 1..Len(sent)
  BY <1>1 DEF FramingInv, TypeOK
<1>4. CASE i <= k
  <2>1. taken # <<>> /\ k \in DOMAIN sent /\ k \in DOMAIN taken
    BY <1>1, <1>2, <1>3, <1>4, EmptySeq
  <2>2. lo = Extent(k).to
    BY <1>1, <2>1 DEF FramingInv, BufferBegins, FramesIntact
  <2>3. /\ sent[k].start < Extent(k).to /\ sent[i].start < Extent(i).to
        /\ sent[k].start \in Nat /\ Extent(k).to \in Nat /\ Extent(i).to \in Nat
    BY <2>1, Extents DEF FramingInv, Piece
  <2>4. CASE i = k
    BY <1>3, <2>2, <2>3, <2>4
  <2>5. CASE i < k
    <3>1. Extent(i).to <= sent[k].start
      BY <1>1, <1>3, <2>1, <2>5 DEF FramingInv, StretchesMeet
    <3> QED BY <1>3, <2>2, <2>3, <3>1
  <2> QED BY <1>1, <1>3, <1>4, <2>4, <2>5
<1>5. CASE i > k + 1
  <2>1. k + 1 \in DOMAIN sent /\ k < Len(sent)
    BY <1>1, <1>3, <1>5
  <2>2. sent[k + 1].start = lo
    BY <2>1, FrontIsNext
  <2>3. sent[k + 1].start < Extent(k + 1).to /\ Extent(k + 1).to \in Nat
    BY <2>1, Extents DEF FramingInv, Piece
  <2>4. Extent(k + 1).to <= sent[i].start
    <3>1. k + 1 \in 1..(i - 1)
      BY <1>1, <1>3, <1>5
    <3> QED BY <3>1 DEF FramingInv, StretchesMeet
  <2> QED BY <1>3, <2>2, <2>3, <2>4
<1> QED BY <1>1, <1>3, <1>4, <1>5

(* What a turn of the loop takes is the next stretch, whole.               *)
LEMMA TakesNext ==
    ASSUME FramingInv, NEW i \in DOMAIN sent, Take(i)
    PROVE  /\ i = Len(taken) + 1
           /\ taken' = Append(taken, Extent(i))
           /\ lo' = Extent(i).to /\ lo' <= hi
<1>1. sent[i].frame \in Frame /\ sent[i].start = lo /\ hi - lo \in Int
  BY Extents DEF FramingInv, TypeOK, Take, CompleteAt
<1>2. /\ PacketLength(sent[i].frame, hi - lo) = Size(sent[i].frame)
      /\ Size(sent[i].frame) <= hi - lo
  BY <1>1, CompleteIsWhole DEF FramingInv, TypeOK, Take, CompleteAt
<1>3. i = Len(taken) + 1
  BY <1>1, OnlyNextAtFront
<1>4. Size(sent[i].frame) \in Nat /\ lo \in Nat /\ hi \in Nat
  BY <1>1, SizePositive DEF FramingInv, TypeOK
<1>5. taken' = Append(taken, Extent(i)) /\ lo' = Extent(i).to
  BY <1>1, <1>2 DEF Take, Extent
<1>6. lo' <= hi
  BY <1>1, <1>2, <1>4, <1>5 DEF Extent
<1> QED BY <1>3, <1>5, <1>6

LEMMA TakePreserves ==
    ASSUME FramingInv, NEW i \in DOMAIN sent, Take(i)
    PROVE  FramingInv'
<1>1. /\ i = Len(taken) + 1 /\ taken' = Append(taken, Extent(i))
      /\ lo' = Extent(i).to /\ lo' <= hi
  BY TakesNext
<1>2. /\ sent' = sent /\ hi' = hi /\ looping' = looping /\ looping /\ decoder' = decoder
      /\ sent[i].start = lo
  BY DEF Take, CompleteAt
<1>3. i \in 1..Len(sent) /\ sent[i].frame \in Frame /\ Extent(i) \in Piece
  BY Extents DEF FramingInv
<1>4. /\ taken' \in Seq(Piece) /\ Len(taken') = i
      /\ \A j \in 1..Len(taken) : taken'[j] = taken[j]
      /\ taken'[i] = Extent(i)
  BY <1>1, <1>3, AppendProperties DEF FramingInv, TypeOK
<1>5. TypeOK'
  <2>1. lo' \in Nat
    BY <1>1, <1>3 DEF Piece
  <2>2. NewImei(sent[i].frame) \in Imei \cup {None}
    BY <1>3, FrameAssumption DEF NewImei, FramingInv, TypeOK
  <2>3. acked' \in Seq(Nat)
    BY AppendProperties DEF Take, FramingInv, TypeOK
  <2>4. produced' \in Seq([from : Nat, imei : Imei \cup {None}])
    <3> DEFINE d == [from |-> lo, imei |-> NewImei(sent[i].frame)]
               D == [from : Nat, imei : Imei \cup {None}]
    <3>1. d \in D /\ produced \in Seq(D)
      BY <2>2 DEF FramingInv, TypeOK
    <3>2. produced' = produced \/ produced' = Append(produced, d)
      BY DEF Take
    <3> HIDE DEF d, D
    <3>3. produced' \in Seq(D)
      BY <3>1, <3>2, AppendProperties
    <3> QED BY <3>3 DEF D
  <2>5. metaImei' \in Imei \cup {None}
    BY <2>2 DEF Take
  <2> QED BY <1>2, <1>4, <2>1, <2>3, <2>4, <2>5 DEF FramingInv, TypeOK
<1>6. FramesIntact'
  <2>1. DOMAIN taken' = 1..i /\ DOMAIN taken = 1..Len(taken) /\ Len(taken) \in Nat
    BY <1>4, LenProperties DEF FramingInv, TypeOK
  <2>2. \A j \in 1..i : taken'[j] = Extent(j)
    BY <1>1, <1>4, <2>1 DEF FramingInv, FramesIntact
  <2>3. Extent(i)' = Extent(i) /\ \A j \in 1..i : Extent(j)' = Extent(j)
    BY <1>2 DEF Extent
  <2> QED BY <1>2, <1>3, <1>4, <2>1, <2>2, <2>3 DEF FramesIntact
<1>7. StretchesMeet' /\ LoopDone'
  BY <1>2 DEF FramingInv, StretchesMeet, Extent, LoopDone
<1>8. BufferBegins'
  <2>1. taken' # <<>>
    BY <1>3, <1>4, EmptySeq
  <2> QED BY <1>1, <1>4, <2>1 DEF BufferBegins
<1>9. BufferInStream'
  BY <1>1, <1>2 DEF FramingInv, BufferInStream, StreamEnd, Extent
<1> QED BY <1>5, <1>6, <1>7, <1>8, <1>9 DEF FramingInv

LEMMA SendPreserves ==
    ASSUME FramingInv, NEW f \in Frame, Send(f)
    PROVE  FramingInv'
<1> DEFINE x == [frame |-> f, start |-> StreamEnd]
<1>1. PICK n \in Nat : n = Len(sent) /\ DOMAIN sent = 1..n
  BY LenProperties DEF FramingInv, TypeOK
<1>2. StreamEnd \in Nat /\ (n = 0 => StreamEnd = 0)
      /\ (n > 0 => StreamEnd = Extent(n).to)
  <2>1. CASE sent = <<>>
    BY <1>1, <2>1 DEF StreamEnd
  <2>2. CASE sent # <<>>
    <3>1. n > 0
      BY <1>1, <2>2, EmptySeq DEF FramingInv, TypeOK
    <3> QED BY <1>1, <2>2, <3>1, Extents DEF StreamEnd, FramingInv, Piece
  <2> QED BY <2>1, <2>2
<1>3. x \in [frame : Frame, start : Nat]
  BY <1>2
<1>4. /\ sent' = Append(sent, x)
      /\ UNCHANGED <<decoder, lo, hi, looping, metaImei, taken, acked, produced>>
  BY DEF Send
<1>5. /\ sent' \in Seq([frame : Frame, start : Nat]) /\ Len(sent') = n + 1
      /\ sent'[n + 1] = x /\ \A i \in 1..n : sent'[i] = sent[i]
      /\ DOMAIN sent' = 1..(n + 1)
  <2>1. sent \in Seq([frame : Frame, start : Nat])
    BY DEF FramingInv, TypeOK
  <2> HIDE DEF x
  <2> QED BY <1>1, <1>3, <1>4, <2>1, AppendProperties, LenProperties
<1>6. \A i \in 1..n : Extent(i)' = Extent(i)
  BY <1>5 DEF Extent
<1>7. TypeOK'
  BY <1>4, <1>5 DEF FramingInv, TypeOK
<1>8. FramesIntact'
  <2>1. Len(taken) <= n /\ DOMAIN taken = 1..Len(taken) /\ Len(taken) \in Nat
    BY <1>1, LenProperties DEF FramingInv, FramesIntact, TypeOK
  <2>2. \A j \in DOMAIN taken : j \in 1..n
    BY <1>1, <2>1
  <2> QED BY <1>1, <1>4, <1>5, <1>6, <2>1, <2>2 DEF FramingInv, FramesIntact
<1>9. StretchesMeet'
  <2>1. ASSUME NEW i \in 1..n
        PROVE  /\ sent'[i].start = IF i = 1 THEN 0 ELSE Extent(i - 1)'.to
               /\ \A j \in 1..(i - 1) : Extent(j)'.to <= sent'[i].start
    <3>1. \A j \in 1..(i - 1) : j \in 1..n
      BY <1>1
    <3>2. i # 1 => i - 1 \in 1..n
      BY <1>1
    <3> QED BY <1>1, <1>5, <1>6, <3>1, <3>2 DEF FramingInv, StretchesMeet
  <2>2. /\ x.start = IF n + 1 = 1 THEN 0 ELSE Extent(n)'.to
        /\ \A j \in 1..n : Extent(j)'.to <= x.start
    <3>1. CASE n = 0
      BY <1>2, <3>1
    <3>2. CASE n > 0
      <4>1. n \in DOMAIN sent
        BY <1>1, <3>2
      <4>2. x.start = Extent(n).to /\ Extent(n)' = Extent(n)
        <5>1. x.start = Extent(n).to
          BY <1>2, <3>2
        <5>2. Extent(n)' = Extent(n)
          BY <1>1, <1>5, <3>2 DEF Extent
        <5> QED BY <5>1, <5>2
      <4>3. sent[n].start < Extent(n).to /\ sent[n].start \in Nat /\ Extent(n).to \in Nat
        BY <4>1, Extents DEF FramingInv, Piece
      <4>4. ASSUME NEW j \in 1..n
            PROVE  Extent(j).to <= Extent(n).to
        <5>1. Extent(j).to \in Nat
          BY <1>1, Extents DEF FramingInv, Piece
        <5>2. j < n => Extent(j).to <= sent[n].start
          BY <1>1, <4>1 DEF FramingInv, StretchesMeet
        <5> QED BY <1>1, <4>3, <5>1, <5>2
      <4> QED BY <1>1, <1>6, <3>2, <4>2, <4>4
    <3> QED BY <1>1, <3>1, <3>2
  <2>3. ASSUME NEW i \in DOMAIN sent'
        PROVE  /\ sent'[i].start = IF i = 1 THEN 0 ELSE Extent(i - 1)'.to
               /\ \A j \in 1..(i - 1) : Extent(j)'.to <= sent'[i].start
    <3>1. CASE i \in 1..n
      BY <2>1, <3>1
    <3>2. CASE i = n + 1
      <4>1. i - 1 = n /\ sent'[i] = x /\ (i = 1 <=> n + 1 = 1)
        BY <1>1, <1>5, <3>2
      <4>2. Extent(i - 1)' = Extent(n)'
        BY <4>1
      <4> QED BY <2>2, <4>1, <4>2
    <3> QED BY <1>1, <1>5, <3>1, <3>2
  <2> QED BY <2>3 DEF StretchesMeet
<1>10. BufferBegins'
  BY <1>4 DEF FramingInv, BufferBegins
<1>11. BufferInStream'
  <2>1. StreamEnd' = StreamEnd + Size(f)
    <3>1. sent' # <<>>
      BY <1>1, <1>5, EmptySeq
    <3>2. StreamEnd' = sent'[n + 1].start + Size(sent'[n + 1].frame)
      BY <1>5, <3>1 DEF StreamEnd, Extent
    <3> QED BY <1>5, <3>2
  <2> QED BY <1>2, <1>4, <2>1, SizePositive DEF FramingInv, BufferInStream, TypeOK
<1>12. LoopDone'
  <2> SUFFICES ASSUME ~looping, NEW i \in DOMAIN sent' PROVE ~CompleteAt(i)'
    BY <1>4 DEF LoopDone
  <2>1. CASE i \in 1..n
    <3>1. CompleteAt(i)' <=> CompleteAt(i)
      BY <1>4, <1>5, <2>1 DEF CompleteAt, HasCompletePacket
    <3> QED BY <1>1, <2>1, <3>1 DEF FramingInv, LoopDone
  <2>2. CASE i = n + 1
    <3> SUFFICES ASSUME CompleteAt(i)' PROVE FALSE
      OBVIOUS
    <3>1. StreamEnd = lo /\ HasCompletePacket(f, hi - lo)
      BY <1>4, <1>5, <2>2 DEF CompleteAt, HasCompletePacket
    <3>2. Size(f) <= hi - lo
      BY <3>1, CompleteIsWhole DEF FramingInv, TypeOK
    <3> QED BY <1>2, <3>1, <3>2, SizePositive DEF FramingInv, BufferInStream, TypeOK
  <2> QED BY <1>1, <1>5, <2>1, <2>2
<1> QED BY <1>7, <1>8, <1>9, <1>10, <1>11, <1>12 DEF FramingInv

LEMMA ArrivePreserves ==
    ASSUME FramingInv, ArriveSome
    PROVE  FramingInv'
<1>1. PICK n \in (hi + 1)..StreamEnd : Arrive(n)
  BY DEF ArriveSome
<1>2. hi' \in Nat /\ hi <= hi' /\ hi' <= StreamEnd
  BY <1>1 DEF Arrive, FramingInv, TypeOK
<1>3. UNCHANGED <<decoder, sent, lo, metaImei, taken, acked, produced>> /\ looping'
  BY <1>1 DEF Arrive
<1>4. TypeOK' /\ LoopDone'
  BY <1>1, <1>2, <1>3 DEF FramingInv, TypeOK, LoopDone, Arrive
<1>5. FramesIntact' /\ StretchesMeet' /\ BufferBegins'
  BY <1>3 DEF FramingInv, FramesIntact, StretchesMeet, BufferBegins, Extent
<1>6. BufferInStream'
  BY <1>2, <1>3 DEF FramingInv, TypeOK, BufferInStream, StreamEnd, Extent
<1> QED BY <1>4, <1>5, <1>6 DEF FramingInv

LEMMA LoopEndsPreserves ==
    ASSUME FramingInv, LoopEnds
    PROVE  FramingInv'
<1>1. UNCHANGED <<decoder, sent, lo, hi, metaImei, taken, acked, produced>>
  BY DEF LoopEnds
<1>2. TypeOK'
  BY DEF LoopEnds, FramingInv, TypeOK
<1>3. FramesIntact' /\ StretchesMeet' /\ BufferBegins' /\ BufferInStream'
  BY <1>1 DEF FramingInv, FramesIntact, StretchesMeet, BufferBegins, BufferInStream,
    StreamEnd, Extent
<1>4. LoopDone'
  BY <1>1 DEF LoopEnds, LoopDone, CompleteAt, HasCompletePacket
<1> QED BY <1>2, <1>3, <1>4 DEF FramingInv

LEMMA StutterPreserves ==
    ASSUME FramingInv, UNCHANGED vars
    PROVE  FramingInv'
<1>1. TypeOK' /\ FramesIntact' /\ StretchesMeet'
  BY DEF vars, FramingInv, TypeOK, FramesIntact, StretchesMeet, Extent
<1>2. BufferBegins' /\ BufferInStream' /\ LoopDone'
  BY DEF vars, FramingInv, BufferBegins, BufferInStream, StreamEnd, Extent, LoopDone,
    CompleteAt, HasCompletePacket
<1> QED BY <1>1, <1>2 DEF FramingInv

LEMMA InitFramingInv == Init => FramingInv
<1> SUFFICES ASSUME Init PROVE FramingInv
  OBVIOUS
<1>1. TypeOK
  BY EmptySeq DEF Init, TypeOK
<1>2. FramesIntact /\ StretchesMeet /\ BufferBegins /\ BufferInStream /\ LoopDone
  BY DEF Init, FramesIntact, StretchesMeet, BufferBegins, BufferInStream, StreamEnd, LoopDone
<1> QED BY <1>1, <1>2 DEF FramingInv
-----------------------------------------------------------------------------
(* FramingInv holds in every reachable state: in particular, the pieces    *)
(* that handleData cuts off the buffer are the packets sent.               *)
THEOREM FramingCorrect == Spec => []FramingInv
<1>1. FramingInv /\ [Next]_vars => FramingInv'
  <2> SUFFICES ASSUME FramingInv, [Next]_vars PROVE FramingInv'
    OBVIOUS
  <2>1. CASE \E f \in Frame : Send(f)
    BY <2>1, SendPreserves
  <2>2. CASE ArriveSome
    BY <2>2, ArrivePreserves
  <2>3. CASE Loop
    BY <2>3, TakePreserves, LoopEndsPreserves DEF Loop
  <2>4. CASE UNCHANGED vars
    BY <2>4, StutterPreserves
  <2> QED BY <2>1, <2>2, <2>3, <2>4 DEF Next
<1> QED BY <1>1, InitFramingInv, PTL DEF Spec

(* The pieces handleData cuts off the buffer are the packets that the      *)
(* device sent, in order, for every way of cutting the stream.             *)
THEOREM FramesAlwaysIntact == Spec => []FramesIntact
<1>1. FramingInv => FramesIntact
  BY DEF FramingInv
<1> QED BY <1>1, FramingCorrect, PTL

(* When handleData returns, a packet that has completely arrived has been  *)
(* taken, unless something illegal came before it.                         *)
THEOREM NothingEverWaits == Spec => []NothingWaits
<1>1. FramingInv => NothingWaits
  <2> SUFFICES ASSUME FramingInv, ~looping, NEW i \in DOMAIN sent, i > Len(taken),
                      LegalUpTo(i), ~(Extent(i).to > hi)
               PROVE  FALSE
    BY DEF NothingWaits
  <2> DEFINE k == Len(taken) + 1
  <2>1. k \in Nat \ {0} /\ k <= i /\ i \in 1..Len(sent) /\ Len(sent) \in Nat
        /\ DOMAIN sent = 1..Len(sent)
    BY LenProperties DEF FramingInv, TypeOK
  <2>2. k \in DOMAIN sent /\ k \in 1..i /\ Len(taken) < Len(sent)
    BY <2>1, LenProperties DEF FramingInv, TypeOK
  <2>3. sent[k].start = lo
    BY <2>2, FrontIsNext
  <2>4. /\ sent[k].frame \in Frame /\ Extent(k).to \in Nat
        /\ Extent(k).to = lo + Size(sent[k].frame)
        /\ Extent(i).to \in Nat /\ sent[i].start < Extent(i).to /\ sent[i].start \in Nat
    BY <2>2, <2>3, Extents DEF FramingInv, Piece
  <2>5. Extent(k).to <= Extent(i).to
    <3>1. k < i => Extent(k).to <= sent[i].start
      <4>1. k < i => k \in 1..(i - 1)
        BY <2>1
      <4> QED BY <4>1 DEF FramingInv, StretchesMeet
    <3> QED BY <2>1, <2>4, <3>1
  <2>6. Legal(sent[k].frame)
    BY <2>2 DEF LegalUpTo
  <2>7. /\ Size(sent[k].frame) <= hi - lo /\ hi - lo \in Int
        /\ decoder \in {"GT06", "Teltonika"}
    <3>1. lo \in Nat /\ hi \in Nat /\ decoder \in {"GT06", "Teltonika"}
      BY DEF FramingInv, TypeOK
    <3>2. Size(sent[k].frame) \in Nat
      BY <2>4, SizePositive
    <3>3. lo + Size(sent[k].frame) <= hi
      BY <2>4, <2>5, <3>1
    <3> QED BY <3>1, <3>2, <3>3
  <2>8. CompleteAt(k)
    BY <2>3, <2>4, <2>6, <2>7, WholeIsComplete DEF CompleteAt
  <2> QED BY <2>2, <2>8 DEF FramingInv, LoopDone
<1> QED BY <1>1, FramingCorrect, PTL
-----------------------------------------------------------------------------
(* A piece that has been taken stands for the packet in its place.         *)
LEMMA PieceIsPacket ==
    ASSUME FramingInv, NEW j \in DOMAIN taken
    PROVE  j \in DOMAIN sent /\ PacketOf(taken[j]) = sent[j].frame
<1>1. /\ DOMAIN sent = 1..Len(sent) /\ DOMAIN taken = 1..Len(taken)
      /\ Len(sent) \in Nat /\ Len(taken) \in Nat /\ Len(taken) <= Len(sent)
  BY LenProperties DEF FramingInv, TypeOK, FramesIntact
<1>2. j \in DOMAIN sent /\ taken[j] = Extent(j)
  BY <1>1 DEF FramingInv, FramesIntact
<1>3. ASSUME NEW i \in DOMAIN sent, Extent(i) = Extent(j)
      PROVE  i = j
  <2>1. /\ sent[i].start = sent[j].start /\ sent[i].start \in Nat
        /\ sent[i].start < Extent(i).to /\ sent[j].start < Extent(j).to
    BY <1>2, <1>3, Extents DEF FramingInv
  <2>2. Extent(i).to \in Nat /\ Extent(j).to \in Nat
    BY <1>2, Extents DEF FramingInv, Piece
  <2>3. i < j => Extent(i).to <= sent[j].start
    BY <1>1, <1>2 DEF FramingInv, StretchesMeet
  <2>4. j < i => Extent(j).to <= sent[i].start
    BY <1>1, <1>2 DEF FramingInv, StretchesMeet
  <2> QED BY <1>1, <1>2, <2>1, <2>2, <2>3, <2>4
<1>4. {i \in DOMAIN sent : Extent(i) = taken[j]} = {j}
  BY <1>2, <1>3
<1> QED BY <1>2, <1>4 DEF PacketOf

(* So the packets taken are the first of those sent.                       *)
FirstPackets == [j \in DOMAIN taken |-> sent[j].frame]
LEMMA TakenAreFirst ==
    ASSUME FramingInv
    PROVE  TakenPackets = FirstPackets
BY PieceIsPacket DEF TakenPackets, FirstPackets

LEMMA SendIsVisible ==
    ASSUME FramingInv, NEW f \in Frame, Send(f),
           TakenPackets = FirstPackets, TakenPackets' = FirstPackets'
    PROVE  Stream!SendOne
<1> DEFINE x == [frame |-> f, start |-> StreamEnd]
<1>1. sent' = Append(sent, x) /\ taken' = taken
  BY DEF Send
<1>2. PICK n \in Nat : n = Len(sent) /\ DOMAIN sent = 1..n
  BY LenProperties DEF FramingInv, TypeOK
<1>3. sent' = [i \in 1..(n + 1) |-> IF i = n + 1 THEN x ELSE sent[i]]
  BY <1>1, <1>2
<1>4. SentPackets' = Append(SentPackets, f)
  <2>1. SentPackets = [i \in 1..n |-> sent[i].frame]
    BY <1>2 DEF SentPackets
  <2>2. Len(SentPackets) = n
    BY <2>1
  <2>3. SentPackets' = [i \in 1..(n + 1) |-> IF i = n + 1 THEN f ELSE sent[i].frame]
    BY <1>3 DEF SentPackets
  <2>4. Append(SentPackets, f) = [i \in 1..(n + 1) |-> IF i = n + 1 THEN f ELSE sent[i].frame]
    BY <1>2, <2>1, <2>2
  <2> QED BY <2>3, <2>4
<1>5. TakenPackets' = TakenPackets
  <2>1. DOMAIN taken \subseteq 1..n
    BY <1>2, LenProperties DEF FramingInv, TypeOK, FramesIntact
  <2>2. \A j \in DOMAIN taken : sent'[j] = sent[j]
    BY <1>2, <1>3, <2>1
  <2>3. FirstPackets' = FirstPackets
    BY <1>1, <2>2 DEF FirstPackets
  <2> QED BY <2>3
<1> QED BY <1>4, <1>5 DEF Stream!SendOne

LEMMA TakeIsVisible ==
    ASSUME FramingInv, NEW i \in DOMAIN sent, Take(i),
           TakenPackets = FirstPackets, TakenPackets' = FirstPackets'
    PROVE  Stream!TakeNext
<1>1. i = Len(taken) + 1 /\ taken' = Append(taken, Extent(i)) /\ sent' = sent
  BY TakesNext DEF Take
<1>2. PICK k \in Nat : k = Len(taken) /\ DOMAIN taken = 1..k
  BY LenProperties DEF FramingInv, TypeOK
<1>3. /\ DOMAIN sent = 1..Len(sent) /\ Len(sent) \in Nat /\ i = k + 1 /\ k < Len(sent)
  BY <1>1, <1>2, LenProperties DEF FramingInv, TypeOK
<1>4. DOMAIN taken' = 1..(k + 1)
  BY <1>1, <1>2
<1>5. /\ TakenPackets = [j \in 1..k |-> sent[j].frame]
      /\ TakenPackets' = [j \in 1..(k + 1) |-> sent[j].frame]
      /\ SentPackets = [j \in 1..Len(sent) |-> sent[j].frame]
  BY <1>1, <1>2, <1>3, <1>4 DEF FirstPackets, SentPackets
<1>6. Len(TakenPackets) = k /\ Len(SentPackets) = Len(sent)
  BY <1>3, <1>5
<1>7. TakenPackets' = Append(TakenPackets, SentPackets[Len(TakenPackets) + 1])
  <2>1. SentPackets[k + 1] = sent[k + 1].frame
    BY <1>3, <1>5
  <2> QED BY <1>5, <1>6, <2>1
<1>8. SentPackets' = SentPackets
  BY <1>1 DEF SentPackets
<1> QED BY <1>3, <1>6, <1>7, <1>8 DEF Stream!TakeNext

(* handleData, fed by TCP in any chunks, implements a stream of packets:   *)
(* every step is a packet sent, the next packet taken, or invisible.       *)
THEOREM FramingImplementsStream == Spec => ImplementsStream
<1>1. Init => Stream!Init
  BY DEF Init, Stream!Init, SentPackets, TakenPackets
<1>2. FramingInv => TakenPackets = FirstPackets
  BY TakenAreFirst
<1>3. FramingInv /\ TakenPackets = FirstPackets /\ (TakenPackets = FirstPackets)' /\ [Next]_vars
      => [Stream!SendOne \/ Stream!TakeNext]_<<SentPackets, TakenPackets>>
  <2> SUFFICES ASSUME FramingInv, TakenPackets = FirstPackets, TakenPackets' = FirstPackets',
                      [Next]_vars
      PROVE  [Stream!SendOne \/ Stream!TakeNext]_<<SentPackets, TakenPackets>>
    OBVIOUS
  <2>1. CASE \E f \in Frame : Send(f)
    BY <2>1, SendIsVisible
  <2>2. CASE \E i \in DOMAIN sent : Take(i)
    BY <2>2, TakeIsVisible
  <2>3. CASE UNCHANGED <<sent, taken>>
    BY <2>3 DEF SentPackets, FirstPackets
  <2> QED BY <2>1, <2>2, <2>3 DEF Next, ArriveSome, Arrive, Loop, LoopEnds, vars
<1> QED BY <1>1, <1>2, <1>3, FramingCorrect, PTL DEF Spec, ImplementsStream, Stream!Spec
-----------------------------------------------------------------------------
(* A number above those of an increasing sequence may be appended to it.   *)
LEMMA IncreasingAppend ==
    ASSUME NEW q \in Seq(Nat), NEW e \in Nat, Increasing(q), \A x \in ToSet(q) : x < e
    PROVE  Increasing(Append(q, e))
<1>1. PICK n \in Nat : n = Len(q) /\ DOMAIN q = 1..n
  BY LenProperties
<1>2. /\ Append(q, e)[n + 1] = e /\ DOMAIN Append(q, e) = 1..(n + 1)
      /\ \A i \in 1..n : Append(q, e)[i] = q[i]
  BY <1>1, AppendProperties
<1>3. \A i \in 1..n : q[i] < e
  BY <1>1 DEF ToSet
<1> QED BY <1>1, <1>2, <1>3 DEF Increasing

(* What a sequence holds after an append.                                  *)
LEMMA AppendElements ==
    ASSUME NEW T, NEW q \in Seq(T), NEW e \in T
    PROVE  ToSet(Append(q, e)) = ToSet(q) \cup {e}
<1>1. PICK n \in Nat : n = Len(q) /\ DOMAIN q = 1..n
  BY LenProperties
<1>2. /\ Append(q, e)[n + 1] = e /\ DOMAIN Append(q, e) = 1..(n + 1)
      /\ \A i \in 1..n : Append(q, e)[i] = q[i]
  BY <1>1, AppendProperties
<1> QED BY <1>1, <1>2 DEF ToSet

(* The IMEI that counts for the next packet, and those that counted before.*)
LEMMA NextImei ==
    ASSUME FramingInv, ImeiKept, NEW i \in DOMAIN sent, Take(i)
    PROVE  /\ i = Len(taken) + 1 /\ Len(taken') = i
           /\ Decoded' = Decoded \cup (IF sent[i].frame.decodes THEN {i} ELSE {})
           /\ Decoded \subseteq 1..Len(taken)
           /\ \A j \in 1..Len(taken) : ImeiFor(j)' = ImeiFor(j)
           /\ ImeiFor(i)' = NewImei(sent[i].frame)
<1>1. PICK k \in Nat : k = Len(taken)
  BY LenProperties DEF FramingInv, TypeOK
<1>2. i = k + 1 /\ taken' = Append(taken, Extent(i)) /\ sent' = sent /\ Len(taken') = k + 1
  BY <1>1, TakesNext DEF Take
<1>3. /\ Decoded = {j \in 1..k : sent[j].frame.decodes}
      /\ Decoded' = {j \in 1..(k + 1) : sent[j].frame.decodes}
  BY <1>1, <1>2 DEF Decoded
<1>4. Decoded' = Decoded \cup (IF sent[i].frame.decodes THEN {i} ELSE {})
  BY <1>2, <1>3
<1> DEFINE Logins(j) == {m \in Decoded : m <= j /\ sent[m].frame.imei # None}
           NewLogins(j) == {m \in Decoded' : m <= j /\ sent[m].frame.imei # None}
<1>5. ASSUME NEW j \in 1..k
      PROVE  ImeiFor(j)' = ImeiFor(j)
  <2>1. NewLogins(j) = Logins(j)
    BY <1>2, <1>3
  <2>2. ImeiFor(j) = IF Logins(j) = {} THEN None ELSE sent[Max(Logins(j))].frame.imei
    BY DEF ImeiFor
  <2>3. ImeiFor(j)' = IF NewLogins(j) = {} THEN None ELSE sent[Max(NewLogins(j))].frame.imei
    BY <1>2 DEF ImeiFor
  <2> HIDE DEF Logins, NewLogins
  <2> QED BY <2>1, <2>2, <2>3
<1>6. ImeiFor(i)' = NewImei(sent[i].frame)
  <2>1. ImeiFor(i)' = IF NewLogins(i) = {} THEN None ELSE sent[Max(NewLogins(i))].frame.imei
    BY <1>2 DEF ImeiFor
  <2>2. CASE sent[i].frame.decodes /\ sent[i].frame.imei # None
    <3>1. i \in NewLogins(i) /\ NewLogins(i) \in SUBSET (1..i) /\ i \in Nat
      BY <1>1, <1>2, <1>3, <2>2
    <3> HIDE DEF NewLogins
    <3>2. Max(NewLogins(i)) \in 1..i /\ Max(NewLogins(i)) >= i
      BY <3>1, MaxInSet
    <3>3. Max(NewLogins(i)) = i
      BY <3>1, <3>2
    <3> QED BY <2>1, <2>2, <3>1, <3>3 DEF NewImei
  <2>3. CASE ~(sent[i].frame.decodes /\ sent[i].frame.imei # None)
    <3>1. NewLogins(i) = Logins(k)
      BY <1>2, <1>3, <2>3
    <3>2. ImeiFor(k) = IF Logins(k) = {} THEN None ELSE sent[Max(Logins(k))].frame.imei
      BY DEF ImeiFor
    <3>3. metaImei = ImeiFor(k)
      BY <1>1 DEF ImeiKept
    <3> QED BY <2>1, <2>3, <3>1, <3>2, <3>3 DEF NewImei
  <2> QED BY <2>2, <2>3
<1> QED BY <1>1, <1>2, <1>3, <1>4, <1>5, <1>6

(* The packets taken before lie before it.                                 *)
LEMMA EarlierStarts ==
    ASSUME FramingInv, NEW i \in DOMAIN sent, Take(i), NEW j \in 1..Len(taken)
    PROVE  j \in DOMAIN sent /\ sent[j].start \in Nat /\ sent[j].start < lo
<1>1. /\ i = Len(taken) + 1 /\ sent[i].start = lo /\ Len(taken) \in Nat
      /\ DOMAIN sent = 1..Len(sent) /\ Len(sent) \in Nat
  BY TakesNext, LenProperties DEF FramingInv, TypeOK, Take, CompleteAt
<1>2. j \in DOMAIN sent /\ j \in 1..(i - 1)
  BY <1>1
<1>3. Extent(j).to <= sent[i].start
  BY <1>2 DEF FramingInv, StretchesMeet
<1>4. sent[j].start \in Nat /\ sent[j].start < Extent(j).to /\ Extent(j).to \in Nat
  BY <1>2, Extents DEF FramingInv, Piece
<1>5. lo \in Nat
  BY DEF FramingInv, TypeOK
<1> QED BY <1>1, <1>2, <1>3, <1>4, <1>5

LEMMA TakeKeepsChunking ==
    ASSUME FramingInv, ChunkingInv, NEW i \in DOMAIN sent, Take(i)
    PROVE  ChunkingInv'
<1> DEFINE f == sent[i].frame
           k == Len(taken)
           Given == {j \in Decoded : GivesData(sent[j].frame, ImeiFor(j))}
           Given2 == {j \in Decoded' : GivesData(sent[j].frame, ImeiFor(j)')}
           d == [from |-> lo, imei |-> NewImei(f)]
           T == [from : Nat, imei : Imei \cup {None}]
<1>1. /\ i = k + 1 /\ Len(taken') = i /\ k \in Nat
      /\ Decoded' = Decoded \cup (IF f.decodes THEN {i} ELSE {})
      /\ Decoded \subseteq 1..k
      /\ \A j \in 1..k : ImeiFor(j)' = ImeiFor(j)
      /\ ImeiFor(i)' = NewImei(f)
  BY NextImei, LenProperties DEF ChunkingInv, FramingInv, TypeOK
<1>2. /\ sent' = sent /\ decoder' = decoder /\ sent[i].start = lo
      /\ metaImei' = NewImei(f)
      /\ acked' = IF f.decodes THEN Append(acked, lo) ELSE acked
      /\ produced' = IF GivesData(f, NewImei(f)) THEN Append(produced, d) ELSE produced
  BY DEF Take, CompleteAt
<1>3. lo \in Nat /\ acked \in Seq(Nat) /\ produced \in Seq(T) /\ d \in T
  <2>1. f \in Frame
    BY Extents DEF FramingInv
  <2> QED BY <2>1, FrameAssumption DEF FramingInv, TypeOK, NewImei
<1>4. \A j \in 1..k : sent[j].start \in Nat /\ sent[j].start < lo
  BY EarlierStarts
<1>5. ImeiKept'
  BY <1>1, <1>2 DEF ImeiKept
<1>6. Increasing(acked)' /\ ToSet(acked)' = {sent[j].start : j \in Decoded}'
  <2>1. ToSet(acked) = {sent[j].start : j \in Decoded} /\ Increasing(acked)
    BY DEF ChunkingInv, ChunkingInvisible
  <2>2. CASE f.decodes
    <3>1. acked' = Append(acked, lo) /\ Decoded' = Decoded \cup {i}
      BY <1>1, <1>2, <2>2
    <3>2. \A x \in ToSet(acked) : x < lo
      BY <1>1, <1>4, <2>1
    <3>3. Increasing(acked')
      BY <1>3, <2>1, <3>1, <3>2, IncreasingAppend
    <3>4. ToSet(acked') = ToSet(acked) \cup {lo}
      <4>1. ToSet(Append(acked, lo)) = ToSet(acked) \cup {lo}
        <5>1. acked \in Seq(Nat) /\ lo \in Nat
          BY <1>3
        <5> QED BY <5>1, AppendElements
      <4> QED BY <3>1, <4>1, Zenon
    <3>5. {sent'[j].start : j \in Decoded'} = {sent[j].start : j \in Decoded} \cup {lo}
      BY <1>2, <3>1
    <3> QED BY <2>1, <3>3, <3>4, <3>5 DEF Increasing, ToSet
  <2>3. CASE ~f.decodes
    <3>1. acked' = acked /\ Decoded' = Decoded /\ sent' = sent
      BY <1>1, <1>2, <2>3
    <3>2. {sent'[j].start : j \in Decoded'} = {sent[j].start : j \in Decoded}
      BY <3>1
    <3>3. Increasing(acked)'
      BY <2>1, <3>1 DEF Increasing
    <3>4. ToSet(acked)' = ToSet(acked)
      BY <3>1 DEF ToSet
    <3> QED BY <2>1, <3>2, <3>3, <3>4
  <2> QED BY <2>2, <2>3
<1>7. /\ Increasing([j \in DOMAIN produced |-> produced[j].from])'
      /\ ToSet(produced') = {[from |-> sent[j].start, imei |-> ImeiFor(j)'] : j \in Given2}
  <2> DEFINE Starts(q) == [j \in DOMAIN q |-> q[j].from]
  <2>1. /\ ToSet(produced) = {[from |-> sent[j].start, imei |-> ImeiFor(j)] : j \in Given}
        /\ Increasing(Starts(produced))
    BY DEF ChunkingInv, ChunkingInvisible
  <2>2. CASE GivesData(f, NewImei(f))
    <3>1. produced' = Append(produced, d) /\ Decoded' = Decoded \cup {i}
      BY <1>1, <1>2, <2>2 DEF GivesData
    <3>2. Given2 = Given \cup {i}
      BY <1>1, <2>2, <3>1
    <3>3. {[from |-> sent[j].start, imei |-> ImeiFor(j)'] : j \in Given2}
            = {[from |-> sent[j].start, imei |-> ImeiFor(j)] : j \in Given} \cup {d}
      BY <1>1, <1>2, <3>2
    <3>4. ToSet(produced') = ToSet(produced) \cup {d}
      <4> HIDE DEF d, T
      <4>1. ToSet(Append(produced, d)) = ToSet(produced) \cup {d}
        <5>1. produced \in Seq(T) /\ d \in T
          BY <1>3
        <5> QED BY <5>1, AppendElements
      <4> QED BY <3>1, <4>1, Zenon
    <3>5. Starts(produced') = Append(Starts(produced), lo) /\ Starts(produced) \in Seq(Nat)
      <4>1. PICK n \in Nat : n = Len(produced) /\ DOMAIN produced = 1..n
        BY <1>3, LenProperties
      <4>2. produced' = [j \in 1..(n + 1) |-> IF j = n + 1 THEN d ELSE produced[j]]
        BY <3>1, <4>1
      <4>3. \A j \in 1..n : produced[j].from \in Nat
        <5>1. \A j \in 1..n : produced[j] \in T
          BY <1>3, <4>1, ElementOfSeq
        <5> QED BY <5>1
      <4>4. Starts(produced) = [j \in 1..n |-> produced[j].from]
        BY <4>1
      <4>5. Starts(produced) \in Seq(Nat) /\ Len(Starts(produced)) = n
        BY <4>3, <4>4
      <4>6. Starts(produced') = [j \in 1..(n + 1) |-> IF j = n + 1 THEN lo ELSE produced[j].from]
        BY <4>2
      <4>7. Append(Starts(produced), lo)
              = [j \in 1..(n + 1) |-> IF j = n + 1 THEN lo ELSE produced[j].from]
        <5>1. PICK q : q = Starts(produced)
          OBVIOUS
        <5>2. q \in Seq(Nat) /\ Len(q) = n /\ q = [j \in 1..n |-> produced[j].from]
          BY <4>4, <4>5, <5>1
        <5>3. Append(q, lo) = [j \in 1..(n + 1) |-> IF j = n + 1 THEN lo ELSE q[j]]
          BY <5>2
        <5>4. \A j \in 1..n : q[j] = produced[j].from
          BY <5>2
        <5>5. Append(q, lo)
                = [j \in 1..(n + 1) |-> IF j = n + 1 THEN lo ELSE produced[j].from]
          BY <5>3, <5>4
        <5> QED BY <5>1, <5>5
      <4> QED BY <4>5, <4>6, <4>7
    <3>6. \A x \in ToSet(Starts(produced)) : x < lo
      <4>1. ToSet(Starts(produced)) = {x.from : x \in ToSet(produced)}
        BY DEF ToSet
      <4>2. ASSUME NEW x \in ToSet(produced)
            PROVE  x.from < lo
        <5>1. PICK j \in Given : x = [from |-> sent[j].start, imei |-> ImeiFor(j)]
          BY <2>1
        <5>2. j \in 1..k /\ x.from = sent[j].start
          BY <1>1, <5>1
        <5> HIDE DEF k
        <5> QED BY <1>4, <5>2
      <4> HIDE DEF Starts
      <4> QED BY <4>1, <4>2
    <3> HIDE DEF Starts
    <3>7. Increasing(Starts(produced'))
      BY <1>3, <2>1, <3>5, <3>6, IncreasingAppend
    <3> USE DEF Starts
    <3> QED BY <2>1, <3>3, <3>4, <3>7 DEF Increasing
  <2>3. CASE ~GivesData(f, NewImei(f))
    <3>1. produced' = produced
      BY <1>2, <2>3
    <3>2. Given2 = Given
      BY <1>1, <2>3
    <3>3. {[from |-> sent[j].start, imei |-> ImeiFor(j)'] : j \in Given2}
            = {[from |-> sent[j].start, imei |-> ImeiFor(j)] : j \in Given}
      BY <1>1, <3>2
    <3> QED BY <2>1, <3>1, <3>3 DEF Increasing
  <2> QED BY <2>2, <2>3
<1>8. ChunkingInvisible'
  <2>1. \A j : GivesData(sent[j].frame, ImeiFor(j))' <=> GivesData(sent[j].frame, ImeiFor(j)')
    BY <1>2 DEF GivesData
  <2> QED BY <1>2, <1>6, <1>7, <2>1 DEF ChunkingInvisible, ToSet
<1> QED BY <1>5, <1>8 DEF ChunkingInv

(* A step that leaves the decoded packets as they are, and the rest of what*)
(* the loop keeps, leaves all of it as it is.                              *)
LEMMA LoginsUnchanged ==
    ASSUME FramingInv, Decoded' = Decoded, \A j \in Decoded : sent'[j] = sent[j], NEW j
    PROVE  ImeiFor(j)' = ImeiFor(j)
<1> DEFINE Logins == {m \in Decoded : m <= j /\ sent[m].frame.imei # None}
           NewLogins == {m \in Decoded' : m <= j /\ sent'[m].frame.imei # None}
<1>1. NewLogins = Logins
  OBVIOUS
<1>2. /\ ImeiFor(j) = IF Logins = {} THEN None ELSE sent[Max(Logins)].frame.imei
      /\ ImeiFor(j)' = IF NewLogins = {} THEN None ELSE sent'[Max(NewLogins)].frame.imei
  BY DEF ImeiFor
<1>3. Logins # {} => Max(Logins) \in Decoded
  <2> SUFFICES ASSUME Logins # {} PROVE Max(Logins) \in Decoded
    OBVIOUS
  <2>1. PICK n \in Nat : Logins \in SUBSET (1..n)
    BY LenProperties DEF FramingInv, TypeOK, Decoded
  <2> QED BY <2>1, MaxInSet
<1> HIDE DEF Logins, NewLogins
<1> QED BY <1>1, <1>2, <1>3

LEMMA ChunkingUnchanged ==
    ASSUME ChunkingInv, UNCHANGED <<decoder, metaImei, taken, acked, produced>>,
           Decoded' = Decoded, \A j \in Decoded : sent'[j] = sent[j],
           \A j : ImeiFor(j)' = ImeiFor(j)
    PROVE  ChunkingInv'
<1>1. ImeiKept'
  BY DEF ChunkingInv, ImeiKept
<1>2. {sent[j].start : j \in Decoded}' = {sent[j].start : j \in Decoded}
  OBVIOUS
<1>3. \A j \in Decoded : GivesData(sent[j].frame, ImeiFor(j))'
                          <=> GivesData(sent[j].frame, ImeiFor(j))
  BY DEF GivesData
<1> DEFINE Data == {[from |-> sent[i].start, imei |-> ImeiFor(i)] :
                       i \in {j \in Decoded : GivesData(sent[j].frame, ImeiFor(j))}}
<1>4. Data' = Data
  BY <1>3
<1>5. /\ Increasing(acked)' <=> Increasing(acked)
      /\ Increasing([j \in DOMAIN produced |-> produced[j].from])'
         <=> Increasing([j \in DOMAIN produced |-> produced[j].from])
      /\ ToSet(acked)' = ToSet(acked) /\ ToSet(produced)' = ToSet(produced)
  BY DEF Increasing, ToSet
<1> QED BY <1>1, <1>2, <1>4, <1>5 DEF ChunkingInv, ChunkingInvisible

LEMMA SendKeepsChunking ==
    ASSUME FramingInv, ChunkingInv, NEW f \in Frame, Send(f)
    PROVE  ChunkingInv'
<1>1. UNCHANGED <<decoder, metaImei, taken, acked, produced>>
  BY DEF Send
<1>2. \A j \in 1..Len(taken) : sent'[j] = sent[j]
  <2>1. /\ Len(taken) <= Len(sent) /\ Len(taken) \in Nat /\ Len(sent) \in Nat
        /\ sent \in Seq([frame : Frame, start : Nat])
    BY LenProperties DEF FramingInv, FramesIntact, TypeOK
  <2> QED BY <2>1 DEF Send
<1>3. Decoded' = Decoded /\ \A j \in Decoded : sent'[j] = sent[j]
  BY <1>1, <1>2 DEF Decoded
<1>4. \A j : ImeiFor(j)' = ImeiFor(j)
  BY <1>3, LoginsUnchanged
<1> QED BY <1>1, <1>3, <1>4, ChunkingUnchanged

LEMMA OtherKeepsChunking ==
    ASSUME FramingInv, ChunkingInv, UNCHANGED <<decoder, sent, metaImei, taken, acked, produced>>
    PROVE  ChunkingInv'
<1>1. Decoded' = Decoded /\ \A j \in Decoded : sent'[j] = sent[j]
  BY DEF Decoded
<1>2. \A j : ImeiFor(j)' = ImeiFor(j)
  BY <1>1, LoginsUnchanged
<1> QED BY <1>1, <1>2, ChunkingUnchanged

LEMMA InitChunkingInv == Init => ChunkingInv
<1> SUFFICES ASSUME Init PROVE ChunkingInv
  OBVIOUS
<1>1. Len(taken) = 0 /\ DOMAIN acked = {} /\ DOMAIN produced = {}
  BY DEF Init
<1>2. Decoded = {} /\ metaImei = None
  BY <1>1 DEF Init, Decoded
<1>3. ImeiKept
  BY <1>2 DEF ImeiKept, ImeiFor
<1>4. ChunkingInvisible
  BY <1>1, <1>2 DEF ChunkingInvisible, Increasing, ToSet
<1> QED BY <1>3, <1>4 DEF ChunkingInv

(* What handleData acknowledges and gives to the listener is determined by *)
(* the packets sent and their order, for every way of cutting the stream.  *)
THEOREM ChunkingNeverVisible == Spec => []ChunkingInvisible
<1>1. FramingInv /\ ChunkingInv /\ [Next]_vars => ChunkingInv'
  <2> SUFFICES ASSUME FramingInv, ChunkingInv, [Next]_vars PROVE ChunkingInv'
    OBVIOUS
  <2>1. CASE \E f \in Frame : Send(f)
    BY <2>1, SendKeepsChunking
  <2>2. CASE \E i \in DOMAIN sent : Take(i)
    BY <2>2, TakeKeepsChunking
  <2>3. CASE ArriveSome \/ LoopEnds \/ UNCHANGED vars
    <3>1. UNCHANGED <<decoder, sent, metaImei, taken, acked, produced>>
      BY <2>3 DEF ArriveSome, Arrive, LoopEnds, vars
    <3> QED BY <3>1, OtherKeepsChunking
  <2> QED BY <2>1, <2>2, <2>3 DEF Next, Loop
<1>2. ChunkingInv => ChunkingInvisible
  BY DEF ChunkingInv
<1> QED BY <1>1, <1>2, InitChunkingInv, FramingCorrect, PTL DEF Spec
=============================================================================
