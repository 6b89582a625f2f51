----------------------------- MODULE PacketStream -----------------------------
(***************************************************************************)
(* What a device may expect of the stream it writes to: its packets are    *)
(* taken whole, one at a time and in the order sent, none skipped and none *)
(* taken twice, however TCP cuts the bytes into chunks.                    *)
(***************************************************************************)
EXTENDS Sequences, Naturals

CONSTANT Packet
VARIABLES out,  \* the packets sent so far
          got   \* the packets taken so far

Init == out = <<>> /\ got = <<>>

SendOne == \E p \in Packet : out' = Append(out, p) /\ UNCHANGED got

TakeNext == /\ Len(got) < Len(out)
            /\ got' = Append(got, out[Len(got) + 1])
            /\ UNCHANGED out

Spec == Init /\ [][SendOne \/ TakeNext]_<<out, got>>
=============================================================================
