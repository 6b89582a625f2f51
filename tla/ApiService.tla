------------------------------ MODULE ApiService ------------------------------
(***************************************************************************)
(* ApiService.SendCommand: a command goes straight to the first connection *)
(* of the device, or into table CommandQueue if it has none.  Command c is *)
(* the row id it gets, so requests are numbered in the order of their rows.*)
(***************************************************************************)
EXTENDS ListenerState

(* sendCommandbyIMEI: the write is started and its outcome ignored.        *)
(* Nothing is written to a destroyed socket, which has no localPort any    *)
(* more, nor for a command that GT06 cannot encode.                        *)
Written(c, s) == sock[s] = "open" /\ (ProtocolOf[s] = "GT06" => c \notin Oversized)

SendNow(c) ==
    /\ Running
    /\ request[c] = "none"
    /\ \E s \in Socket :
         /\ IsConnectionOf(TargetOf[c], s)
         /\ attempted' = attempted \cup (IF Written(c, s) THEN {c} ELSE {})
    /\ request' = [request EXCEPT ![c] = "sent"]
    /\ UNCHANGED <<tcp, cache, redisQ, db, session, closes, syncs, everRegistered, claimed,
                   acked, posted, overlapped, counts>>

(* No connection: the insertion begins ...                                 *)
StartQueueing(c) ==
    /\ Running
    /\ request[c] = "none"
    /\ \A d \in Command : d < c => request[d] \notin {"none", "creating"}
    /\ \A s \in Socket : ~IsConnectionOf(TargetOf[c], s)
    /\ request' = [request EXCEPT ![c] = "creating"]
    /\ UNCHANGED <<tcp, cache, redisQ, db, session, closes, syncs, history, counts>>

(* ... and commits; the caller is told that the command is queued.         *)
CreateRow(c) ==
    /\ request[c] = "creating"
    /\ commandQueue' = commandQueue \cup {c}
    /\ request' = [request EXCEPT ![c] = "queued"]
    /\ UNCHANGED <<tcp, cache, redisQ, devices, deviceStatus, session, closes, syncs,
                   history, counts>>
=============================================================================
