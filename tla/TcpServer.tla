------------------------------ MODULE TcpServer ------------------------------
(***************************************************************************)
(* TcpServerService: the sockets and their handlers.  'data' parses every  *)
(* complete packet and answers it at once, then starts the processData of  *)
(* the port's protocol; 'close' forgets the connection and starts an       *)
(* update of the device's status that nobody awaits.                       *)
(***************************************************************************)
EXTENDS DeviceSession

CloseTask(s) == <<"close", s>>

(* handleConnection: the socket enters the map, with an unauthorised meta. *)
Connect(s) ==
    /\ sock[s] = "none"
    /\ EarlyConnections \/ Running
    /\ sock' = [sock EXCEPT ![s] = "open"]
    /\ connections' = MapSet(connections, s)
    /\ UNCHANGED <<metaImei, isAuthorized, cache, redisQ, db, session, closes, syncs,
                   request, history, counts>>

(* socket.meta.imei after the first i packets of a chunk: every login      *)
(* stores the IMEI it claims, before anybody has validated it.             *)
LoginsUpTo(chunk, i) == {j \in 1..i : chunk[j].type = "LOGIN"}
ImeiAt(s, chunk, i) ==
    IF LoginsUpTo(chunk, i) = {} THEN metaImei[s] ELSE chunk[Max(LoginsUpTo(chunk, i))].imei

(* result.deviceData of handleData, for event t.  transformToDeviceData    *)
(* returns null for a heartbeat without an IMEI; no socket is authorised   *)
(* then, so Rest drops the entry just the same.                            *)
Parsed(t, s, chunk) ==
    [i \in DOMAIN chunk |->
        [type |-> chunk[i].type, imei |-> ImeiAt(s, chunk, i),
         fix |-> IF chunk[i].type = "LOCATION" THEN <<t, i>> ELSE None]]

(* The locations acknowledged to a device that has said who it is.         *)
Acknowledged(t, s, chunk) ==
    {<<<<t, i>>, ImeiAt(s, chunk, i)>> :
        i \in {j \in DOMAIN chunk : /\ chunk[j].type = "LOCATION"
                                    /\ ImeiAt(s, chunk, j) # None}}
Claims(chunk) == {chunk[i].imei : i \in LoginsUpTo(chunk, Len(chunk))}

(* The 'data' handler: connections.set, handleData with its ACKs, then the *)
(* synchronous prefix of processData.  Teltonika's processData only logs.  *)
DataEvent(s) ==
    /\ nData < MaxData
    /\ sock[s] = "open"
    /\ \E chunk \in Chunk[s] :
         LET t == nData + 1
             imei == ImeiAt(s, chunk, Len(chunk))
             todo == IF ProtocolOf[s] = "GT06"
                     THEN Rest(Parsed(t, s, chunk), isAuthorized[s])
                     ELSE <<>>
         IN /\ metaImei' = [metaImei EXCEPT ![s] = imei]
            /\ claimed' = [claimed EXCEPT ![s] = @ \cup Claims(chunk)]
            /\ acked' = acked \cup Acknowledged(t, s, chunk)
            /\ on' = [on EXCEPT ![t] = s]
            /\ StartItem(t, todo, imei)
            /\ Issue(CommandsFor(t, todo))
    /\ connections' = MapSet(connections, s)
    /\ nData' = nData + 1
    /\ UNCHANGED <<sock, isAuthorized, cache, db, cmds, read, closes, syncs, request,
                   everRegistered, attempted, posted, overlapped, nTick, nCrash, nChange>>

(* The socket is torn down: the peer's FIN or RST, or the 'timeout'        *)
(* handler's destroy().  A peer that vanishes without a word is an open    *)
(* socket without events until its timeout.                                *)
SocketEnds(s) ==
    /\ sock[s] = "open"
    /\ sock' = [sock EXCEPT ![s] = "destroyed"]
    /\ UNCHANGED <<metaImei, isAuthorized, connections, cache, redisQ, db, session,
                   closes, syncs, request, history, counts>>

(* The 'close' handler: handleDisconnection deletes the map entry of this  *)
(* id and starts updateDeviceLiveStatus(meta.imei, 'DISCONNECTED'), with   *)
(* the IMEI the socket has at that moment.                                 *)
CloseEvent(s) ==
    /\ sock[s] = "destroyed"
    /\ sock' = [sock EXCEPT ![s] = "closed"]
    /\ connections' = MapDelete(connections, s)
    /\ closing' = [closing EXCEPT ![s] = "hget"]
    /\ closeKey' = [closeKey EXCEPT ![s] = metaImei[s]]
    /\ Issue(<<CloseTask(s)>>)
    /\ UNCHANGED <<metaImei, isAuthorized, cache, db, session, closeRead, syncs, request,
                   history, counts>>

(* updateDeviceLiveStatus on behalf of the close: its read ...             *)
CloseReadReturns(s) ==   \* mutant: the update stops after its HGET
    /\ closing[s] = "hget"
    /\ Reply(CloseTask(s), <<>>)
    /\ closing' = [closing EXCEPT ![s] = "hset"]
    /\ UNCHANGED <<tcp, cache, db, session, closeKey, closeRead, syncs, request, history,
                   counts>>

CloseRead(s) ==
    /\ closing[s] = "hget"
    /\ Reply(CloseTask(s), <<CloseTask(s)>>)
    /\ closing' = [closing EXCEPT ![s] = "hset"]
    /\ closeRead' = [closeRead EXCEPT ![s] = statusHash[closeKey[s]]]
    /\ UNCHANGED <<tcp, cache, db, session, closeKey, syncs, request, history, counts>>

(* ... and its write.                                                      *)
CloseWrite(s) ==
    /\ closing[s] = "hset"
    /\ Reply(CloseTask(s), <<>>)
    /\ statusHash' = [statusHash EXCEPT ![closeKey[s]] =
                         Merged(closeRead[s], "DISCONNECTED", None)]
    /\ closing' = [closing EXCEPT ![s] = "done"]
    /\ closeRead' = [closeRead EXCEPT ![s] = None]
    /\ UNCHANGED <<tcp, imeiSet, cmdList, db, session, closeKey, syncs, request, history,
                   counts>>
=============================================================================
