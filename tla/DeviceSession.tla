---------------------------- MODULE DeviceSession ----------------------------
(***************************************************************************)
(* Gt06Service.processData, one task per 'data' event, with the methods of *)
(* CommonService it calls inlined.  Task t works through rest[t], the      *)
(* device data its event produced; key[t] is the IMEI whose status it      *)
(* updates, cmds[t] are the queued commands it has still to send, and      *)
(* read[t] is the status entry between HGET and HSET.                      *)
(***************************************************************************)
EXTENDS ListenerState

DataTask(t) == <<"data", t>>
Item(t) == Head(rest[t])

(* The device data still worth an await: without authorisation nothing     *)
(* happens before the next login.  Alarms, status and unknown packets have *)
(* no branch in processData and are left out.                              *)
RestOfStranger(items, authorized) ==   \* mutant: isAuthorized as it was at the connect
    LET logins == {i \in DOMAIN items : items[i].type = "LOGIN"}
    IN IF logins = {} THEN <<>> ELSE SubSeq(items, Min(logins), Len(items))
Rest(items, authorized) ==
    LET logins == {i \in DOMAIN items : items[i].type = "LOGIN"}
    IN IF authorized THEN items
       ELSE IF logins = {} THEN <<>>
       ELSE SubSeq(items, Min(logins), Len(items))

PcFor(items) ==
    IF items = <<>> THEN "done"
    ELSE IF Head(items).type = "LOGIN" THEN "sismember" ELSE "hget"

(* A login and a location pass deviceData.imei on, a heartbeat the IMEI    *)
(* that socket.meta has when its turn comes.                               *)
KeyFor(items, imei) ==
    IF items = <<>> THEN None
    ELSE IF Head(items).type = "HEARTBEAT" THEN imei ELSE Head(items).imei

StartItem(t, items, imei) ==
    /\ rest' = [rest EXCEPT ![t] = items]
    /\ pc' = [pc EXCEPT ![t] = PcFor(items)]
    /\ key' = [key EXCEPT ![t] = KeyFor(items, imei)]

CommandsFor(t, items) == IF items = <<>> THEN <<>> ELSE <<DataTask(t)>>

(* The loop moves on from its current item.                                *)
RemainingPosted(t) ==   \* mutant: a location stays in the batch
    Rest(IF Item(t).type = "LOCATION" THEN rest[t] ELSE Tail(rest[t]), isAuthorized[on[t]])
Remaining(t) == Rest(Tail(rest[t]), isAuthorized[on[t]])
MoveOn(t) == StartItem(t, Remaining(t), metaImei[on[t]])

(* processData ends: by a return, or its catch.                            *)
Finish(t) == StartItem(t, <<>>, None)

(* sendCommand for the first of the commands cs: socket.write, or nothing  *)
(* if encodeCommand returned null, and then removeDeviceCommand begins.    *)
LookupFor(t, cs) == IF Head(cs) \in Oversized THEN <<DataTask(t)>> ELSE <<>>

StartSendIfOpen(t, cs) ==   \* mutant: no write on a destroyed socket
    /\ cmds' = [cmds EXCEPT ![t] = cs]
    /\ pc' = [pc EXCEPT ![t] = IF Head(cs) \in Oversized THEN "find" ELSE "write"]
    /\ attempted' = attempted \cup (IF sock[on[t]] = "open" THEN {Head(cs)} \ Oversized
                                    ELSE {})

StartSend(t, cs) ==
    /\ cmds' = [cmds EXCEPT ![t] = cs]
    /\ pc' = [pc EXCEPT ![t] = IF Head(cs) \in Oversized THEN "find" ELSE "write"]
    /\ attempted' = attempted \cup ({Head(cs)} \ Oversized)
-----------------------------------------------------------------------------
(* validateImei answered: a known device is authorised and its status      *)
(* update begins, an unknown one is disconnected and the batch dropped.    *)
AcceptsAny(t) == TRUE   \* mutant: the answer of validateImei is ignored
Accepts(t) == Item(t).imei \in imeiSet

Authorize(t) ==
    /\ pc[t] = "sismember"
    /\ Accepts(t)
    /\ Reply(DataTask(t), <<DataTask(t)>>)
    /\ metaImei' = [metaImei EXCEPT ![on[t]] = Item(t).imei]
    /\ isAuthorized' = [isAuthorized EXCEPT ![on[t]] = TRUE]
    /\ pc' = [pc EXCEPT ![t] = "hget"]
    /\ UNCHANGED <<sock, connections, cache, db, on, rest, key, cmds, read, closes, syncs,
                   request, history, counts>>

Reject(t) ==
    /\ pc[t] = "sismember"
    /\ ~Accepts(t)
    /\ Reply(DataTask(t), <<>>)
    /\ sock' = [sock EXCEPT ![on[t]] = IF sock[on[t]] = "open" THEN "destroyed" ELSE @]
    /\ Finish(t)
    /\ UNCHANGED <<metaImei, isAuthorized, connections, cache, db, on, cmds, read, closes,
                   syncs, request, history, counts>>

(* The IMEI under which the status is written back.                        *)
KeyAgain(t) ==   \* mutant: socket.meta.imei once more, after the await
    IF Item(t).type = "HEARTBEAT" THEN metaImei[on[t]] ELSE key[t]
UpdatedImei(t) == key[t]

(* updateDeviceLiveStatus: the HGET ...                                    *)
StatusRead(t) ==
    /\ pc[t] = "hget"
    /\ Reply(DataTask(t), <<DataTask(t)>>)
    /\ read' = [read EXCEPT ![t] = statusHash[key[t]]]
    /\ pc' = [pc EXCEPT ![t] = "hset"]
    /\ UNCHANGED <<tcp, cache, db, on, rest, key, cmds, closes, syncs, request, history,
                   counts>>

(* ... and the HSET.  A login goes on to its commands, a location is       *)
(* forwarded (forwardData only starts the POST), a heartbeat is over.      *)
StatusWritten(t) ==
    /\ statusHash' = [statusHash EXCEPT ![UpdatedImei(t)] =
                         Merged(read[t], "CONNECTED", Item(t).fix)]
    /\ read' = [read EXCEPT ![t] = None]
    /\ UNCHANGED <<tcp, imeiSet, cmdList, db, on, cmds, closes, syncs, request,
                   everRegistered, claimed, attempted, acked, overlapped, counts>>

LoginStatusWrite(t) ==
    /\ pc[t] = "hset" /\ Item(t).type = "LOGIN"
    /\ Reply(DataTask(t), <<DataTask(t)>>)
    /\ pc' = [pc EXCEPT ![t] = "lrange"]
    /\ StatusWritten(t)
    /\ UNCHANGED <<rest, key, posted>>

DataStatusWrite(t) ==
    /\ pc[t] = "hset" /\ Item(t).type # "LOGIN"
    /\ Reply(DataTask(t), CommandsFor(t, Remaining(t)))
    /\ MoveOn(t)
    /\ posted' = IF Item(t).type = "LOCATION"
                 THEN posted \cup {<<Item(t).fix, Item(t).imei>>} ELSE posted
    /\ StatusWritten(t)
-----------------------------------------------------------------------------
(* getDeviceCommands answered: the loop over the commands begins.          *)
GetCommands(t) ==
    /\ pc[t] = "lrange"
    /\ LET queued == cmdList[Item(t).imei]
       IN \/ /\ queued = <<>>
             /\ Reply(DataTask(t), CommandsFor(t, Remaining(t)))
             /\ MoveOn(t)
             /\ UNCHANGED <<cmds, attempted>>
          \/ /\ queued # <<>>
             /\ Reply(DataTask(t), LookupFor(t, queued))
             /\ StartSend(t, queued)
             /\ UNCHANGED <<rest, key>>
    /\ UNCHANGED <<tcp, cache, db, on, read, closes, syncs, request, everRegistered,
                   claimed, acked, posted, overlapped, counts>>

(* The write callback fires, with or without an error: sendCommand         *)
(* resolves and removeDeviceCommand looks the command up in the list.      *)
WriteCallbackOnSuccess(t) ==   \* mutant: an error does not resolve the promise
    /\ pc[t] = "write" /\ sock[on[t]] = "open"
    /\ pc' = [pc EXCEPT ![t] = "find"]
    /\ Issue(<<DataTask(t)>>)
    /\ UNCHANGED <<tcp, cache, db, on, rest, key, cmds, read, closes, syncs, request,
                   history, counts>>

WriteCallback(t) ==
    /\ pc[t] = "write"
    /\ pc' = [pc EXCEPT ![t] = "find"]
    /\ Issue(<<DataTask(t)>>)
    /\ UNCHANGED <<tcp, cache, db, on, rest, key, cmds, read, closes, syncs, request,
                   history, counts>>

FindCommand(t) ==
    /\ pc[t] = "find"
    /\ IF Contains(cmdList[Item(t).imei], Head(cmds[t]))
       THEN Reply(DataTask(t), <<DataTask(t)>>) /\ pc' = [pc EXCEPT ![t] = "lrem"]
       ELSE Reply(DataTask(t), <<>>) /\ pc' = [pc EXCEPT ![t] = "delete"]
    /\ UNCHANGED <<tcp, cache, db, on, rest, key, cmds, read, closes, syncs, request,
                   history, counts>>

RemoveFromList(t) ==
    /\ pc[t] = "lrem"
    /\ Reply(DataTask(t), <<>>)
    /\ cmdList' = [cmdList EXCEPT ![Item(t).imei] = RemoveFirst(@, Head(cmds[t]))]
    /\ pc' = [pc EXCEPT ![t] = "delete"]
    /\ UNCHANGED <<tcp, imeiSet, statusHash, db, on, rest, key, cmds, read, closes, syncs,
                   request, history, counts>>

(* commandQueue.delete: the next command is sent, or the loop moves on.    *)
DeleteRow(t) ==
    /\ pc[t] = "delete"
    /\ Head(cmds[t]) \in commandQueue
    /\ commandQueue' = commandQueue \ {Head(cmds[t])}
    /\ \/ /\ Tail(cmds[t]) # <<>>
          /\ StartSend(t, Tail(cmds[t]))
          /\ Issue(LookupFor(t, Tail(cmds[t])))
          /\ UNCHANGED <<rest, key>>
       \/ /\ Tail(cmds[t]) = <<>>
          /\ cmds' = [cmds EXCEPT ![t] = <<>>]
          /\ MoveOn(t)
          /\ Issue(CommandsFor(t, Remaining(t)))
          /\ UNCHANGED attempted
    /\ UNCHANGED <<tcp, cache, devices, deviceStatus, on, read, closes, syncs, request,
                   everRegistered, claimed, acked, posted, overlapped, counts>>

(* The row is gone: delete rejects, and processData's catch ends the task. *)
DeleteMissing(t) ==
    /\ pc[t] = "delete"
    /\ Head(cmds[t]) \notin commandQueue
    /\ cmds' = [cmds EXCEPT ![t] = <<>>]
    /\ Finish(t)
    /\ UNCHANGED <<tcp, cache, redisQ, db, on, read, closes, syncs, request, history,
                   counts>>
=============================================================================
