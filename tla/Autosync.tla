------------------------------- MODULE Autosync -------------------------------
(***************************************************************************)
(* AutosyncService.  Run 0 is syncInitialData: IMEIs, then statuses from   *)
(* PostgreSQL, then commands, each awaited.  Run k > 0 is the k-th firing  *)
(* of the 5-minute interval, which starts three syncs and awaits none: the *)
(* statuses then flow the other way, from Redis to PostgreSQL.  Nothing    *)
(* keeps an interval from starting while the syncs of an earlier one run.  *)
(***************************************************************************)
EXTENDS ListenerState

ImeiTask(k) == <<"imeis", k>>
StatusTask(k) == <<"status", k>>
CommandTask(k) == <<"commands", k>>

(* The runs whose IMEI or command sync is under way.                       *)
Syncing == {k \in Run : ~({imeiPc[k], cmdPc[k]} \subseteq {"idle", "done"})}

(* handleFiveMinuteSync.                                                   *)
Tick ==
    /\ Running
    /\ nTick < MaxTicks
    /\ nTick' = nTick + 1
    /\ imeiPc' = [imeiPc EXCEPT ![nTick + 1] = "findMany"]
    /\ cmdPc' = [cmdPc EXCEPT ![nTick + 1] = "findMany"]
    /\ statusPc' = [statusPc EXCEPT ![nTick + 1] = "hgetall"]
    /\ overlapped' = overlapped \cup (IF Syncing = {} THEN {} ELSE Syncing \cup {nTick + 1})
    /\ Issue(<<StatusTask(nTick + 1)>>)
    /\ UNCHANGED <<tcp, cache, db, session, closes, snapImeis, snapStatus, snapRows,
                   request, everRegistered, claimed, attempted, acked, posted,
                   nData, nCrash, nChange>>
-----------------------------------------------------------------------------
(* SyncIMEIS: the rows as PostgreSQL sees them and their arrival here,     *)
(* DEL, and SADD unless there was none.  (The SCARD that follows only      *)
(* feeds a log line.)                                                      *)
ImeisRead(k) ==
    /\ imeiPc[k] = "findMany"
    /\ snapImeis' = [snapImeis EXCEPT ![k] = devices]
    /\ imeiPc' = [imeiPc EXCEPT ![k] = "rows"]
    /\ UNCHANGED <<tcp, cache, redisQ, db, session, closes, statusPc, snapStatus, cmdPc,
                   snapRows, request, history, counts>>

ImeisAnswered(k) ==
    /\ imeiPc[k] = "rows"
    /\ imeiPc' = [imeiPc EXCEPT ![k] = "del"]
    /\ Issue(<<ImeiTask(k)>>)
    /\ UNCHANGED <<tcp, cache, db, session, closes, snapImeis, statusPc, snapStatus, cmdPc,
                   snapRows, request, history, counts>>

ImeisDelNothing(k) ==   \* mutant: SADD on top of the old set
    /\ imeiPc[k] = "del"
    /\ Reply(ImeiTask(k), <<ImeiTask(k)>>) /\ imeiPc' = [imeiPc EXCEPT ![k] = "sadd"]
    /\ UNCHANGED <<tcp, cache, db, session, closes, snapImeis, statusPc, snapStatus, cmdPc,
                   snapRows, request, history, counts>>

ImeisDel(k) ==
    /\ imeiPc[k] = "del"
    /\ imeiSet' = {}
    /\ IF snapImeis[k] = {}
       THEN Reply(ImeiTask(k), <<>>) /\ imeiPc' = [imeiPc EXCEPT ![k] = "done"]
       ELSE Reply(ImeiTask(k), <<ImeiTask(k)>>) /\ imeiPc' = [imeiPc EXCEPT ![k] = "sadd"]
    /\ UNCHANGED <<tcp, statusHash, cmdList, db, session, closes, snapImeis, statusPc,
                   snapStatus, cmdPc, snapRows, request, history, counts>>

ImeisAdd(k) ==
    /\ imeiPc[k] = "sadd"
    /\ Reply(ImeiTask(k), <<>>)
    /\ imeiSet' = imeiSet \cup snapImeis[k]
    /\ snapImeis' = [snapImeis EXCEPT ![k] = {}]
    /\ imeiPc' = [imeiPc EXCEPT ![k] = "done"]
    /\ UNCHANGED <<tcp, statusHash, cmdList, db, session, closes, statusPc, snapStatus,
                   cmdPc, snapRows, request, history, counts>>
-----------------------------------------------------------------------------
NoStatus == [d \in Imei |-> None]

(* syncDeviceStatusToRedis, of the boot only: rows, DEL, HSET.  A row with *)
(* an empty IMEI is skipped.  (Nobody writes the table before the startup  *)
(* sync is over, so that its rows arrive as they are read.)                *)
BootStatusRead ==
    /\ statusPc[0] = "findMany" /\ imeiPc[0] = "done"
    /\ snapStatus' = [snapStatus EXCEPT ![0] = [deviceStatus EXCEPT ![None] = None]]
    /\ statusPc' = [statusPc EXCEPT ![0] = "del"]
    /\ Issue(<<StatusTask(0)>>)
    /\ UNCHANGED <<tcp, cache, db, session, closes, imeiPc, snapImeis, cmdPc, snapRows,
                   request, history, counts>>

BootStatusDel ==
    /\ statusPc[0] = "del"
    /\ statusHash' = NoStatus
    /\ IF snapStatus[0] = NoStatus
       THEN Reply(StatusTask(0), <<>>) /\ statusPc' = [statusPc EXCEPT ![0] = "done"]
       ELSE Reply(StatusTask(0), <<StatusTask(0)>>)
            /\ statusPc' = [statusPc EXCEPT ![0] = "hset"]
    /\ UNCHANGED <<tcp, imeiSet, cmdList, db, session, closes, imeiPc, snapImeis,
                   snapStatus, cmdPc, snapRows, request, history, counts>>

BootStatusSet ==
    /\ statusPc[0] = "hset"
    /\ Reply(StatusTask(0), <<>>)
    /\ statusHash' = [d \in Imei |-> IF snapStatus[0][d] = None THEN statusHash[d]
                                     ELSE snapStatus[0][d]]
    /\ snapStatus' = [snapStatus EXCEPT ![0] = NoStatus]
    /\ statusPc' = [statusPc EXCEPT ![0] = "done"]
    /\ UNCHANGED <<tcp, imeiSet, cmdList, db, session, closes, imeiPc, snapImeis, cmdPc,
                   snapRows, request, history, counts>>
-----------------------------------------------------------------------------
(* syncDeviceStatusToPrisma, of the ticks only: HGETALL, then one upsert   *)
(* per entry, in the order in which Redis listed the hash (any order).     *)
StatusSnapshot(k) ==
    /\ statusPc[k] = "hgetall"
    /\ Reply(StatusTask(k), <<>>)
    /\ snapStatus' = [snapStatus EXCEPT ![k] = statusHash]
    /\ statusPc' = [statusPc EXCEPT ![k] = IF statusHash = NoStatus THEN "done"
                                           ELSE "upsert"]
    /\ UNCHANGED <<tcp, cache, db, session, closes, imeiPc, snapImeis, cmdPc, snapRows,
                   request, history, counts>>

StatusUpsert(k) ==
    /\ statusPc[k] = "upsert"
    /\ \E d \in Imei :
         LET left == [snapStatus[k] EXCEPT ![d] = None]
         IN /\ snapStatus[k][d] # None
            /\ deviceStatus' = [deviceStatus EXCEPT ![d] = snapStatus[k][d]]
            /\ snapStatus' = [snapStatus EXCEPT ![k] = left]
            /\ statusPc' = [statusPc EXCEPT ![k] = IF left = NoStatus THEN "done" ELSE @]
    /\ UNCHANGED <<tcp, cache, redisQ, devices, commandQueue, session, closes, imeiPc,
                   snapImeis, cmdPc, snapRows, request, history, counts>>
-----------------------------------------------------------------------------
(* syncCommandQueueToRedis: the rows as PostgreSQL sees them, and their    *)
(* arrival here.  Without rows it returns.                                 *)
RowsRead(k) ==
    /\ cmdPc[k] = "findMany"
    /\ k = 0 => statusPc[0] = "done"
    /\ snapRows' = [snapRows EXCEPT ![k] = commandQueue]
    /\ cmdPc' = [cmdPc EXCEPT ![k] = "rows"]
    /\ UNCHANGED <<tcp, cache, redisQ, db, session, closes, imeiPc, snapImeis, statusPc,
                   snapStatus, request, history, counts>>

RowsAnswered(k) ==
    /\ cmdPc[k] = "rows"
    /\ IF snapRows[k] = {}
       THEN UNCHANGED redisQ /\ cmdPc' = [cmdPc EXCEPT ![k] = "done"]
       ELSE Issue(<<CommandTask(k)>>) /\ cmdPc' = [cmdPc EXCEPT ![k] = "exec"]
    /\ UNCHANGED <<tcp, cache, db, session, closes, imeiPc, snapImeis, statusPc, snapStatus,
                   snapRows, request, history, counts>>

(* Rows by createdAt: q lists rows of one device oldest first.             *)
RowsOf(rows, d) == {c \in rows : TargetOf[c] = d}
Ascending(q) == \A i, j \in DOMAIN q : i < j => q[i] < q[j]
ListsUnordered(q, rows) ==   \* mutant: no orderBy
    ToSet(q) = rows /\ Len(q) = Cardinality(rows)
Lists(q, rows) == ToSet(q) = rows /\ Ascending(q)

(* What the pipeline leaves of the list of d, after the DELs of the        *)
(* devices deleted and the RPUSHes of the rows that q lists.               *)
RefilledOnce(deleted, d, q) ==   \* mutant: no RPUSH for a list that existed before the DEL
    IF d \notin deleted THEN cmdList[d] ELSE IF cmdList[d] = <<>> THEN q ELSE <<>>
Refilled(deleted, d, q) == IF d \in deleted THEN q ELSE cmdList[d]

DevicesOf(rows) == {TargetOf[c] : c \in rows}
PipelineEffect(deleted, pushed) ==
    \E lists \in [Device -> SeqOf(pushed, Cardinality(pushed))] :
        /\ \A d \in Device : Lists(lists[d], RowsOf(pushed, d))
        /\ cmdList' = [d \in Device |-> Refilled(deleted, d, lists[d])]

(* One pipeline deletes and refills the list of every device with a row.   *)
(* It is no MULTI, but the only connection writes its commands in one go.  *)
PipelineExec(k) ==
    /\ cmdPc[k] = "exec"
    /\ Reply(CommandTask(k), <<>>)
    /\ PipelineEffect(DevicesOf(snapRows[k]), snapRows[k])
    /\ snapRows' = [snapRows EXCEPT ![k] = {}]
    /\ cmdPc' = [cmdPc EXCEPT ![k] = "done"]
    /\ UNCHANGED <<tcp, imeiSet, statusHash, db, session, closes, imeiPc, snapImeis,
                   statusPc, snapStatus, request, history, counts>>

(* When the connection breaks, the pipeline that Redis is serving has been *)
(* executed up to some command: a DEL for each device in the order of its  *)
(* first row, and then an RPUSH for each row.                              *)
UpTo(rows, c) == {r \in rows : r <= c}
PipelineCut(rows) ==
    \E c \in rows : \/ PipelineEffect(DevicesOf(UpTo(rows, c)), {})
                    \/ PipelineEffect(DevicesOf(rows), UpTo(rows, c))
ConnectionBreaks ==
    \/ UNCHANGED cmdList
    \/ \E k \in Run : /\ redisQ # <<>> /\ Head(redisQ) = CommandTask(k)
                      /\ PipelineCut(snapRows[k])
=============================================================================
