------------------------------- MODULE Listener -------------------------------
(***************************************************************************)
(* The listener process with its devices, its cache and its database: the  *)
(* composition of TcpServer, DeviceSession, Autosync and ApiService, plus  *)
(* what the code does not control: crashes of the process, outages of its  *)
(* services, and the other programs that edit table Device.                *)
(***************************************************************************)
EXTENDS TcpServer, Autosync, ApiService

LeftByEarlierRun == [status |-> "DISCONNECTED", fix |-> None]

Init ==
    /\ sock = [s \in Socket |-> "none"]
    /\ metaImei = [s \in Socket |-> None]
    /\ isAuthorized = [s \in Socket |-> FALSE]
    /\ connections = <<>>
    /\ imeiSet = {}
    /\ statusHash = NoStatus
    /\ cmdList = [d \in Device |-> <<>>]
    /\ redisQ = <<>>
    /\ devices = InitialDevices
    /\ deviceStatus = [d \in Imei |-> IF d \in InitialStatus THEN LeftByEarlierRun ELSE None]
    /\ commandQueue = InitialRows
    /\ pc = [t \in Event |-> "idle"]
    /\ on = [t \in Event |-> None]
    /\ rest = [t \in Event |-> <<>>]
    /\ key = [t \in Event |-> None]
    /\ cmds = [t \in Event |-> <<>>]
    /\ read = [t \in Event |-> None]
    /\ closing = [s \in Socket |-> "no"]
    /\ closeKey = [s \in Socket |-> None]
    /\ closeRead = [s \in Socket |-> None]
    /\ imeiPc = [k \in Run |-> IF k = 0 THEN "findMany" ELSE "idle"]
    /\ statusPc = [k \in Run |-> IF k = 0 THEN "findMany" ELSE "idle"]
    /\ cmdPc = [k \in Run |-> IF k = 0 THEN "findMany" ELSE "idle"]
    /\ snapImeis = [k \in Run |-> {}]
    /\ snapStatus = [k \in Run |-> NoStatus]
    /\ snapRows = [k \in Run |-> {}]
    /\ request = [c \in Command |-> IF c \in InitialRows THEN "queued" ELSE "none"]
    /\ everRegistered = InitialDevices
    /\ claimed = [s \in Socket |-> {}]
    /\ attempted = {} /\ acked = {} /\ posted = {} /\ overlapped = {}
    /\ nData = 0 /\ nTick = 0 /\ nCrash = 0 /\ nChange = 0

(* The process dies and is started again (restart: unless-stopped): what   *)
(* it held in memory is gone, sockets end without a 'close' handler, and   *)
(* Redis and PostgreSQL keep what they have.  A command Redis had already  *)
(* executed is a Reply before the crash; only a pipeline can be cut.       *)
AfterCrashResumed(pcs) == pcs   \* mutant: a restart takes the sync for running
AfterCrash(pcs) == [k \in Run |-> IF k = 0 THEN "findMany"
                                  ELSE IF pcs[k] = "idle" THEN "idle" ELSE "done"]

Crash ==
    /\ nCrash < MaxCrashes
    /\ nCrash' = nCrash + 1
    /\ sock' = [s \in Socket |-> IF sock[s] = "none" THEN "none" ELSE "closed"]
    /\ metaImei' = [s \in Socket |-> None]
    /\ isAuthorized' = [s \in Socket |-> FALSE]
    /\ connections' = <<>>
    /\ ConnectionBreaks
    /\ redisQ' = <<>>
    /\ pc' = [t \in Event |-> IF pc[t] = "idle" THEN "idle" ELSE "done"]
    /\ rest' = [t \in Event |-> <<>>]
    /\ key' = [t \in Event |-> None]
    /\ cmds' = [t \in Event |-> <<>>]
    /\ read' = [t \in Event |-> None]
    /\ closing' = [s \in Socket |-> IF closing[s] = "no" THEN "no" ELSE "done"]
    /\ closeKey' = [s \in Socket |-> None]
    /\ closeRead' = [s \in Socket |-> None]
    /\ imeiPc' = AfterCrash(imeiPc)
    /\ statusPc' = AfterCrash(statusPc)
    /\ cmdPc' = AfterCrash(cmdPc)
    /\ snapImeis' = [k \in Run |-> {}]
    /\ snapStatus' = [k \in Run |-> NoStatus]
    /\ snapRows' = [k \in Run |-> {}]
    /\ request' = [c \in Command |-> IF request[c] = "creating" THEN "failed" ELSE request[c]]
    /\ UNCHANGED <<imeiSet, statusHash, db, on, history, nData, nTick, nChange>>

(* An outage that outlasts the client's retries (maxRetriesPerRequest), or *)
(* one of PostgreSQL: what waits for an answer gets an error.  processData *)
(* catches it and drops its batch, SendCommand reports it, and the upserts *)
(* of a status sync catch theirs one by one.  A pipeline has no error:     *)
(* exec() resolves with those of its commands, which nobody looks at.      *)
(* Nobody catches that of a 'close' or of any other wait of a sync: it     *)
(* ends the process, which is a Crash.                                     *)
TasksFail(failed) ==
    /\ pc' = [t \in Event |-> IF t \in failed THEN "done" ELSE pc[t]]
    /\ rest' = [t \in Event |-> IF t \in failed THEN <<>> ELSE rest[t]]
    /\ key' = [t \in Event |-> IF t \in failed THEN None ELSE key[t]]
    /\ cmds' = [t \in Event |-> IF t \in failed THEN <<>> ELSE cmds[t]]
    /\ read' = [t \in Event |-> IF t \in failed THEN None ELSE read[t]]

RedisOutage ==
    /\ redisQ # <<>> /\ \A i \in DOMAIN redisQ : redisQ[i][1] \in {"data", "commands"}
    /\ TasksFail({t \in Event : Contains(redisQ, DataTask(t))})
    /\ ConnectionBreaks
    /\ cmdPc' = [k \in Run |-> IF cmdPc[k] = "exec" THEN "done" ELSE cmdPc[k]]
    /\ snapRows' = [k \in Run |-> IF cmdPc[k] = "exec" THEN {} ELSE snapRows[k]]
    /\ redisQ' = <<>>
    /\ UNCHANGED <<statusPc, snapStatus, request>>

RowsAwaited ==
    \/ \E k \in Run : imeiPc[k] \in {"findMany", "rows"}
    \/ statusPc[0] = "findMany" /\ imeiPc[0] = "done"
    \/ \E k \in Run : cmdPc[k] \in {"findMany", "rows"} /\ (k = 0 => statusPc[0] = "done")

(* The entries of a status sync in progress that an outage makes it lose.  *)
UpsertsLost(lost) ==
    LET left(k) == [d \in Imei |-> IF d \in lost THEN None ELSE snapStatus[k][d]]
    IN /\ snapStatus' = [k \in Run |-> IF statusPc[k] = "upsert" THEN left(k)
                                       ELSE snapStatus[k]]
       /\ statusPc' = [k \in Run |-> IF statusPc[k] = "upsert" /\ left(k) = NoStatus
                                     THEN "done" ELSE statusPc[k]]

DatabaseOutage ==
    /\ ~RowsAwaited
    /\ TasksFail({t \in Event : pc[t] = "delete"})
    /\ request' = [c \in Command |-> IF request[c] = "creating" THEN "failed" ELSE request[c]]
    /\ \E lost \in SUBSET Imei : UpsertsLost(lost)
    /\ UNCHANGED <<cmdList, cmdPc, snapRows, redisQ>>

Outage ==
    /\ nCrash < MaxCrashes
    /\ nCrash' = nCrash + 1
    /\ RedisOutage \/ DatabaseOutage
    /\ UNCHANGED <<tcp, imeiSet, statusHash, db, on, closes, imeiPc, snapImeis, history,
                   nData, nTick, nChange>>

(* Another program registers a device, or removes it.                      *)
RegisterDevice(d) ==
    /\ nChange < MaxChanges
    /\ d \notin devices
    /\ devices' = devices \cup {d}
    /\ everRegistered' = everRegistered \cup {d}
    /\ nChange' = nChange + 1
    /\ UNCHANGED <<tcp, cache, redisQ, deviceStatus, commandQueue, session, closes, syncs,
                   request, claimed, attempted, acked, posted, overlapped,
                   nData, nTick, nCrash>>

RemoveDevice(d) ==
    /\ nChange < MaxChanges
    /\ d \in devices
    /\ devices' = devices \ {d}
    /\ nChange' = nChange + 1
    /\ UNCHANGED <<tcp, cache, redisQ, deviceStatus, commandQueue, session, closes, syncs,
                   request, history, nData, nTick, nCrash>>
-----------------------------------------------------------------------------
SocketStep(s) == Connect(s) \/ DataEvent(s) \/ SocketEnds(s)
                 \/ CloseEvent(s) \/ CloseRead(s) \/ CloseWrite(s)

TaskStep(t) == Authorize(t) \/ Reject(t) \/ StatusRead(t) \/ LoginStatusWrite(t)
               \/ DataStatusWrite(t) \/ GetCommands(t) \/ WriteCallback(t)
               \/ FindCommand(t) \/ RemoveFromList(t) \/ DeleteRow(t) \/ DeleteMissing(t)

BootStep == BootStatusRead \/ BootStatusDel \/ BootStatusSet
SyncStep(k) == ImeisRead(k) \/ ImeisAnswered(k) \/ ImeisDel(k) \/ ImeisAdd(k)
               \/ StatusSnapshot(k) \/ StatusUpsert(k)
               \/ RowsRead(k) \/ RowsAnswered(k) \/ PipelineExec(k)

ApiStep(c) == SendNow(c) \/ StartQueueing(c) \/ CreateRow(c)

Environment == Crash \/ Outage \/ \E d \in Device : RegisterDevice(d) \/ RemoveDevice(d)

Next == \/ \E s \in Socket : SocketStep(s)
        \/ \E t \in Event : TaskStep(t)
        \/ BootStep
        \/ Tick
        \/ \E k \in Run : SyncStep(k)
        \/ \E c \in Command : ApiStep(c)
        \/ Environment

Spec == Init /\ [][Next]_vars

(* Redis and PostgreSQL answer, write callbacks fire (at the latest when   *)
(* the idle timeout destroys the socket), and 'close' follows a teardown.  *)
(* Nothing obliges devices, operators or the interval to do anything.      *)
Fairness ==
    /\ \A t \in Event : WF_vars(TaskStep(t))
    /\ \A s \in Socket : WF_vars(CloseEvent(s) \/ CloseRead(s) \/ CloseWrite(s))
    /\ \A k \in Run : WF_vars(SyncStep(k))
    /\ WF_vars(BootStep)
    /\ \A c \in Command : WF_vars(CreateRow(c))

FairSpec == Spec /\ Fairness
=============================================================================
