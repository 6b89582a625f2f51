---------------------------- MODULE ListenerState ----------------------------
(***************************************************************************)
(* The state shared by the components of the GPS listener, and the helpers *)
(* they use on it.  One Node process serves the TCP sockets of the         *)
(* devices; it keeps a cache in Redis (through ONE ioredis connection) and *)
(* its durable state in PostgreSQL (through Prisma).                       *)
(*                                                                         *)
(* Node runs one callback at a time, so an action of this project is the   *)
(* code between two awaits.  A task that awaits Redis sits in redisQ; the  *)
(* action that resumes it is the execution of its command together with    *)
(* the code up to the next await (no other client writes these keys).      *)
(* Redis serves its one connection in order; PostgreSQL, behind a pool of  *)
(* connections, does not: a query and its answer are two actions wherever  *)
(* something else could happen in between.                                 *)
(***************************************************************************)
EXTENDS SequencesExt

CONSTANTS
    Socket,         \* every TCP connection ever accepted
    ConnectionId,   \* the keys `${remoteAddress}:${remotePort}`
    Device,         \* IMEIs
    Command,        \* command_queue ids; their order is that of createdAt
    None,           \* undefined, null, or the IMEI placeholder 'unknown'
    ConnectionIdOf, \* the key of a socket in TcpServerService.connections
    ProtocolOf,     \* the protocol of the port the socket was accepted on
    TargetOf,       \* the device a command is for
    Oversized,      \* the commands too long for the length field of GT06
    InitialDevices, \* the rows of table Device at the first start
    InitialStatus,  \* the devices with a row in DeviceStatus at the first start
    InitialRows,    \* the rows of table CommandQueue at the first start
    MaxData,        \* bound: 'data' events
    MaxBatch,       \* bound: packets completed by one 'data' event
    Chunk,          \* what one 'data' event of a socket may complete
    MaxTicks,       \* bound: firings of the 5-minute interval
    MaxCrashes,     \* bound: crashes of the process, and outages it survives
    MaxChanges,     \* bound: changes of table Device by the other programs
    EarlyConnections \* whether devices may connect before the first sync ends

Event == 1..MaxData
Run == 0..MaxTicks           \* 0 is the sync at startup
Imei == Device \cup {None}
Kind == {"LOGIN", "HEARTBEAT", "LOCATION"}
(* A packet as it arrives: only a login carries an IMEI.                   *)
Message == {m \in [type : Kind, imei : Imei] : m.type = "LOGIN" <=> m.imei # None}
Fix == Event \X (1..MaxBatch)
Entry == [status : {"CONNECTED", "DISCONNECTED"}, fix : Fix \cup {None}]
Packet == [type : Kind, imei : Imei, fix : Fix \cup {None}]
Report == Fix \X Imei       \* a location, and the IMEI it was decoded with
Waiter == ({"data"} \X Event) \cup ({"close"} \X Socket)
            \cup ({"imeis", "status", "commands"} \X Run)

ASSUME NoneAssumption == None \notin Device
ASSUME TopologyAssumption ==
    /\ ConnectionIdOf \in [Socket -> ConnectionId]
    /\ ProtocolOf \in [Socket -> {"GT06", "Teltonika"}]
ASSUME CommandAssumption ==
    /\ Command \subseteq Nat
    /\ IsFiniteSet(Command)
    /\ TargetOf \in [Command -> Device]
    /\ InitialRows \subseteq Command
    /\ Oversized \subseteq Command
    /\ InitialDevices \subseteq Device
    /\ InitialStatus \subseteq Device
ASSUME BoundAssumption ==
    /\ MaxData \in Nat /\ MaxBatch \in Nat /\ MaxTicks \in Nat
    /\ MaxCrashes \in Nat /\ MaxChanges \in Nat
    /\ \A s \in Socket : Chunk[s] \subseteq SeqOf(Message, MaxBatch)
    /\ EarlyConnections \in BOOLEAN

VARIABLES
    \* TcpServerService
    sock,         \* the TCP state of a socket, as this process sees it
    metaImei,     \* socket.meta.imei
    isAuthorized, \* socket.meta.isAuthorized
    connections,  \* Map of connection id to socket, in insertion order
    \* Redis
    imeiSet,      \* SET  devices:imei:set
    statusHash,   \* HASH devices:status
    cmdList,      \* LIST devices:commands:<imei>
    redisQ,       \* the tasks whose command is sent and not yet answered
    \* PostgreSQL
    devices, deviceStatus, commandQueue,
    \* one Gt06Service.processData per 'data' event
    pc, on, rest, key, cmds, read,
    \* one updateDeviceLiveStatus per 'close' event
    closing, closeKey, closeRead,
    \* AutosyncService: its three syncs, per run, and what each has read
    imeiPc, snapImeis, statusPc, snapStatus, cmdPc, snapRows,
    \* ApiService.SendCommand, one request per command
    request,
    \* what happened, for the properties
    everRegistered, claimed, attempted, acked, posted, overlapped,
    \* the bounded counters
    nData, nTick, nCrash, nChange

tcp == <<sock, metaImei, isAuthorized, connections>>
cache == <<imeiSet, statusHash, cmdList>>
db == <<devices, deviceStatus, commandQueue>>
session == <<pc, on, rest, key, cmds, read>>
closes == <<closing, closeKey, closeRead>>
syncs == <<imeiPc, snapImeis, statusPc, snapStatus, cmdPc, snapRows>>
history == <<everRegistered, claimed, attempted, acked, posted, overlapped>>
counts == <<nData, nTick, nCrash, nChange>>
vars == <<tcp, cache, redisQ, db, session, closes, syncs, request, history, counts>>
-----------------------------------------------------------------------------
(* The Redis client.  Reply(w, next) is the answer to the command of w,    *)
(* which then sends the commands next (itself again, or nothing).          *)

Issue(ws) == redisQ' = redisQ \o ws

Reply(w, next) ==
    /\ redisQ # <<>> /\ Head(redisQ) = w
    /\ redisQ' = Tail(redisQ) \o next

(* The boot sync has run to its end: intervals and the HTTP server start.  *)
Running == cmdPc[0] = "done"

(* CommonService.updateDeviceLiveStatus: the entry written back, from the  *)
(* entry read and the fields the caller provides (a fix, or none).         *)
Merged(old, status, fix) ==
    [status |-> status,
     fix |-> IF fix # None \/ old = None THEN fix ELSE old.fix]
-----------------------------------------------------------------------------
(* The Map of connections as the sequence of its sockets.                  *)
SameId(s, u) == ConnectionIdOf[s] = ConnectionIdOf[u]

MapSet(m, s) ==
    IF \E i \in DOMAIN m : SameId(m[i], s)
    THEN [i \in DOMAIN m |-> IF SameId(m[i], s) THEN s ELSE m[i]]
    ELSE Append(m, s)

MapDeleteNothing(m, s) == m   \* mutant: the close keeps the entry
MapDelete(m, s) == RemoveFirstMatch(m, LAMBDA u : SameId(u, s))

(* TcpServerService.getConnectionByImei(d) returns s.                      *)
IsConnectionOf(d, s) ==
    \E i \in DOMAIN connections :
        /\ connections[i] = s
        /\ metaImei[s] = d
        /\ \A j \in 1..(i - 1) : metaImei[connections[j]] # d
=============================================================================
