# Verification of the GPS listener

TLA+ modules of `nest-gps-listner` (the repository in `src/`), the TLC
configurations that check them on small instances, and theorems about them
checked with TLAPS. Paths such as `tcp-server.service.ts` are under
`src/src/modules/`.

The program is a NestJS process that listens on one TCP port per GPS protocol
(GT06, Teltonika). It cuts the byte streams of the devices into packets,
acknowledges them, validates the IMEI of a login against a Redis set, keeps the
live status of every device in a Redis hash, forwards locations by HTTP, and
sends the devices the commands that a REST API puts into PostgreSQL. Every five
minutes it copies data between PostgreSQL and Redis.

## 1. Inventory

| Component | State | Operations |
|---|---|---|
| `TcpServerService` | `connections` (Map `ip:port` → socket), `socketBuffers`, `socket.meta` (`imei`, `isAuthorized`), `servers` | accept, `data`, `close`, `error`, `timeout`, `getConnectionByImei`, `sendCommandbyIMEI`, start and stop |
| `handleData` with the decoders | the buffer of a socket | append a chunk; loop: `hasCompletePacket`, `getPacketLength`, slice, `decode`, remember the IMEI, transform, acknowledge |
| `Gt06Service` codec | none | `decode`, `transformToDeviceData`, `generateAck`, `encodeCommand` |
| `Gt06Service.processData` | one running task per `data` event | login: validate, authorise, status, send and remove queued commands; heartbeat; location: status, forward |
| `TeltonikaService` | none | framing, `decodeAvlPacket`, ACK, `encodeCommand`; its `processData` only logs |
| `CommonService` | the three Redis keys (set, hash, lists) | `validateImei`, `updateDeviceLiveStatus`, `getDeviceCommands`, `removeDeviceCommand` |
| `AutosyncService` | `isSyncing`; progress of each sync | `syncInitialData`, the 5-minute interval with `SyncIMEIS`, `syncCommandQueueToRedis`, `syncDeviceStatusToPrisma`, `syncDeviceStatusToRedis`; `beforeApplicationShutdown` |
| `ApiService` | one running request per call | `SendCommand`: to the socket, or into `CommandQueue` |
| `ProtocolFactory` | port → decoder, fixed at start | lookups, `sendCommand` |
| `DataForwarderService` | none | `forwardData`: starts a POST, ignores its outcome |
| `ConnectionManagerService`, `RedisStarter`, `CommandExecutor`, `OSIdentifier` | the Redis client | connect, start Redis through the operating system, connect again, reconnect, quit |
| `main.ts`, module hooks, Docker | phase of the process | init, bootstrap, shutdown, unhandled rejection, restart |
| PostgreSQL (`Device`, `DeviceStatus`, `CommandQueue`), Redis | durable | written by the above, and table `Device` by other programs |

How they interact: a socket's `data` handler calls `handleData` synchronously,
then starts `processData` of the port's protocol and lets it run. Nothing makes
the `processData` of one chunk wait for that of the previous one. `processData`
awaits Redis, PostgreSQL and socket writes. `close` starts a status update that
nobody awaits. The interval starts three syncs and awaits none. All of them
share one Redis client, the tables, `socket.meta` and the `connections` map. The
shutdown hooks take that client and the servers away under whatever still runs.

Hard behaviours: the interleaving of these tasks at every await; checks that are
stale when they are used (the IMEI set while it is rebuilt, the status entry
between HGET and HSET, the command list between LRANGE and LREM); devices that
reconnect while their old session still runs; sockets that are destroyed while a
task uses them; crashes and outages between two steps of a copy; rejections
that nobody handles and that end the process; a shutdown that waits for devices
nobody disconnects; TCP cutting the stream anywhere; AVL records that fail in the
middle of a packet. `PROJECT.json` lists each hazard at its line.

What makes each component correct:

- sessions: a socket is authorised only for a registered device; nothing is shown
  of a device that no such socket claims, and no position under an IMEI it was not
  acknowledged under; every task ends, whatever happens to its socket;
- commands: at-least-once: the database row goes last, after an attempt; the
  Redis list is a queue (own commands, oldest first, none twice), and a sync that
  overlaps no other loses none;
- connection map: leads to live sockets and to all of them;
- syncs: leave exactly what they read; the startup always completes;
- start and stop: one Redis client; in service again after every fault, with all
  that it needs; no end before the devices have left and the startup sync is done,
  an end at last;
- framing: packets are taken whole, in order, once, at once; the loop ends;
- decoding: what is read are the bytes the sender put there, each once; the
  device and the packet are known again in the answer; every packet ends.

## 2. Modules

| Module | Models |
|---|---|
| `ListenerState` | constants, shared variables, the Redis client (`Issue`, `Reply`), the status merge, the `connections` Map |
| `DeviceSession` | `Gt06Service.processData` with `CommonService` inlined |
| `TcpServer` | sockets and their handlers; EXTENDS `DeviceSession` |
| `Autosync` | the syncs at startup and of the interval |
| `ApiService` | `SendCommand` |
| `Listener` | the composition, crashes, outages, other writers of `Device`, fairness |
| `CommandDelivery` | abstract: what the listener promises about a command |
| `RedisConnection` | `ConnectionManagerService` and `RedisStarter`: the two Redis clients |
| `Lifecycle` | start, stop, unhandled rejections, restart; EXTENDS `RedisConnection` |
| `PacketFraming` | `handleData`'s buffer and loop, both decoders' framing |
| `PacketStream` | abstract: a reliable stream of packets |
| `Gt06Decoder`, `TeltonikaDecoder` | the two codecs, as operators on the bytes of a packet |
| `PacketDecoding` | what `handleData` does with one packet, record by record; commands to the device |
| `…Properties` | the properties of `Listener`, `Lifecycle`, `PacketFraming`, `PacketDecoding` |
| `MC…` | their instances for TLC |
| `SequenceLemmas`, `…Proofs` | theorems |

There are four compositions, joined where the code is: `PacketFraming` yields the
packets of a `data` event, `PacketDecoding` makes of each what
`TcpServer!DataEvent` takes from `Chunk`, and `Lifecycle` is the process in which
`Listener` runs; a `Crash` of `Listener` is a `Die`, an `ExitOnFailedStart` or a
kill of `Lifecycle` as the sessions see it. They are checked apart because
together no instance that shows anything is small.

The order followed was that of importance: sessions with their shared state,
composed with the syncs, the API and crashes; the framing; start and stop; the
bytes of a packet; outages; then the proofs of the last two and of the listener's
remaining invariants.

## 3. How the model corresponds to the code

### Listener

**Steps.** Node runs one callback at a time, so an action is the code between two
awaits. A task that awaits Redis is in `redisQ`, the list of commands that were sent
and not yet answered; `Reply(w, next)` executes the command of `w` and resumes `w`
up to its next await. Execution and resumption are one action because all keys are
written through the one connection of this process, which answers in the order of
the requests: an execution touches Redis only, what happens between it and its
answer (events, other continuations, PostgreSQL) touches anything but Redis, and so
it may as well be executed when the answer arrives. A pipeline's commands are
written in one go, so nothing of this process falls between them; it is no MULTI,
though, and a break of the connection cuts it anywhere (`PipelineCut`, in `Crash`
and `RedisOutage`).

PostgreSQL is behind a pool of connections and has no such order. The `findMany`
of the IMEI and command syncs is two actions, what PostgreSQL sees (`ImeisRead`,
`RowsRead`) and the arrival of the rows (`ImeisAnswered`, `RowsAnswered`), so
that a run may write older rows after a newer run's. The insertion of a command
is two as well (`StartQueueing`, `CreateRow`). The commit of a deletion or an
upsert and the continuation of its task are one action: the continuation sends
the next command of that task, and to send it later is another interleaving of
the model. The same goes for `BootStatusRead`: nobody writes `DeviceStatus` before
the startup sync is over.

**Variables.** `sock` is the TCP state (`destroyed`: torn down, `close` not yet
handled), `metaImei` and `isAuthorized` are `socket.meta`, `connections` the
sockets of the Map in insertion order, `imeiSet`, `statusHash`, `cmdList` the
three Redis keys, `devices`, `deviceStatus`, `commandQueue` the tables. Task `t` is
the `processData` of the `t`-th `data` event: `pc[t]` is the await it is at,
`rest[t]` what it has still to process, `key[t]` the IMEI whose status it updates,
`cmds[t]` the commands it has still to send, `read[t]` the entry between HGET and
HSET. `closing`, `closeKey` and `closeRead` are the status update of a `close`.
`imeiPc`, `statusPc`, `cmdPc` and the `snap…` variables are the syncs of run `k` (0
at startup, then one per interval). `everRegistered`, `claimed` (the IMEIs a socket
has logged in with), `attempted`, `acked`, `posted` and `overlapped` (the runs whose
IMEI or command sync ran beside another's) only record what happened.

**Identity.** A socket has no fixed device. Every login in a chunk overwrites
`metaImei` while the chunk is parsed (`ImeiAt`), before `processData` validates it;
a GT06 packet that is no login is decoded with the IMEI `metaImei` has at that
packet; `Authorize` writes `metaImei` once more, and nothing takes `isAuthorized`
back. A login and a location keep the IMEI they were decoded with, a heartbeat
reads `socket.meta` when its turn comes, a `close` when it is handled: `key` and
`closeKey` hold it across the awaits.

**Data.** A status entry is its status and the location it shows (`fix`, the event
and packet it came from). A command is its row id, and ids follow `createdAt`. An
absent IMEI (`undefined`, `'unknown'`, the empty field it becomes in Redis) is
`None`. Commands that Redis executes only for a log line (SCARD, HLEN) are left
out.

**`Rest`.** Items that `processData` skips without an await (everything before a
login while the socket is not authorised) are dropped as soon as the loop gets
to them. `isAuthorized` never goes back to false in the life of a socket, but
another task of the socket may set it during an await; this is why `MoveOn`
looks at it again for every item. Alarm, status and unknown packets have no
branch in `processData`.

**Sending.** `encodeCommand` gives no buffer for a command too long for the 16-bit
length field (`Oversized`); `sendCommand` then returns at once, nothing is written,
and the row is deleted all the same. A destroyed socket has no `localPort`, so
`SendNow` writes nothing to it (`Written`), although the caller is told that the
command was sent; the write of a session on a destroyed socket is handed over
and fails in its callback, which is an attempt as `CommandDelivery` means it.

**Faults.** `Crash` takes everything in memory. `Outage` is one that outlasts the
client's retries (`maxRetriesPerRequest`): all commands Redis still owes an answer
reject together, or the queries PostgreSQL does. `processData` catches and drops
the rest of its batch, `SendCommand` answers with an error, the status sync catches
each upsert and goes on without it (`UpsertsLost`). `pipeline.exec()` does not
reject: it resolves with the errors of its commands, nobody looks at them, and the
command sync ends as if it had succeeded. A rejection of a `close` or of any other
wait of a sync is not caught and ends the process: that is `Crash`, so `Outage`
needs that none of them is waiting. A command whose answer got lost although Redis
executed it is a `Reply` before the outage. That ioredis sends commands again after
a reconnect, some of which Redis may have executed, is left out.

### Lifecycle

`boot` is the next step of the start: `PrismaService` connects, then the Redis
client, then the ports one by one (`ListenPort`), the startup sync in two stages,
the API port. A rejection anywhere in it ends the process with status 1
(`bootstrap().catch`). The second stage of the startup sync, the commands, rejects
only if its query does: when Redis fails, `pipeline.exec()` resolves, and the API
port opens with lists that were not loaded, or loaded in part (`StartupCommands`;
`loaded` says whether they were). The command sync of an interval loads them.
The Redis client: `connect()` of client 1 is settled by its first attempt; if it
fails, the client is disconnected, `RedisStarter` tries the start methods of the
operating system (`method`), `waitForRedis` polls localhost, and client 2 gets the
last chance. Client 1 reconnects for ever, client 2 gives up after `RetryLimit`
attempts.

`stop` is the next step of the shutdown, in Nest's order: the `onModuleDestroy`
hooks of the global modules come first, so the Redis client quits (a client that
has ended refuses, and the hook's error ends the process), then
`stopAllServers` closes the servers and awaits their callbacks, then
`beforeApplicationShutdown` waits while `isSyncing`, then Nest kills the process
with the signal. `$disconnect` of Prisma holds nothing up and has no action.

Beside them devices come and go, each `close` starts a status update
(`updating`), the interval a sync (`interval`). When one rejects, `doomed`
becomes true: an unhandled rejection, after which the process exits (`Die`), by
the logger's `rejectionHandlers` or, with a silent logger, by Node's default.
`Restart` is Docker's `restart: unless-stopped`. A failed client leaves pending
and new commands waiting for it to come back, or rejecting when its retries per
request are used up; the model has them reject whenever the client is not ready,
and proceed when it is.

### Framing

Bytes are positions in the stream. A stretch is a packet with the mark of its
header and its length field, or garbage, which never looks like a header. The
branch for `packetLength === 0` cannot be reached after `hasCompletePacket` and has
no action. `ArriveSome` delivers any number of bytes.

### Decoding

A packet is its bytes; a field, a record, a location are the stretch of bytes they
are read from, which is what could be wrong about them. `ParseRecord` is one turn
of the loop of `decodeAvlPacket`: a record that fails leaves the offset where it
was, and the loop goes on. A read of one byte past the end gives `undefined`,
which no comparison finds above zero; a read of several bytes throws
(`RecordFails`, `Throws`). Codec 8 Extended is parsed with the layout of codec 8, a
codec that is neither has no IO. An IMEI is its digits, `<<>>` when undefined.
The arithmetic on the value of a field (degrees, BCD dates, the CRC) is left out:
nothing the program decides depends on it, and a wrong CRC only logs a line.

## 4. Runs

Listener (`MCListener`):

| Run | Question | Instance |
|---|---|---|
| `registration` | is only a socket of a registered device authorised, and nothing shown or forwarded of a stranger; are positions those of their IMEI, and is each that arrives on an authorised socket forwarded; is the set what the sync read | 1 socket that logs in under 2 IMEIs, 2 events of up to 3 packets, 1 change of `Device`, startup sync and 1 interval, early connections |
| `crash` | delivery (a row is deleted only after an attempt), lists that are queues and lose nothing, a map of live sockets, over a crash or an outage and a reconnect | 2 sockets of 1 device, 2 commands (1 requested and oversized), 2 events, 1 crash or outage, early connections |
| `overlap` | what may a command sync drop, when runs overlap, PostgreSQL answers them in any order, and rows are inserted between their snapshots | startup and 2 intervals, 3 commands (2 requested), no events |
| `liveness` | does everything started come to its end; are locations forwarded once and in order | 1 socket, 2 events of up to 3 packets, 1 crash or outage |

The others:

| Run | Question | Instance |
|---|---|---|
| `lifecycle` | one client, no early end; back after every fault, with the lists loaded; does a shutdown end | 2 ports, 2 devices, macOS, 2 faults, a signal |
| `framing` | packets whole, in order, at once; does the loop end | every stream of 3 stretches of both protocols, every way to cut it |
| `decoding` | right bytes, each once; device and serial kept; commands whole; does every packet end | 134 AVL packets with every count, IO shape and codec, cut short; 109 GT06 packets of all types and lengths; 5 command lengths |

The runs expected to fail show where documents and code part. Each checks one
statement of the repository's documents or comments, and `findings` in
`PROJECT.json` quotes it:

| Run | What the counterexample shows |
|---|---|
| `ghost_session` | HGET of the login, `close` handled, its HSET, then the login's HSET: `CONNECTED` for ever |
| `rejected_in_window` | a login between DEL and SADD of an interval |
| `acked_not_forwarded` | a location acknowledged and dropped while the login is validated |
| `second_login` | an authorised socket logs in again with an IMEI nobody registered; the heartbeat after it is processed before the login is refused, and shows that device `CONNECTED` |
| `ack_accepted` | an AVL packet acknowledged with the count it announces, although a record failed and was dropped |

Read in the code and not stated as runs: a close restores the status entry it
read before a location was written, and a later location may be overwritten by
an earlier one; two logins of a device read the same list and send a command
twice; a command list whose last row is gone is never deleted; bytes that begin
no packet stay in the buffer for ever; no CRC decides whether a packet is used;
of an AVL packet's records only the first becomes device data; a GT06 location
with less than 18 bytes of content is read from the bytes behind it; a status or
unknown GT06 packet is acknowledged as a login; a command of 249 bytes or more
gets a wrong length byte; an IMEI that begins with a zero loses it, although
`gt06.service.ts:161` says 15 digits; an interval sync is not waited for at the
shutdown; an interval may overlap the one before it, although `prompt.md:671` says
"Prevent overlap", and what an older answer of PostgreSQL then drops from the set
or a list is back with the next interval; two connections with the same remote
address and port share one entry of the Map; the API may open with lists that are
not loaded. `hazards` lists those that need more than one step.

**Bounds.** Listener: `MaxData`, `MaxBatch`, `Chunk`, `MaxTicks`, `MaxCrashes`
(crashes and outages), `MaxChanges`. Each race above needs two actors and at most
two awaits of each, so two sockets, two events, two packets in an event and two
syncs are enough for every pair to interleave at every await; three sessions of one
device differ from two only in the number of copies of a command. In `registration`
one socket claims two IMEIs, so that each of its tasks can find the other's in
`socket.meta`. In `overlap` the third run is there to be alone or beside one of two
others, and the two requests insert a row before and after a snapshot; sessions that
remove commands meanwhile are in `crash`. Two crashes add nothing to one: a crash
leaves only Redis, the tables and a fresh process. In `crash` the two sockets of the
device are alike, each with its own id, and may change places (`SYMMETRY`).
`InitialStatus` and `InitialRows` are the rows that an earlier run left in
`DeviceStatus` and `CommandQueue`.

Lifecycle: `RetryLimit` 1 (10 in the code), `MaxPolls` 2 (15), `MaxWaits` 1 (30):
each is compared once per round, so one round below it and one at it are all the
cases. `MaxFaults` 2 lets a fault hit the recovery from another. macOS has the fewest start
methods; the theorems are about every system. Decoding: each packet is decoded from
whatever state the packet before it left (only the IMEI), so single packets of
every shape cover the sequences; record counts from 0 to 3 against up to two
records give missing, exact and superfluous ones. The theorems of section 5
have no bounds.

In the runs of the listener and the lifecycle devices stop sending, requests run
out, counters end and signals stop the process, and then the system stops:
deadlock is not checked there. In `decoding` it is.

**Assumptions.** The TCP ports listen before the startup sync has ended, the HTTP
server and the interval start after it (Nest's order of `onModuleInit`,
`onApplicationBootstrap` and `listen`); `EarlyConnections` lets devices use that.
Redis and PostgreSQL lose nothing they have acknowledged. A socket ends by FIN, RST
or the idle timeout. A signal comes once Nest's shutdown hooks run in full, that is,
not before the startup sync.

**Fairness.** `Listener!FairSpec`: every task step, close step, sync step and
insertion is weakly fair: Redis and PostgreSQL answer or reject, a write callback is
always called (Node calls it with an error when the socket is destroyed, at the
latest by the idle timeout of `handleConnection`), `close` follows a teardown.
Nothing is assumed of devices, requests, crashes, outages, or the interval.
`Lifecycle!FairSpec`: the event loop runs the steps of start and stop and the ends
of updates and syncs, the interval fires, a doomed process exits, Docker restarts
it, clients reconnect, and the configured Redis is started again by its own
supervisor. No device has to leave: `ShutdownEnds` holds because the interval
goes on and fails on the closed client. Faults are finite, which `Recovers` needs.
Framing: a chunk arrives if bytes are missing, and the loop goes on. Decoding: the
loop goes on.

## 5. Proofs

For every value of the constants that satisfies the named assumptions of
`ListenerState` (finite set of commands, topology functions, bounds in `Nat`),
`PacketFraming` (shape of a stretch), `RedisConnection` and `Lifecycle` (topology,
limits), and `PacketDecoding` (a packet is as long as its framing made it):

**Listener.**

- `IndInvInvariant`: `Spec => []IndInv`. `IndInv` is the type invariant with three
  strengthenings. `SessionShape`: a running task has a socket, an item and, in the
  command loop, a command, and its logins name IMEIs that the socket has claimed;
  without it, `Head(rest[t])` says nothing. `RegistrationFlow`: the table, each
  sync's snapshot, the Redis set and the authorised sockets are all within
  `everRegistered`; a socket is authorised from the set, the set is filled from a
  snapshot, the snapshot from the table, so no single link is inductive alone. (The
  socket may change its IMEI afterwards: what holds of it is that it has claimed a
  registered one.) `AttemptFlow`: the command at the head of a task in the command
  loop was attempted, or cannot be encoded, which is what makes its deletion safe.
- from it `TypeCorrect`, `AuthorizedAlwaysRegistered`, `DeletedAfterAttempt`.
- `CommandFlowInvariant` (`ListenerCommandProofs`): the table, each sync's snapshot, the
  Redis lists and the hands of the sessions hold queued commands only, and nothing
  is tried that was neither queued nor sent at once. Each of these four copies is
  filled from another, so `ListsAreQueues` alone is not inductive: the list a
  pipeline writes, whole or cut, is right because the snapshot it was made from is.
  From it `ListsAlwaysQueues` and `ListenerImplementsDelivery`: every step of the
  listener is a step of `CommandDelivery` or a stutter.
- `RunsAloneInvariant`: `Spec => []RunsAlone`: two runs that sync at the same time are
  both in `overlapped`; one that is not there finds the set empty between its DEL
  and its SADD, and has in its rows every command that is listed and still in the
  table, since a row inserted after its snapshot is not listed before another run
  writes it. From it two theorems that say what overlapping costs.
  `SyncAlwaysReplacesSet`: an IMEI sync that overlaps no run leaves the rows it read
  (two that overlap can mix theirs: DEL, DEL, SADD, SADD). `ListedAlwaysStays`: a
  command in the table and in its list stays in the list until a session that holds
  it removes it; only a cut pipeline, or the pipeline of a run that overlapped
  another, drops it (an older snapshot written last lacks the newer rows).
- `NamesInvariant` (`ListenerNameProofs`): `MapFlow`: an id has at most one entry in
  the Map, so the entry that a `close` deletes is its own or a namesake's;
  `SessionNames`: beyond its login a session works on an authorised socket, and only
  names IMEIs the socket has claimed; `StatusFlow`: the Redis hash, the table, each
  sync's snapshot and what a `close` has read are clean of strangers. A stranger is a
  device that no row ever named and that no socket claimed besides one some row did;
  registrations and claims are never taken back, so a stranger has always been one.
  From it `ConnectionsAlwaysLive` and `UnregisteredLeavesNoTrace`. What a socket of a
  registered device may show besides is what `second_login` shows.
- `RefusedOnlyInTheWindow` (`ListenerCommandProofs`): `Spec /\ [](d \in devices) =>
  RejectedOnlyRebuilding(d)`, what is true of the statement that
  `rejected_in_window` refutes. A device that stays in the table is in the rows that
  any sync under way has read, and in the set, unless the startup sync is not over
  or a sync is between its DEL and its SADD; the window is the only way to be
  refused, with crashes and any number of overlapping syncs.
- `FlowInvariant` (`ListenerFlowProofs`): `Spec => []FlowInv`, the three above and
  three more.
  `FixFlow`: a position in the hash, the table, a sync's snapshot, an entry that a
  session or a `close` has read, or an item still to be processed was acknowledged
  under the IMEI it is kept for. Each of the six is written from another of them,
  with awaits between, while the socket may change its IMEI; it is `key` and
  `closeKey`, the IMEI read once and used after the await, that make it the same one
  (a second look at `socket.meta` breaks it, which is the mutant of `FixesAreOwn`).
  It gives `FixesAlwaysOwn`.
  `Gt06Sessions`: a session that is past its login has a GT06 socket.
  `ForwardedInOrder`: a location is forwarded once, and those of one event in the order
  in which they came. The argument is `RestIsEnd`: what a session has left of its
  batch, however it goes on, is an end of what it had, so what was
  forwarded comes before what is still to be. Between events there is no such order,
  since two sessions of one socket run beside each other.
- `AcceptedAlwaysForwarded`: a location that arrives on an authorised socket is in its
  session's batch in the same step, and a step takes it out of there only by
  forwarding it or by dropping the whole batch: at a login that is refused, at a
  command whose row is gone, or at a fault (`BatchDropped`). It is what is true of the
  statement that `acked_not_forwarded` refutes, which speaks of sockets that are not
  authorised yet.

**Lifecycle.** `LifecycleInvInvariant`: `Spec => []LifecycleInv`, the properties
with three strengthenings that say what has not happened yet: client 2 is made by
the last step of the Redis boot (`SecondClientIsLast`, `FirstClientGivenUp`), and a
shutdown begins only in a process whose ports are open, so no port opens during one
(`ShutdownAfterPorts`). From it `OneLiveClient`, `FirstClientNeverLost` and
`DevicesLeaveFirst`; `StartupSyncAlwaysAwaited` adds that the process kills itself
only from a wait that has seen `isSyncing` false or has run out, and that
`isSyncing` is then never set again.

**Framing.**

- `FramingCorrect`: `Spec => []FramingInv`: the stretches lie end to end, the buffer
  begins where the last piece ended, the pieces are the first stretches. From it
  `FramesAlwaysIntact` and `NothingEverWaits`. `CompleteIsWhole` and
  `WholeIsComplete` are the arithmetic of the two decoders.
- `FramingImplementsStream`: `Spec => Stream!Spec`: every `Take` maps to taking the next
  packet of the abstract stream, every other step to a send or a stutter.
- `ChunkingNeverVisible`: `Spec => []ChunkingInvisible`, from `FramingInv` and `ImeiKept`:
  `socket.meta.imei` is the IMEI of the last login taken, which is what makes the
  device of a packet independent of the events it arrived in.

**Decoding.** `DecodingCorrect`: `Spec => []DecodingInv`: where the loop of
`decodeAvlPacket` stands (`Walking`: at the end of the last record kept, behind `i`
only if a record failed; `WalkingExact`: in a packet laid out by its sender, at the
start of the next of its records) and what `decode` and `Handle` made of the packet.
From it `RecordsAlwaysContiguous`, `RecordsAlwaysInPacket`, `RecordsAlwaysExact`,
`FieldsAlwaysDisjoint`, `SerialAlwaysEchoed`, `IdentityAlwaysKept`,
`DownlinkAlwaysWhole`.

`SequenceLemmas` holds the facts about sequences that several of these need: what
`Tail`, `RemoveFirst`, `SelectSeq` and an append keep, and the least and greatest
element of a set (`hexToImei`, the last login of a stream). The lemmas about
queues, the Map and `Rest` that the steps of the listener share are at the
beginning of `ListenerProofs`. The runs `registration` (`IndInv`), `lifecycle`,
`framing` and `decoding` check the same inductive invariants on small instances;
of `FlowInv` the runs check what is derived from it.

Only model-checked is liveness (`SessionsEnd`, `ClosesEnd`, `StartupCompletes`,
`Recovers`, `ShutdownEnds`, `LoopTerminates`, `EveryPacketTaken`, `DecodeEnds`;
liveness under fairness is out of the prover's reach).

## 6. Not modelled

- `socketBuffers` as a map (it gets an entry per connection and loses none) and
  `getServerStats`, which only reads; the buffer of one socket is in `PacketFraming`.
- The webhook: `forwardData` ignores its outcome.
- The arithmetic on field values and CRC computation (section 3, Decoding), and
  Teltonika's `processData`, which only logs.
- Signals before the startup sync: Nest then runs the hooks of a half-started
  application, and what they do depends on its internals.
- Logger, configuration, controller, guard: no state of their own. The logger's
  part in ending the process is in `Lifecycle!Die`. A port without a decoder is
  excluded by the configuration schema.

## 7. Running

    tlc -config ListenerCrash.cfg MCListener.tla
    tlc -config Lifecycle.cfg MCLifecycle.tla
    tlc -config PacketFraming.cfg MCPacketFraming.tla
    tlc -config PacketDecoding.cfg MCPacketDecoding.tla
    tlapm ListenerProofs.tla

`PROJECT.json` has the list of runs, the source lines of each definition, the
hazards, and for each property a plausible bug that breaks it; the bug's
operator stands next to the definition it replaces, marked `mutant`.
