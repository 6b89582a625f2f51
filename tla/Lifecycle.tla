------------------------------ MODULE Lifecycle ------------------------------
(***************************************************************************)
(* The life of the process: main.ts, the module hooks in the order Nest    *)
(* calls them, and what runs beside them.                                  *)
(*                                                                         *)
(* Start: PrismaService connects, ConnectionManagerService gets a Redis    *)
(* client (module RedisConnection), TcpServerService opens its ports,      *)
(* AutosyncService runs the startup sync, main opens the API port.  A      *)
(* rejection anywhere ends the process with status 1; a pipeline whose     *)
(* commands fail does not reject, so that the API port may open although   *)
(* the command lists were not loaded.                                      *)
(*                                                                         *)
(* Stop, on a signal: the onModuleDestroy hooks of the global modules come *)
(* first, so the Redis client quits before TcpServerService closes its     *)
(* servers and waits for their connections; then AutosyncService waits for *)
(* a sync; then the process kills itself with the signal.                  *)
(*                                                                         *)
(* Beside: devices connect and go, the 'close' handler of each starts a    *)
(* status update, the interval starts a sync.  Nobody awaits those two: if *)
(* they reject, the rejection is unhandled and the process ends, at once   *)
(* or after the logger has flushed.                                        *)
(***************************************************************************)
EXTENDS RedisConnection

CONSTANTS
    Port,        \* protocolFactory.getAllPorts()
    Socket,      \* connections of devices
    PortOf,      \* PortOf[s]: the port socket s connects to
    MaxWaits,    \* rounds beforeApplicationShutdown waits (30 in the code)
    MaxFaults    \* bound: outages of Redis and PostgreSQL, and ports in use

ASSUME PortOfAssumption == PortOf \in [Socket -> Port]
ASSUME MaxWaitsAssumption == MaxWaits \in Nat
ASSUME MaxFaultsAssumption == MaxFaults \in Nat

VARIABLES
    proc,        \* "up", "down" (to be restarted), "stopped"
    listening,   \* the ports with an open server
    open,        \* the connected sockets
    updating,    \* sockets whose DISCONNECTED update is not settled
    interval,    \* what the running interval sync works on, or "idle"
    isSyncing,   \* AutosyncService.isSyncing
    loaded,      \* the command lists hold what the last command sync read
    stop,        \* the next step of the shutdown
    waited,      \* rounds waited for isSyncing
    doomed,      \* an unhandled rejection is about to end the process
    signalled,   \* the process got its signal
    nFault       \* faults so far

work == <<open, updating, interval>>
sync == <<isSyncing, loaded>>
ending == <<stop, waited, doomed>>
fate == <<proc, signalled>>
vars == <<redisVars, listening, work, sync, ending, fate, nFault>>

Stop == {"no", "quit", "servers", "draining", "syncs", "kill"}

Init ==
    /\ configured \in Host
    /\ os \in Systems
    /\ up \in [Host -> BOOLEAN]
    /\ boot = "database" /\ method = 1 /\ polls = 0
    /\ client = [c \in Client |-> "none"] /\ current = 1 /\ retries = 0
    /\ listening = {} /\ open = {} /\ updating = {} /\ interval = "idle"
    /\ isSyncing = FALSE /\ loaded = FALSE
    /\ stop = "no" /\ waited = 0 /\ doomed = FALSE
    /\ proc = "up" /\ signalled = FALSE /\ nFault = 0

\* The memory of a process that is not there.
Gone ==
    /\ boot' = "database" /\ method' = 1 /\ polls' = 0
    /\ client' = [c \in Client |-> "none"] /\ current' = 1 /\ retries' = 0
    /\ listening' = {} /\ open' = {} /\ updating' = {} /\ interval' = "idle"
    /\ isSyncing' = FALSE /\ loaded' = FALSE
    /\ stop' = "no" /\ waited' = 0 /\ doomed' = FALSE
    /\ UNCHANGED <<settings, up, signalled, nFault>>

Fault == nFault < MaxFaults /\ nFault' = nFault + 1
BootOnly == UNCHANGED <<settings, up, method, polls, client, current, retries>>
-----------------------------------------------------------------------------
(* The start.                                                              *)
FailedStart == boot' = "failed" /\ BootOnly

ConnectDatabase ==
    /\ proc = "up" /\ boot = "database"
    /\ boot' = "connect" /\ BootOnly
    /\ UNCHANGED <<listening, work, sync, ending, fate, nFault>>

DatabaseRefuses ==
    /\ proc = "up" /\ boot \in {"database", "sync", "commands"}
    /\ Fault
    /\ FailedStart
    /\ isSyncing' = FALSE
    /\ UNCHANGED <<listening, work, loaded, ending, fate>>

GetRedis ==
    /\ proc = "up"
    /\ RedisStep
    /\ UNCHANGED <<listening, work, sync, ending, fate, nFault>>

ListenPort(p) ==
    /\ proc = "up" /\ boot = "listen"
    /\ p \notin listening
    /\ listening' = listening \cup {p}
    /\ boot' = IF listening' = Port THEN "sync" ELSE "listen"
    /\ isSyncing' = (listening' = Port)
    /\ BootOnly
    /\ UNCHANGED <<work, loaded, ending, fate, nFault>>

PortInUse ==
    /\ proc = "up" /\ boot \in {"listen", "http"}
    /\ Fault
    /\ FailedStart
    /\ UNCHANGED <<listening, work, sync, ending, fate>>

(* syncInitialData: the IMEIs and the statuses, whose failure it rethrows. *)
StartupSync ==
    /\ proc = "up" /\ boot = "sync"
    /\ IF client[current] = "ready"
       THEN boot' = "commands" /\ isSyncing' = isSyncing
       ELSE boot' = "failed" /\ isSyncing' = FALSE
    /\ BootOnly
    /\ UNCHANGED <<listening, work, loaded, ending, fate, nFault>>

(* Then the commands: exec() resolves whatever became of the pipeline, so  *)
(* that without Redis the lists are left as they are, or deleted and not   *)
(* filled; without rows there is nothing to load.                          *)
StartupCommands ==
    /\ proc = "up" /\ boot = "commands"
    /\ boot' = "http" /\ BootOnly
    /\ isSyncing' = FALSE
    /\ loaded' \in {TRUE, client[current] = "ready"}
    /\ UNCHANGED <<listening, work, ending, fate, nFault>>

ListenHttp ==
    /\ proc = "up" /\ boot = "http"
    /\ boot' = "running" /\ BootOnly
    /\ UNCHANGED <<listening, work, sync, ending, fate, nFault>>

\* bootstrap().catch: process.exit(1); a signalled process stays stopped.
ExitOnFailedStart ==
    /\ proc = "up" /\ boot = "failed"
    /\ proc' = IF signalled THEN "stopped" ELSE "down"
    /\ Gone

\* restart: unless-stopped
Restart ==
    /\ proc = "down"
    /\ proc' = "up"
    /\ UNCHANGED <<redisVars, listening, work, sync, ending, signalled, nFault>>

StartStep == ConnectDatabase \/ GetRedis \/ (\E p \in Port : ListenPort(p))
             \/ StartupSync \/ StartupCommands \/ ListenHttp \/ ExitOnFailedStart
-----------------------------------------------------------------------------
(* Devices, and what nobody awaits.                                        *)
DeviceConnects(s) ==
    /\ proc = "up"
    /\ PortOf[s] \in listening
    /\ s \notin open \cup updating
    /\ open' = open \cup {s}
    /\ UNCHANGED <<redisVars, listening, updating, interval, sync, ending, fate, nFault>>

DeviceLeaves(s) ==
    /\ proc = "up"
    /\ s \in open
    /\ open' = open \ {s}
    /\ updating' = updating \cup {s}
    /\ UNCHANGED <<redisVars, listening, interval, sync, ending, fate, nFault>>

UpdateEnds(s) ==
    /\ proc = "up"
    /\ s \in updating
    /\ updating' = updating \ {s}
    /\ doomed' = (doomed \/ client[current] # "ready")
    /\ UNCHANGED <<redisVars, listening, open, interval, sync, stop, waited, fate, nFault>>

Tick ==
    /\ proc = "up" /\ boot \in {"sync", "commands", "http", "running"}
    /\ interval = "idle"
    /\ interval' = "redis"
    /\ UNCHANGED <<redisVars, listening, open, updating, sync, ending, fate, nFault>>

IntervalRedis ==
    /\ proc = "up"
    /\ interval = "redis" /\ client[current] = "ready"
    /\ interval' = "database"
    /\ loaded' = TRUE
    /\ UNCHANGED <<redisVars, listening, open, updating, isSyncing, ending, fate, nFault>>

(* handleFiveMinuteSync awaits none of its syncs: nobody catches what they *)
(* reject.  The pipeline of the command sync may have been cut.            *)
Caught == doomed   \* mutant: the interval catches what its syncs throw
Unhandled == TRUE

IntervalRejects ==
    /\ proc = "up"
    /\ interval = "redis" /\ client[current] # "ready"
    /\ interval' = "idle"
    /\ doomed' = Unhandled
    /\ loaded' \in {loaded, FALSE}
    /\ UNCHANGED <<redisVars, listening, open, updating, isSyncing, stop, waited, fate, nFault>>

(* The upserts need PostgreSQL only; a query that $disconnect cuts off     *)
(* rejects, a later one connects again.                                    *)
IntervalRows ==
    /\ proc = "up"
    /\ interval = "database"
    /\ interval' = "idle"
    /\ doomed' \in IF stop = "no" THEN {doomed} ELSE {doomed, TRUE}
    /\ UNCHANGED <<redisVars, listening, open, updating, sync, stop, waited, fate, nFault>>

IntervalStep == IntervalRedis \/ IntervalRejects \/ IntervalRows

Die ==
    /\ proc = "up" /\ doomed
    /\ proc' = IF signalled THEN "stopped" ELSE "down"
    /\ Gone
-----------------------------------------------------------------------------
(* The stop.                                                               *)
Signal ==
    /\ proc = "up" /\ boot \in {"sync", "commands", "http", "running"}
    /\ ~signalled
    /\ signalled' = TRUE
    /\ stop' = "quit"
    /\ UNCHANGED <<redisVars, listening, work, sync, waited, doomed, proc, nFault>>

Quit ==
    /\ proc = "up" /\ stop = "quit"
    /\ QuitClient
    /\ stop' = "servers"
    /\ UNCHANGED <<listening, work, sync, waited, doomed, fate, nFault>>

\* A hook that throws makes Nest exit with status 1.
QuitRefused ==
    /\ proc = "up" /\ stop = "quit"
    /\ client[current] = "end"
    /\ proc' = "stopped"
    /\ Gone

StopAllServers ==
    /\ proc = "up" /\ stop = "servers"
    /\ listening' = {}
    /\ stop' = "draining"
    /\ UNCHANGED <<redisVars, work, sync, waited, doomed, fate, nFault>>

\* server.close calls back when the server's last connection has ended.
NotAwaited == TRUE   \* mutant: stopAllServers does not await its promises
Drained == open = {}

ServersClosed ==
    /\ proc = "up" /\ stop = "draining"
    /\ Drained
    /\ stop' = "syncs"
    /\ UNCHANGED <<redisVars, listening, work, sync, waited, doomed, fate, nFault>>

\* Only the startup sync sets isSyncing.
AwaitsInterval == interval # "idle"   \* mutant: waits for the other sync
AwaitsStartup == isSyncing

AwaitSync ==
    /\ proc = "up" /\ stop = "syncs"
    /\ IF AwaitsStartup /\ waited < MaxWaits
       THEN waited' = waited + 1 /\ stop' = stop
       ELSE waited' = waited /\ stop' = "kill"
    /\ UNCHANGED <<redisVars, listening, work, sync, doomed, fate, nFault>>

Kill ==
    /\ proc = "up" /\ stop = "kill"
    /\ proc' = "stopped"
    /\ Gone

StopStep == Quit \/ QuitRefused \/ StopAllServers \/ ServersClosed \/ AwaitSync \/ Kill
-----------------------------------------------------------------------------
RedisGoes(h) == /\ Fault
                /\ RedisFails(h)
                /\ UNCHANGED <<listening, work, sync, ending, fate>>
RedisComes(h) == /\ RedisReturns(h)
                 /\ UNCHANGED <<listening, work, sync, ending, fate, nFault>>
ClientStep(c) == /\ proc = "up"
                 /\ Reconnect(c)
                 /\ UNCHANGED <<listening, work, sync, ending, fate, nFault>>

Next == \/ StartStep \/ DatabaseRefuses \/ PortInUse \/ Restart
        \/ \E s \in Socket : DeviceConnects(s) \/ DeviceLeaves(s) \/ UpdateEnds(s)
        \/ Tick \/ IntervalStep \/ Die
        \/ Signal \/ StopStep
        \/ \E h \in Host : RedisGoes(h) \/ RedisComes(h)
        \/ \E c \in Client : ClientStep(c)

Spec == Init /\ [][Next]_vars

(* The event loop runs what is ready, the interval fires, Docker restarts  *)
(* a process that ended by itself, and the configured Redis likewise.  No  *)
(* device, operator or fault is obliged to do anything.                    *)
Fairness ==
    /\ WF_vars(StartStep) /\ WF_vars(StopStep) /\ WF_vars(Restart)
    /\ WF_vars(Tick) /\ WF_vars(IntervalStep) /\ WF_vars(Die)
    /\ \A s \in Socket : WF_vars(UpdateEnds(s))
    /\ WF_vars(RedisComes(configured))
    /\ \A c \in Client : WF_vars(ClientStep(c))

FairSpec == Spec /\ Fairness
=============================================================================
