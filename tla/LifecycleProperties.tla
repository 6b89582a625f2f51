------------------------ MODULE LifecycleProperties ------------------------
(***************************************************************************)
(* What the start and the stop of the process promise, and what brings it  *)
(* back.                                                                   *)
(***************************************************************************)
EXTENDS Lifecycle

(* Every variable has a value of its type.                                 *)
RedisTypeOK ==
    /\ configured \in Host /\ os \in Systems
    /\ up \in [Host -> BOOLEAN]
    /\ boot \in Boot /\ method \in 1..5 /\ polls \in Nat /\ polls < MaxPolls
    /\ client \in [Client -> ClientStatus] /\ current \in Client
    /\ retries \in 0..(RetryLimit + 1)

ProcessTypeOK ==
    /\ listening \subseteq Port /\ open \subseteq Socket /\ updating \subseteq Socket
    /\ interval \in {"idle", "redis", "database"}
    /\ stop \in Stop /\ waited \in 0..MaxWaits
    /\ proc \in {"up", "down", "stopped"}
    /\ nFault \in 0..MaxFaults

FlagsTypeOK == {isSyncing, loaded, doomed, signalled} \subseteq BOOLEAN

TypeOK == RedisTypeOK /\ ProcessTypeOK /\ FlagsTypeOK

(* The client that failed to connect is dead by the time its successor is  *)
(* in use: it can neither reconnect beside it nor hold a connection nobody *)
(* quits (disconnect() before RedisStarter.start).                         *)
OneClient == current = 2 => client[1] = "end"

(* A client that was connected on the first try is never lost: an outage   *)
(* of any length leaves it reconnecting, and only the shutdown ends it.    *)
FirstClientLasts ==
    client[1] = "end" => \/ boot \in {"start", "verify", "reconnect", "failed"}
                         \/ current = 2
                         \/ stop \notin {"no", "quit"}

(* Once the servers are closed nobody is let in, and the process does not  *)
(* go on to its own end before the last device has left.                   *)
DrainedBeforeEnd == stop \in {"syncs", "kill"} => open = {} /\ listening = {}

(* The process does not kill itself in the middle of its startup sync      *)
(* before the wait of beforeApplicationShutdown has run out, although that *)
(* sync starts, fails and ends beside the shutdown.                        *)
StartupSyncAwaited == stop = "kill" /\ waited < MaxWaits => ~isSyncing
-----------------------------------------------------------------------------
(* The strengthening that is inductive.  What it adds is when things have  *)
(* not happened yet: client 2 is made by the last step of RedisConnection  *)
(* and counts attempts only while it is alive; a shutdown begins only in a *)
(* process whose ports are open, so that no port opens during one.         *)
SecondClientIsLast ==
    /\ boot \in {"database"} \cup RedisBoot => client[2] = "none"
    /\ client[2] # "end" => retries <= RetryLimit

FirstClientGivenUp == boot \in {"start", "verify", "reconnect"} => client[1] = "end"

ShutdownAfterPorts ==
    /\ stop # "no" => signalled
    /\ stop # "no" => boot \in {"sync", "commands", "http", "running", "failed"}
    /\ /\ boot \in {"sync", "commands", "http", "running"}
       /\ stop \in {"no", "quit", "servers"}
       => listening = Port
    /\ stop \in {"draining", "syncs", "kill"} => listening = {}

LifecycleInv ==
    /\ TypeOK
    /\ OneClient /\ FirstClientLasts /\ DrainedBeforeEnd
    /\ SecondClientIsLast /\ FirstClientGivenUp /\ ShutdownAfterPorts
-----------------------------------------------------------------------------
(* The process comes back: as long as nobody stops it, it serves again and *)
(* again, with all ports open, the command lists loaded and Redis          *)
(* connected, after any outage of Redis or PostgreSQL, any failed start,   *)
(* and a start that did not notice that its command sync failed: the next  *)
(* interval loads the lists.  When client 2 has given up, what brings the  *)
(* process back is the interval too: its unhandled rejection ends it, and  *)
(* the restart connects anew.                                              *)
Serving == /\ proc = "up" /\ boot = "running"
           /\ client[current] = "ready"
           /\ loaded /\ listening = Port
Recovers == ([]~signalled) => []<>Serving

(* A signalled process ends, also while devices stay connected: nobody     *)
(* makes them leave, but the interval goes on and fails on the closed      *)
(* Redis client.                                                           *)
ShutdownEnds == signalled ~> proc = "stopped"
=============================================================================
