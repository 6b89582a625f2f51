--------------------------- MODULE RedisConnection ---------------------------
(***************************************************************************)
(* ConnectionManagerService and RedisStarter: how a starting process gets  *)
(* its Redis client, and what becomes of that client while Redis comes and *)
(* goes.  A start first tries the configured host with client 1.  If that  *)
(* fails it gives client 1 up, has the operating system start a Redis on   *)
(* this machine, and tries again with client 2, which, unlike client 1,    *)
(* stops reconnecting after RetryLimit attempts.                           *)
(*                                                                         *)
(* The steps of a start are the values of boot; "failed" is a start whose  *)
(* promise has been rejected.                                              *)
(***************************************************************************)
EXTENDS Naturals, FiniteSets

CONSTANTS
    Systems,      \* the operating systems the process may find itself on
    RetryLimit,   \* reconnections client 2 tries in an outage (10 in the code)
    MaxPolls      \* polls of waitForRedis (15 in the code)

ASSUME SystemsAssumption == Systems \subseteq {"windows", "linux", "macos", "unknown"}
ASSUME RetryLimitAssumption == RetryLimit \in Nat \ {0}
ASSUME MaxPollsAssumption == MaxPolls \in Nat \ {0}

Host == {"localhost", "redis"}
Client == {1, 2}
ClientStatus == {"none", "ready", "reconnecting", "end"}
RedisBoot == {"connect", "start", "verify", "reconnect"}
Boot == {"database", "listen", "sync", "commands", "http", "running", "failed"} \cup RedisBoot

VARIABLES
    configured,   \* REDIS_HOST
    os,           \* OSIdentifier.identify().type
    up,           \* up[h]: a Redis answers on host h
    boot,         \* the next step of the start
    method,       \* the start method RedisStarter tries next
    polls,        \* polls of waitForRedis that found nothing so far
    client,       \* client[c]: the status of the c-th client of this process
    current,      \* redisClient
    retries       \* attempts of client 2 since it lost its connection

redisVars == <<configured, os, up, boot, method, polls, client, current, retries>>
settings == <<configured, os>>

\* The start methods RedisStarter knows for an operating system.
Methods == [windows |-> 4, linux |-> 4, macos |-> 2, unknown |-> 0]

\* disconnect() stops the reconnecting of the client whose connect() failed.
StillReconnecting(c) == [client EXCEPT ![c] = "reconnecting"]  \* mutant: no disconnect()
Disconnected(c) == [client EXCEPT ![c] = "end"]
-----------------------------------------------------------------------------
(* initializeRedis: connect() is settled by the first attempt.             *)
ConnectFirst ==
    /\ boot = "connect"
    /\ current' = 1
    /\ IF up[configured]
       THEN client' = [client EXCEPT ![1] = "ready"] /\ boot' = "listen"
       ELSE client' = Disconnected(1) /\ boot' = "start"
    /\ UNCHANGED <<settings, up, method, polls, retries>>

(* RedisStarter.start, one method: its check fails, or its command fails,  *)
(* or it reports success, with a Redis that answers by then or not.        *)
MethodFails ==
    /\ boot = "start"
    /\ method <= Methods[os]
    /\ method' = method + 1
    /\ UNCHANGED <<settings, up, boot, polls, client, current, retries>>

MethodStarts ==
    /\ boot = "start"
    /\ method <= Methods[os]
    /\ boot' = "verify" /\ method' = 1
    /\ up' \in {up, [up EXCEPT !["localhost"] = TRUE]}
    /\ UNCHANGED <<settings, polls, client, current, retries>>

NoMethodLeft ==
    /\ boot = "start"
    /\ method > Methods[os]
    /\ boot' = "failed" /\ method' = 1
    /\ UNCHANGED <<settings, up, polls, client, current, retries>>

(* waitForRedis polls localhost, whatever host is configured, and start    *)
(* returns after the last poll too.                                        *)
Verified(n) == up["localhost"] \/ n = MaxPolls

Poll ==
    /\ boot = "verify"
    /\ IF Verified(polls + 1)
       THEN boot' = "reconnect" /\ polls' = 0
       ELSE boot' = "verify" /\ polls' = polls + 1
    /\ UNCHANGED <<settings, up, method, client, current, retries>>

(* attemptRedisAutoStart: the second client, and the last chance.          *)
ConnectSecond ==
    /\ boot = "reconnect"
    /\ current' = 2
    /\ IF up[configured]
       THEN client' = [client EXCEPT ![2] = "ready"] /\ boot' = "listen"
       ELSE client' = [client EXCEPT ![2] = "reconnecting"] /\ boot' = "failed"
    /\ UNCHANGED <<settings, up, method, polls, retries>>

RedisStep == ConnectFirst \/ MethodFails \/ MethodStarts \/ NoMethodLeft \/ Poll \/ ConnectSecond
-----------------------------------------------------------------------------
(* A client that lost its connection tries again: client 1 for ever,       *)
(* client 2 until its retryStrategy returns null.                          *)
Limited == {2}
GivesUp(c, n) == c \in Limited /\ n > RetryLimit

Reconnect(c) ==
    /\ client[c] = "reconnecting"
    /\ IF up[configured]
       THEN client' = [client EXCEPT ![c] = "ready"] /\ retries' = 0
       ELSE /\ retries' = IF c \in Limited THEN retries + 1 ELSE retries
            /\ client' = IF GivesUp(c, retries') THEN [client EXCEPT ![c] = "end"] ELSE client
    /\ UNCHANGED <<settings, up, boot, method, polls, current>>

(* Redis itself: it stops answering, and comes back.                       *)
RedisFails(h) ==
    /\ up[h]
    /\ up' = [up EXCEPT ![h] = FALSE]
    /\ client' = [c \in Client |-> IF h = configured /\ client[c] = "ready"
                                   THEN "reconnecting" ELSE client[c]]
    /\ UNCHANGED <<settings, boot, method, polls, current, retries>>

RedisReturns(h) ==
    /\ ~up[h]
    /\ up' = [up EXCEPT ![h] = TRUE]
    /\ UNCHANGED <<settings, boot, method, polls, client, current, retries>>

(* quit(), which an ended client refuses.                                  *)
QuitClient ==
    /\ client[current] # "end"
    /\ client' = [client EXCEPT ![current] = "end"]
    /\ UNCHANGED <<settings, up, boot, method, polls, current, retries>>
=============================================================================
