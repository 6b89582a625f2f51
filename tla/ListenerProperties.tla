-------------------------- MODULE ListenerProperties --------------------------
(***************************************************************************)
(* What the listener must satisfy.  The invariants come first, as named    *)
(* conjuncts of the inductive invariant ListenerProofs uses, then action   *)
(* properties, then liveness, and last what the repository's documents     *)
(* say and the code does not do (checked as violations).                   *)
(***************************************************************************)
EXTENDS Listener

TcpType ==
    /\ sock \in [Socket -> {"none", "open", "destroyed", "closed"}]
    /\ metaImei \in [Socket -> Imei]
    /\ isAuthorized \in [Socket -> BOOLEAN]
    /\ connections \in Seq(Socket)

CacheType ==
    /\ imeiSet \in SUBSET Device
    /\ statusHash \in [Imei -> Entry \cup {None}]
    /\ cmdList \in [Device -> Seq(Command)]
    /\ redisQ \in Seq(Waiter)

DbType ==
    /\ devices \in SUBSET Device
    /\ deviceStatus \in [Imei -> Entry \cup {None}]
    /\ commandQueue \in SUBSET Command

SessionType ==
    /\ pc \in [Event -> {"idle", "sismember", "hget", "hset", "lrange", "write", "find",
                         "lrem", "delete", "done"}]
    /\ on \in [Event -> Socket \cup {None}]
    /\ rest \in [Event -> Seq(Packet)]
    /\ key \in [Event -> Imei]
    /\ cmds \in [Event -> Seq(Command)]
    /\ read \in [Event -> Entry \cup {None}]

CloseType ==
    /\ closing \in [Socket -> {"no", "hget", "hset", "done"}]
    /\ closeKey \in [Socket -> Imei]
    /\ closeRead \in [Socket -> Entry \cup {None}]

SyncType ==
    /\ imeiPc \in [Run -> {"idle", "findMany", "rows", "del", "sadd", "done"}]
    /\ snapImeis \in [Run -> SUBSET Device]
    /\ statusPc \in [Run -> {"idle", "findMany", "del", "hset", "hgetall", "upsert", "done"}]
    /\ snapStatus \in [Run -> [Imei -> Entry \cup {None}]]
    /\ cmdPc \in [Run -> {"idle", "findMany", "rows", "exec", "done"}]
    /\ snapRows \in [Run -> SUBSET Command]

LogType ==
    /\ request \in [Command -> {"none", "sent", "creating", "queued", "failed"}]
    /\ everRegistered \in SUBSET Device
    /\ claimed \in [Socket -> SUBSET Device]
    /\ attempted \in SUBSET Command
    /\ acked \in SUBSET Report
    /\ posted \in SUBSET Report
    /\ overlapped \in SUBSET Run
    /\ nData \in 0..MaxData /\ nTick \in 0..MaxTicks
    /\ nCrash \in 0..MaxCrashes /\ nChange \in 0..MaxChanges

(* Every variable has its type.                                            *)
TypeOK == /\ TcpType /\ CacheType /\ DbType /\ SessionType /\ CloseType
          /\ SyncType /\ LogType
-----------------------------------------------------------------------------
(* The registration of a device reaches a session through three copies     *)
(* (table, snapshot, Redis set) and two awaits.  Whatever the interleaving *)
(* and however often a socket changes its IMEI, isAuthorized is set only   *)
(* on one that has claimed a device some row has named.                    *)
AuthorizedWasRegistered ==
    \A s \in Socket : isAuthorized[s] => claimed[s] \cap everRegistered # {}

(* A device that was never registered, and that no socket claimed besides  *)
(* a registered one, leaves no trace beyond the status 'DISCONNECTED' of   *)
(* its closed sockets: it is never shown connected or located, in Redis or *)
(* in PostgreSQL, and nothing of it is forwarded.                          *)
Registered(d) == d \in everRegistered
VouchedFor(d) == \E s \in Socket : d \in claimed[s] /\ claimed[s] \cap everRegistered # {}
Stranger(d) == ~Registered(d) /\ ~VouchedFor(d)
LeavesNoTrace(e) == e = None \/ (e.status = "DISCONNECTED" /\ e.fix = None)
NoTraceOfUnregistered ==
    /\ \A d \in Imei : Stranger(d) =>
         LeavesNoTrace(statusHash[d]) /\ LeavesNoTrace(deviceStatus[d])
    /\ \A p \in posted : ~Stranger(p[2])

(* A queued command leaves table CommandQueue only after a session has     *)
(* handed it to its socket, unless GT06 cannot encode it: of the copies in *)
(* the table, in the Redis list and in the sessions, the durable one goes  *)
(* last.                                                                   *)
DeletedOnlyAfterAttempt ==
    \A c \in Command \ Oversized :
        request[c] = "queued" /\ c \notin commandQueue => c \in attempted

(* What makes those three inductive.  A running task has a socket, an item *)
(* and, in the command loop, a command, and it only names IMEIs that its   *)
(* socket has claimed.  Registrations flow from the table to the snapshots *)
(* to the set to the sockets, and a command in the loop has been tried.    *)
LoginPc == {"sismember", "lrange", "write", "find", "lrem", "delete"}
CommandPc == {"write", "find", "lrem", "delete"}

WellFormed(items, s) ==
    \A i \in DOMAIN items :
        /\ items[i].type = "LOGIN" => items[i].imei \in claimed[s]
        /\ items[i].type = "LOCATION" => items[i].fix \in Fix

SessionShape ==
    \A t \in Event :
        /\ pc[t] \notin {"idle", "done"} => rest[t] # <<>>
        /\ rest[t] # <<>> => on[t] \in Socket
        /\ pc[t] \in LoginPc => Head(rest[t]).type = "LOGIN"
        /\ pc[t] \in CommandPc => cmds[t] # <<>>
        /\ WellFormed(rest[t], on[t])

RegistrationFlow ==
    /\ devices \subseteq everRegistered
    /\ \A k \in Run : snapImeis[k] \subseteq everRegistered
    /\ imeiSet \subseteq everRegistered
    /\ AuthorizedWasRegistered

AttemptFlow ==
    /\ DeletedOnlyAfterAttempt
    /\ \A t \in Event : pc[t] \in CommandPc => Head(cmds[t]) \in attempted \cup Oversized

IndInv == TypeOK /\ SessionShape /\ RegistrationFlow /\ AttemptFlow

(* A Redis list holds commands for its device only, oldest first, and none *)
(* twice, although sessions remove from it while syncs rebuild it.         *)
ListsAreQueues ==
    \A d \in Device : /\ Ascending(cmdList[d])
                      /\ \A c \in ToSet(cmdList[d]) : TargetOf[c] = d /\ request[c] = "queued"

(* The map of connections never leads to a socket whose close was handled, *)
(* and leads to every other socket that does not share its id.  (Two ports *)
(* may see the same remote address and port, and the id is just those.)    *)
Tracked(s) == sock[s] \in {"open", "destroyed"}
ConnectionsAreLive ==
    /\ \A s \in ToSet(connections) : Tracked(s)
    /\ \A s \in Socket : Tracked(s) => \/ s \in ToSet(connections)
                                       \/ \E u \in Socket \ {s} : SameId(s, u)
-----------------------------------------------------------------------------
(* What makes the rest inductive.  Commands: everything that is in the     *)
(* table, in a snapshot, in a list or in the hands of a session was once   *)
(* queued, and nothing is tried that was neither queued nor sent at once.  *)
Queued == {c \in Command : request[c] = "queued"}
CommandFlow ==
    /\ commandQueue \subseteq Queued
    /\ \A k \in Run : snapRows[k] \subseteq Queued
    /\ \A t \in Event : ToSet(cmds[t]) \subseteq Queued
    /\ \A c \in attempted : request[c] \in {"sent", "queued"}
    /\ ListsAreQueues

(* Runs that sync at the same time are known to overlap; one that does not *)
(* overlap finds the set empty between its DEL and its SADD, and in its    *)
(* rows every command that is listed and still in the table.  Rows are     *)
(* kept only until the pipeline is through.                                *)
Listed(c) == c \in ToSet(cmdList[TargetOf[c]])
RunsAlone ==
    /\ \A k \in Run : k > nTick => k \notin Syncing
    /\ \A k, l \in Syncing : k # l => k \in overlapped
    /\ \A k \in Run : snapRows[k] # {} => cmdPc[k] \in {"rows", "exec"}
    /\ \A k \in Run \ overlapped :
         /\ imeiPc[k] = "sadd" => imeiSet = {}
         /\ cmdPc[k] \in {"rows", "exec"} =>
              \A c \in commandQueue : Listed(c) => c \in snapRows[k]

(* The map: at most one entry for an id, so that the entry a close deletes *)
(* is the one of its own socket, if that has one.                          *)
MapFlow ==
    /\ \A i, j \in DOMAIN connections : SameId(connections[i], connections[j]) => i = j
    /\ ConnectionsAreLive

(* Names: a session goes beyond the validation of a login only on a socket *)
(* that is authorised, it updates and has still to report on IMEIs that    *)
(* the socket has claimed, and a fix belongs to the event it came with.    *)
NamesItsDevice(t) ==
    /\ pc[t] \notin {"idle", "sismember", "done"} => isAuthorized[on[t]]
    /\ pc[t] \notin {"idle", "done"} =>
         /\ key[t] \in claimed[on[t]]
         /\ rest[t][1].type # "HEARTBEAT" => key[t] = rest[t][1].imei
    /\ rest[t] # <<>> => t <= nData
    /\ \A i \in DOMAIN rest[t] :
         /\ rest[t][i].imei \in claimed[on[t]]
         /\ rest[t][i].type = "LOCATION" => rest[t][i].fix[1] = t
SessionNames ==
    /\ \A s \in Socket : metaImei[s] \in claimed[s] \cup {None}
    /\ \A s \in Socket : isAuthorized[s] => metaImei[s] # None
    /\ \A t \in Event : NamesItsDevice(t)

(* Statuses: nothing but 'DISCONNECTED' is ever written for a stranger, in *)
(* any copy of the hash; a 'close' has read nothing else; and a POST is    *)
(* not about a stranger.                                                   *)
Clean(h) == \A d \in Imei : Stranger(d) => LeavesNoTrace(h[d])
CopiesClean ==
    Clean(statusHash) /\ Clean(deviceStatus) /\ \A k \in Run : Clean(snapStatus[k])
ClosesClean ==
    \A s \in Socket : /\ sock[s] # "closed" => closing[s] = "no" /\ closeRead[s] = None
                      /\ \A d \in Imei : Stranger(d) /\ closeKey[s] = d
                                         => LeavesNoTrace(closeRead[s])
PostsRegistered == \A p \in posted : ~Stranger(p[2])
StatusFlow == CopiesClean /\ ClosesClean /\ PostsRegistered

(* A position shown for an IMEI, in Redis or PostgreSQL, was sent under    *)
(* that IMEI and acknowledged, and so was every position forwarded.        *)
Shows(e, d) == e # None => e.fix = None \/ <<e.fix, d>> \in acked
FixesAreOwn ==
    /\ \A d \in Imei : Shows(statusHash[d], d) /\ Shows(deviceStatus[d], d)
    /\ posted \subseteq acked

(* A location is forwarded at most once, and those of one 'data' event in  *)
(* the order in which they came, although the batch is cut at its logins   *)
(* and goes on after every await: what a session has still to do lies      *)
(* behind what it has posted.                                              *)
ForwardedInOrder ==
    \A t \in Event : \A i \in DOMAIN rest[t] : rest[t][i].type = "LOCATION" =>
        /\ \A p \in posted : p[1][1] = t => p[1][2] < rest[t][i].fix[2]
        /\ \A j \in DOMAIN rest[t] : i < j /\ rest[t][j].type = "LOCATION"
                                   => rest[t][i].fix[2] < rest[t][j].fix[2]
-----------------------------------------------------------------------------
(* What makes those inductive: a position is acknowledged before a session *)
(* reads it, and belongs to its IMEI in every copy of a status.            *)
AckedBegun == \A p \in acked : p[1][1] <= nData
OwnItems(items) ==
    \A i \in DOMAIN items :
        /\ items[i].type = "LOCATION" => <<items[i].fix, items[i].imei>> \in acked
        /\ items[i].type # "LOCATION" => items[i].fix = None
SessionFixes ==
    \A t \in Event : /\ OwnItems(rest[t])
                     /\ pc[t] = "hset" => Shows(read[t], key[t])
CloseFixes == \A s \in Socket : Shows(closeRead[s], closeKey[s])
SnapshotFixes == \A k \in Run, d \in Imei : Shows(snapStatus[k][d], d)
FixFlow == /\ AckedBegun /\ FixesAreOwn
           /\ SessionFixes /\ CloseFixes /\ SnapshotFixes

(* Only Gt06Service.processData authorises and has anything left to do.    *)
Gt06Sessions ==
    /\ \A s \in Socket : isAuthorized[s] => ProtocolOf[s] = "GT06"
    /\ \A t \in Event : rest[t] # <<>> => ProtocolOf[on[t]] = "GT06"

FlowInv == /\ CommandFlow /\ RunsAlone /\ MapFlow /\ SessionNames
           /\ StatusFlow /\ FixFlow /\ Gt06Sessions /\ ForwardedInOrder
-----------------------------------------------------------------------------
(* An IMEI sync that overlaps with no other run leaves behind the table it *)
(* has read, and nothing survives of what Redis had before.                *)
SyncReplacesSet ==
    [][\A k \in Run \ overlapped :
          imeiPc[k] = "sadd" /\ imeiPc'[k] = "done" /\ nCrash' = nCrash
          => imeiSet' = snapImeis[k]]_vars

(* A queued command that has reached Redis stays there until a session     *)
(* that holds it takes it out, although syncs rebuild the list from rows   *)
(* they have read before: only the pipeline of a run that overlaps with    *)
(* another one, or is cut, may lose it (until the next sync).              *)
Held(c) == \E t \in Event : pc[t] = "lrem" /\ Head(cmds[t]) = c
ListedStays ==
    [][\A c \in commandQueue : Listed(c) /\ ~Listed(c)' =>
          \/ Held(c)
          \/ nCrash' # nCrash
          \/ \E k \in overlapped : cmdPc[k] = "exec" /\ cmdPc'[k] = "done"]_vars

(* The whole listener, crashes and overlapping syncs included, implements  *)
(* the delivery of commands that CommandDelivery specifies.                *)
RowState == [c \in Command |-> IF c \in commandQueue THEN "pending"
                               ELSE IF request[c] = "queued" THEN "deleted" ELSE "absent"]
Delivery == INSTANCE CommandDelivery WITH row <- RowState, tried <- attempted
ImplementsDelivery == Delivery!Spec

(* What the code promises of an acknowledged location (AckedIsForwarded is *)
(* more): one that arrives on an authorised socket is in the hands of its  *)
(* session, and leaves them only by being forwarded, or with the whole     *)
(* batch, for one of three reasons.                                        *)
InHand(p) == \E i \in DOMAIN rest[p[1][1]] :
                /\ rest[p[1][1]][i].type = "LOCATION"
                /\ <<rest[p[1][1]][i].fix, rest[p[1][1]][i].imei>> = p
BatchDropped(t) == Reject(t) \/ DeleteMissing(t) \/ Crash \/ Outage
AcceptedIsForwarded ==
    [][\A p \in acked' :
          /\ p \notin acked /\ isAuthorized[on'[p[1][1]]] => InHand(p)'
          /\ InHand(p) /\ isAuthorized[on[p[1][1]]] /\ ~InHand(p)'
             => p \in posted' \/ BatchDropped(p[1][1])]_vars

(* Under FairSpec: every task that a 'data' event starts comes to its end, *)
(* whatever happens to its socket in the meantime.                         *)
SessionsEnd == \A t \in Event : pc[t] \notin {"idle", "done"} ~> pc[t] = "done"

(* Under FairSpec: so does every status update that a 'close' starts, and  *)
(* every socket that is torn down gets its 'close'.                        *)
ClosesEnd ==
    \A s \in Socket : sock[s] = "destroyed"
                      ~> sock[s] = "closed" /\ closing[s] \in {"no", "done"}

(* Under FairSpec: the process always gets through its startup sync again, *)
(* with devices already talking to it.                                     *)
StartupCompletes == []<>Running
-----------------------------------------------------------------------------
(* What the documents say.                                                 *)

Quiet(d) ==
    /\ \A s \in Socket : d \in claimed[s] => sock[s] \in {"none", "closed"}
                                              /\ closing[s] \in {"no", "done"}
    /\ \A t \in Event : pc[t] \notin {"idle", "done"} => d \notin claimed[on[t]]

(* prompt.md:275 calls devices:status the live device status: a device     *)
(* without a connection, and with nothing in progress, is not CONNECTED.   *)
NoGhostSession ==
    \A d \in Device : Quiet(d) /\ statusHash[d] # None => statusHash[d].status = "DISCONNECTED"

(* README.md:244, "Login packet -> Extract IMEI, validate device in        *)
(* database": a device that is in the database is not turned away.         *)
RegisteredNotRejected ==
    [][\A t \in Event : Reject(t) => Item(t).imei \notin devices]_vars

(* What holds of it: before the startup sync has filled the set, and while *)
(* a sync is between its DEL and its SADD, the set may lack a device; at   *)
(* any other time one that is always in the database is not turned away.   *)
Rebuilding == imeiPc[0] # "done" \/ \E k \in Run : imeiPc[k] = "sadd"
RejectedOnlyRebuilding(d) ==
    [][\A t \in Event : Reject(t) /\ Item(t).imei = d => Rebuilding]_vars

(* README.md:244 again: only a device that was validated is shown          *)
(* connected, and nothing else is forwarded.                               *)
OnlyValidatedShown ==
    /\ \A d \in Device \ everRegistered : LeavesNoTrace(statusHash[d])
    /\ \A p \in posted : p[2] \in everRegistered

(* README.md:246-248: data is validated, transformed, forwarded, and then  *)
(* acknowledged: a location acknowledged to a registered device that has   *)
(* sent its login is forwarded.                                            *)
AckedIsForwarded ==
    \A p \in Fix \X Device : p \in acked ~> p \in posted
=============================================================================
