------------------------- MODULE ListenerCommandProofs -------------------------
(***************************************************************************)
(* Proofs about commands, on top of IndInv: where a command may be         *)
(* (CommandFlow), that the lists in Redis are queues and that the listener *)
(* implements CommandDelivery; and about the syncs that copy commands and  *)
(* IMEIs into Redis, as long as no other overlaps with them (RunsAlone).   *)
(***************************************************************************)
EXTENDS ListenerProofs

(* A list of commands that once were queued stays one when it loses some.  *)
LEMMA RemoveFirstKeepsQueue ==
    ASSUME NEW s \in Seq(Command), Ascending(s), NEW e
    PROVE  /\ Ascending(RemoveFirst(s, e))
           /\ ToSet(RemoveFirst(s, e)) \subseteq ToSet(s)
<1>1. CASE RemoveFirst(s, e) = s
  BY <1>1
<1>2. CASE \E i \in DOMAIN s : RemoveFirst(s, e) = RemoveAt(s, i)
  <2>1. PICK i \in DOMAIN s : RemoveFirst(s, e) = RemoveAt(s, i)
    BY <1>2
  <2> DEFINE r == RemoveAt(s, i)
  <2>2. /\ DOMAIN r = 1..(Len(s) - 1) /\ DOMAIN s = 1..Len(s) /\ Len(s) \in Nat
        /\ \A j \in DOMAIN r : /\ j \in DOMAIN s /\ j + 1 \in DOMAIN s
                               /\ r[j] = IF j < i THEN s[j] ELSE s[j + 1]
    BY RemoveAtElements, LenProperties
  <2> HIDE DEF r
  <2>3. ToSet(r) \subseteq ToSet(s)
    BY <2>2 DEF ToSet
  <2>4. ASSUME NEW j \in DOMAIN r, NEW k \in DOMAIN r, j < k
        PROVE  r[j] < r[k]
    <3>1. PICK m \in {j, j + 1} : m \in DOMAIN s /\ r[j] = s[m] /\ (m = j <=> j < i)
      BY <2>2
    <3>2. PICK n \in {k, k + 1} : n \in DOMAIN s /\ r[k] = s[n] /\ (n = k <=> k < i)
      BY <2>2
    <3>3. m < n
      BY <2>2, <2>4, <3>1, <3>2
    <3> QED BY <3>1, <3>2, <3>3 DEF Ascending
  <2> QED BY <2>1, <2>3, <2>4 DEF Ascending, r
<1> QED BY <1>1, <1>2, RemoveFirstElements

LEMMA EmptyQueue == Ascending(<<>>) /\ ToSet(<<>>) = {}
  BY EmptySeq DEF Ascending, ToSet

LEMMA TailInQueue ==
    ASSUME NEW s \in Seq(Command), s # <<>>
    PROVE  Head(s) \in ToSet(s) /\ ToSet(Tail(s)) \subseteq ToSet(s)
  BY TailElements DEF ToSet

(* The elements of a list are commands.                                    *)
LEMMA ListedCommands ==
    ASSUME IndInv, NEW d \in Device
    PROVE  cmdList[d] \in Seq(Command) /\ ToSet(cmdList[d]) \subseteq Command
<1>1. cmdList[d] \in Seq(Command)
  BY DEF IndInv, TypeOK, CacheType
<1>2. \A i \in DOMAIN cmdList[d] : cmdList[d][i] \in Command
  BY <1>1, ElementOfSeq, LenProperties
<1> QED BY <1>1, <1>2 DEF ToSet

(* What every step does to commands, at most.                              *)
ListsKept ==
    \A d \in Device :
      \/ cmdList'[d] = cmdList[d]
      \/ /\ Ascending(cmdList'[d])
         /\ \A c \in ToSet(cmdList'[d]) : c \in Queued /\ TargetOf[c] = d
CommandEffect ==
    /\ \A c \in Command : request[c] \in {"sent", "queued"} => request'[c] = request[c]
    /\ commandQueue' \subseteq Queued'
    /\ \A k \in Run : snapRows'[k] \subseteq Queued'
    /\ \A t \in Event : ToSet(cmds'[t]) \subseteq Queued'
    /\ \A c \in attempted' : c \in attempted \/ request'[c] \in {"sent", "queued"}
    /\ ListsKept

(* That much does not disturb CommandFlow.                                 *)
LEMMA EffectKeepsFlow ==
    ASSUME IndInv, CommandFlow, CommandEffect
    PROVE  CommandFlow'
<1>1. attempted \subseteq Command
  BY DEF IndInv, TypeOK, LogType
<1>2. \A c \in Queued : c \in Queued' /\ request'[c] = "queued"
  BY DEF Queued, CommandEffect
<1>3. ASSUME NEW d \in Device
      PROVE  /\ Ascending(cmdList'[d])
             /\ \A c \in ToSet(cmdList'[d]) : TargetOf[c] = d /\ request'[c] = "queued"
  <2>1. CASE cmdList'[d] = cmdList[d]
    <3>1. /\ Ascending(cmdList[d])
          /\ \A c \in ToSet(cmdList[d]) : TargetOf[c] = d /\ request[c] = "queued"
      BY Zenon DEF CommandFlow, ListsAreQueues
    <3>2. \A c \in ToSet(cmdList[d]) : c \in Queued
      BY <3>1, ListedCommands DEF Queued
    <3> QED BY <1>2, <2>1, <3>1, <3>2, Zenon
  <2>2. CASE /\ Ascending(cmdList'[d])
             /\ \A c \in ToSet(cmdList'[d]) : c \in Queued /\ TargetOf[c] = d
    BY <1>2, <2>2, Zenon
  <2> QED BY <2>1, <2>2 DEF CommandEffect, ListsKept
<1>4. ListsAreQueues'
  BY <1>3, Zenon DEF ListsAreQueues, Ascending, ToSet
<1>5. \A c \in attempted' : request'[c] \in {"sent", "queued"}
  <2> TAKE c \in attempted'
  <2>1. CASE c \in attempted
    BY <1>1, <2>1 DEF CommandFlow, CommandEffect
  <2> QED BY <2>1 DEF CommandEffect, ListsKept
<1> QED BY <1>4, <1>5 DEF CommandFlow, CommandEffect
-----------------------------------------------------------------------------
(* The abstract steps of CommandDelivery.                                  *)
DeliveryStep == [Delivery!Next]_<<RowState, attempted>>

(* Trying commands that were queued, and deleting rows of tried ones, is   *)
(* Serve; with none of both it is a stutter.                               *)
LEMMA Serves ==
    ASSUME IndInv, CommandFlow,
           NEW trying \in SUBSET Queued, NEW gone \in SUBSET ((attempted \cup Oversized) \cap commandQueue),
           commandQueue' = commandQueue \ gone, attempted' = attempted \cup trying,
           \A c \in Command : request'[c] = "queued" <=> request[c] = "queued"
    PROVE  DeliveryStep
<1>1. trying \in SUBSET Delivery!Stored
  BY DEF Queued, Delivery!Stored, RowState
<1>2. gone \in SUBSET Delivery!Deletable
  BY DEF Delivery!Deletable, RowState, IndInv, TypeOK, DbType
<1>3. \A c \in Command : RowState'[c] = IF c \in gone THEN "deleted" ELSE RowState[c]
  <2> TAKE c \in Command
  <2>1. c \in commandQueue => request[c] = "queued"
    BY DEF CommandFlow, Queued
  <2> QED BY <2>1 DEF RowState
<1>4. RowState' = [c \in Command |-> IF c \in gone THEN "deleted" ELSE RowState[c]]
  BY <1>3 DEF RowState
<1>5. Delivery!Serve(trying, gone)
  BY <1>4 DEF Delivery!Serve
<1> QED BY <1>1, <1>2, <1>5 DEF DeliveryStep, Delivery!Next

LEMMA ServesWithoutDeleting ==
    ASSUME IndInv, CommandFlow, NEW trying \in SUBSET Queued,
           commandQueue' = commandQueue, attempted' = attempted \cup trying,
           request' = request
    PROVE  DeliveryStep
<1>1. {} \in SUBSET ((attempted \cup Oversized) \cap commandQueue) /\ commandQueue' = commandQueue \ {}
  OBVIOUS
<1>2. \A c \in Command : request'[c] = "queued" <=> request[c] = "queued"
  OBVIOUS
<1> QED BY <1>1, <1>2, Serves, Zenon

(* Most steps leave commands alone.                                        *)
CommandsSame == /\ request' = request /\ commandQueue' = commandQueue
                /\ snapRows' = snapRows /\ cmds' = cmds /\ attempted' = attempted
                /\ cmdList' = cmdList
LEMMA SameCommands ==
    ASSUME IndInv, CommandFlow, CommandsSame
    PROVE  CommandEffect /\ DeliveryStep
<1>1. CommandEffect
  BY DEF CommandsSame, CommandEffect, ListsKept, CommandFlow, Queued
<1>2. DeliveryStep
  <2>1. {} \in SUBSET Queued /\ attempted' = attempted \cup {}
    BY DEF CommandsSame
  <2> QED BY <2>1, ServesWithoutDeleting, Zenon DEF CommandsSame
<1> QED BY <1>1, <1>2

LEMMA SocketCommands ==
    ASSUME NEW s \in Socket, SocketStep(s)
    PROVE  CommandsSame
  BY DEF SocketStep, Connect, DataEvent, SocketEnds, CloseEvent, CloseRead, CloseWrite,
    CommandsSame, cache, db, session, syncs, history

LEMMA SyncCommands ==
    ASSUME \/ BootStep \/ Tick
           \/ \E k \in Run : \/ ImeisRead(k) \/ ImeisDel(k) \/ ImeisAdd(k)
                             \/ StatusSnapshot(k) \/ StatusUpsert(k)
                             \/ ImeisAnswered(k) \/ RowsAnswered(k)
    PROVE  CommandsSame
  BY DEF BootStep, BootStatusRead, BootStatusDel, BootStatusSet, Tick, ImeisRead, ImeisDel,
    ImeisAdd, ImeisAnswered, RowsAnswered, StatusSnapshot, StatusUpsert, CommandsSame, cache, db, session, syncs, history

LEMMA TaskCommands ==
    ASSUME NEW t \in Event,
           \/ Authorize(t) \/ Reject(t) \/ StatusRead(t) \/ LoginStatusWrite(t)
           \/ DataStatusWrite(t) \/ WriteCallback(t) \/ FindCommand(t)
    PROVE  CommandsSame
  BY DEF Authorize, Reject, StatusRead, LoginStatusWrite, DataStatusWrite, StatusWritten,
    WriteCallback, FindCommand, CommandsSame, cache, db, session, syncs, history

LEMMA DeviceTableCommands ==
    ASSUME NEW d \in Device, RegisterDevice(d) \/ RemoveDevice(d)
    PROVE  CommandsSame
  BY DEF RegisterDevice, RemoveDevice, CommandsSame, cache, db, session, syncs, history
-----------------------------------------------------------------------------
(* A session takes the list of its device, and tries its first command.    *)
LEMMA GetCommandsStep ==
    ASSUME IndInv, CommandFlow, NEW t \in Event, GetCommands(t)
    PROVE  CommandEffect /\ DeliveryStep
<1> DEFINE q == cmdList[Item(t).imei]
<1>1. Item(t).imei \in Device
  BY RunningTask DEF GetCommands, IndInv, SessionShape, LoginPc, Item
<1>2. q \in Seq(Command) /\ ToSet(q) \subseteq Queued
  BY <1>1, ListedCommands DEF CommandFlow, ListsAreQueues, Queued
<1>3. /\ request' = request /\ commandQueue' = commandQueue /\ snapRows' = snapRows
      /\ cmdList' = cmdList
  BY DEF GetCommands, cache, db, syncs
<1>4. CASE cmds' = cmds /\ attempted' = attempted
  BY <1>3, <1>4, SameCommands DEF CommandsSame
<1>5. CASE q # <<>> /\ cmds' = [cmds EXCEPT ![t] = q] /\ attempted' = attempted \cup ({Head(q)} \ Oversized)
  <2>1. Head(q) \in Queued
    BY <1>2, <1>5, TailInQueue
  <2> HIDE DEF q
  <2>2. \A u \in Event : ToSet(cmds'[u]) \subseteq Queued
    <3> TAKE u \in Event
    <3>1. cmds'[u] = IF u = t THEN q ELSE cmds[u]
      BY <1>5 DEF IndInv, TypeOK, SessionType
    <3> QED BY <1>2, <3>1 DEF CommandFlow
  <2>3. CommandEffect
    BY <1>3, <1>5, <2>1, <2>2 DEF CommandEffect, ListsKept, CommandFlow, Queued
  <2>4. DeliveryStep
    <3>1. {Head(q)} \ Oversized \in SUBSET Queued
      BY <2>1
    <3> QED BY <1>3, <1>5, <3>1, ServesWithoutDeleting, Zenon
  <2> QED BY <2>3, <2>4
<1> QED BY <1>4, <1>5 DEF GetCommands, StartSend

LEMMA RemoveFromListStep ==
    ASSUME IndInv, CommandFlow, NEW t \in Event, RemoveFromList(t)
    PROVE  CommandEffect /\ DeliveryStep
<1> DEFINE d == Item(t).imei
           q == RemoveFirst(cmdList[d], Head(cmds[t]))
<1>1. d \in Device
  BY RunningTask DEF RemoveFromList, IndInv, SessionShape, LoginPc, Item
<1>2. /\ request' = request /\ commandQueue' = commandQueue /\ snapRows' = snapRows
      /\ cmds' = cmds /\ attempted' = attempted
      /\ cmdList' = [cmdList EXCEPT ![d] = q]
  BY DEF RemoveFromList, cache, db, syncs, history
<1>3. /\ Ascending(cmdList[d])
      /\ \A c \in ToSet(cmdList[d]) : c \in Queued /\ TargetOf[c] = d
  BY <1>1, ListedCommands DEF CommandFlow, ListsAreQueues, Queued
<1>4. Ascending(q) /\ ToSet(q) \subseteq ToSet(cmdList[d])
  BY <1>1, <1>3, ListedCommands, RemoveFirstKeepsQueue
<1> HIDE DEF q, d
<1>5. \A e \in Device : cmdList'[e] = IF e = d THEN q ELSE cmdList[e]
  BY <1>1, <1>2 DEF IndInv, TypeOK, CacheType
<1>6. CommandEffect
  BY <1>2, <1>3, <1>4, <1>5 DEF CommandEffect, ListsKept, CommandFlow, Queued
<1>7. DeliveryStep
  <2>1. {} \in SUBSET Queued /\ attempted' = attempted \cup {}
    BY <1>2
  <2> QED BY <1>2, <2>1, ServesWithoutDeleting, Zenon
<1> QED BY <1>6, <1>7

(* The row of a command that was tried goes, the next command is tried.    *)
LEMMA DeleteRowStep ==
    ASSUME IndInv, CommandFlow, NEW t \in Event, DeleteRow(t)
    PROVE  CommandEffect /\ DeliveryStep
<1> DEFINE c == Head(cmds[t])
           left == Tail(cmds[t])
           trying == IF left = <<>> THEN {} ELSE {Head(left)} \ Oversized
<1>1. cmds[t] \in Seq(Command) /\ cmds[t] # <<>> /\ ToSet(cmds[t]) \subseteq Queued
  BY DEF DeleteRow, IndInv, TypeOK, SessionType, SessionShape, CommandPc, CommandFlow
<1>2. left \in Seq(Command) /\ ToSet(left) \subseteq Queued
  BY <1>1, TailInQueue, HeadTailProperties
<1>3. trying \subseteq Queued
  BY <1>2, TailInQueue
<1>4. c \in attempted \cup Oversized /\ c \in commandQueue
  BY DEF DeleteRow, IndInv, AttemptFlow, CommandPc
<1>5. /\ request' = request /\ snapRows' = snapRows /\ cmdList' = cmdList
      /\ commandQueue' = commandQueue \ {c}
      /\ cmds' = [cmds EXCEPT ![t] = left]
      /\ attempted' = attempted \cup trying
  <2>1. request' = request /\ snapRows' = snapRows /\ cmdList' = cmdList
    BY DEF DeleteRow, cache, syncs
  <2>2. commandQueue' = commandQueue \ {c}
    BY DEF DeleteRow
  <2>3. CASE left = <<>>
    BY <2>1, <2>2, <2>3 DEF DeleteRow
  <2>4. CASE left # <<>>
    BY <2>1, <2>2, <2>4 DEF DeleteRow, StartSend
  <2> QED BY <2>1, <2>2, <2>3, <2>4
<1> HIDE DEF c, left, trying
<1>6. CommandEffect
  <2>1. \A u \in Event : cmds'[u] = IF u = t THEN left ELSE cmds[u]
    BY <1>5 DEF IndInv, TypeOK, SessionType
  <2>2. \A u \in Event : ToSet(cmds'[u]) \subseteq Queued
    BY <1>2, <2>1 DEF CommandFlow
  <2> QED BY <1>3, <1>5, <2>2 DEF CommandEffect, ListsKept, CommandFlow, Queued
<1>7. DeliveryStep
  <2>1. {c} \in SUBSET ((attempted \cup Oversized) \cap commandQueue) /\ trying \in SUBSET Queued
    BY <1>3, <1>4
  <2>2. \A e \in Command : request'[e] = "queued" <=> request[e] = "queued"
    BY <1>5
  <2> QED BY <1>5, <2>1, <2>2, Serves, Zenon
<1> QED BY <1>6, <1>7

LEMMA DeleteMissingStep ==
    ASSUME IndInv, CommandFlow, NEW t \in Event, DeleteMissing(t)
    PROVE  CommandEffect /\ DeliveryStep
<1>1. /\ request' = request /\ commandQueue' = commandQueue /\ snapRows' = snapRows
      /\ cmds' = [cmds EXCEPT ![t] = <<>>] /\ attempted' = attempted /\ cmdList' = cmdList
  BY DEF DeleteMissing, cache, db, syncs, history
<1>2. CommandEffect
  <2>1. \A u \in Event : cmds'[u] = IF u = t THEN <<>> ELSE cmds[u]
    BY <1>1 DEF IndInv, TypeOK, SessionType
  <2>2. \A u \in Event : ToSet(cmds'[u]) \subseteq Queued
    BY <2>1, EmptyQueue DEF CommandFlow
  <2> QED BY <1>1, <2>2 DEF CommandEffect, ListsKept, CommandFlow, Queued
<1>3. DeliveryStep
  <2>1. {} \in SUBSET Queued /\ attempted' = attempted \cup {}
    BY <1>1
  <2> QED BY <1>1, <2>1, ServesWithoutDeleting, Zenon
<1> QED BY <1>2, <1>3

(* A command sync takes the rows of the table, and makes lists of them.    *)
LEMMA RowsReadStep ==
    ASSUME IndInv, CommandFlow, NEW k \in Run, RowsRead(k)
    PROVE  CommandEffect /\ DeliveryStep
<1>1. /\ request' = request /\ commandQueue' = commandQueue
      /\ snapRows' = [snapRows EXCEPT ![k] = commandQueue]
      /\ cmds' = cmds /\ attempted' = attempted /\ cmdList' = cmdList
  BY DEF RowsRead, cache, db, session, history
<1>2. CommandEffect
  <2>1. \A j \in Run : snapRows'[j] = IF j = k THEN commandQueue ELSE snapRows[j]
    BY <1>1 DEF IndInv, TypeOK, SyncType
  <2> QED BY <1>1, <2>1 DEF CommandEffect, ListsKept, CommandFlow, Queued
<1>3. DeliveryStep
  <2>1. {} \in SUBSET Queued /\ attempted' = attempted \cup {}
    BY <1>1
  <2> QED BY <1>1, <2>1, ServesWithoutDeleting, Zenon
<1> QED BY <1>2, <1>3

(* What a pipeline, whole or cut, leaves of a list.                        *)
LEMMA PipelineQueues ==
    ASSUME IndInv, CommandFlow, NEW deleted, NEW pushed \in SUBSET Queued,
           PipelineEffect(deleted, pushed), NEW d \in Device
    PROVE  \/ cmdList'[d] = cmdList[d]
           \/ /\ Ascending(cmdList'[d])
              /\ \A c \in ToSet(cmdList'[d]) : c \in Queued /\ TargetOf[c] = d
<1>1. PICK lists \in [Device -> SeqOf(pushed, Cardinality(pushed))] :
        /\ \A e \in Device : Lists(lists[e], RowsOf(pushed, e))
        /\ cmdList' = [e \in Device |-> Refilled(deleted, e, lists[e])]
  BY DEF PipelineEffect
<1>2. cmdList'[d] = cmdList[d] \/ cmdList'[d] = lists[d]
  BY <1>1 DEF Refilled
<1>3. ToSet(lists[d]) = RowsOf(pushed, d) /\ Ascending(lists[d])
  BY <1>1, Zenon DEF Lists
<1>4. \A c \in RowsOf(pushed, d) : c \in Queued /\ TargetOf[c] = d
  BY DEF RowsOf
<1> QED BY <1>2, <1>3, <1>4, Zenon

LEMMA PipelineExecStep ==
    ASSUME IndInv, CommandFlow, NEW k \in Run, PipelineExec(k)
    PROVE  CommandEffect /\ DeliveryStep
<1>1. /\ request' = request /\ commandQueue' = commandQueue
      /\ snapRows' = [snapRows EXCEPT ![k] = {}]
      /\ cmds' = cmds /\ attempted' = attempted
  BY DEF PipelineExec, db, session, history
<1>2. snapRows[k] \in SUBSET Queued
  BY DEF CommandFlow
<1>3. CommandEffect
  <2>1. \A j \in Run : snapRows'[j] \subseteq snapRows[j]
    BY <1>1 DEF IndInv, TypeOK, SyncType
  <2>2. PipelineEffect(DevicesOf(snapRows[k]), snapRows[k])
    BY DEF PipelineExec
  <2> QED BY <1>1, <1>2, <2>1, <2>2, PipelineQueues DEF CommandEffect, ListsKept, CommandFlow, Queued
<1>4. DeliveryStep
  <2>1. {} \in SUBSET Queued /\ attempted' = attempted \cup {}
    BY <1>1
  <2> QED BY <1>1, <2>1, ServesWithoutDeleting, Zenon
<1> QED BY <1>3, <1>4
-----------------------------------------------------------------------------
(* A request is tried at once, or stored, and never both.                  *)
LEMMA UntriedRequest ==
    ASSUME CommandFlow, NEW c \in Command, request[c] \in {"none", "creating"}
    PROVE  RowState[c] = "absent" /\ c \notin attempted
  BY DEF CommandFlow, Queued, RowState

LEMMA SendNowStep ==
    ASSUME IndInv, CommandFlow, NEW c \in Command, SendNow(c)
    PROVE  CommandEffect /\ DeliveryStep
<1>1. /\ request[c] = "none" /\ request' = [request EXCEPT ![c] = "sent"]
      /\ commandQueue' = commandQueue /\ snapRows' = snapRows
      /\ cmds' = cmds /\ cmdList' = cmdList
      /\ attempted' \in {attempted, attempted \cup {c}}
  BY DEF SendNow, cache, db, session, syncs
<1>2. \A e \in Command : request'[e] = IF e = c THEN "sent" ELSE request[e]
  BY <1>1 DEF IndInv, TypeOK, LogType
<1>3. Queued' = Queued
  BY <1>1, <1>2 DEF Queued
<1>4. CommandEffect
  BY <1>1, <1>2, <1>3 DEF CommandEffect, ListsKept, CommandFlow
<1>5. RowState' = RowState
  BY <1>1, <1>2 DEF RowState
<1>6. CASE attempted' = attempted
  BY <1>4, <1>5, <1>6 DEF DeliveryStep
<1>7. CASE attempted' = attempted \cup {c}
  <2>1. Delivery!TryDirectly(c)
    BY <1>1, <1>5, <1>7, UntriedRequest DEF Delivery!TryDirectly
  <2> QED BY <1>4, <2>1 DEF DeliveryStep, Delivery!Next
<1> QED BY <1>1, <1>6, <1>7

LEMMA CreateRowStep ==
    ASSUME IndInv, CommandFlow, NEW c \in Command, CreateRow(c)
    PROVE  CommandEffect /\ DeliveryStep
<1>1. /\ request[c] = "creating" /\ request' = [request EXCEPT ![c] = "queued"]
      /\ commandQueue' = commandQueue \cup {c} /\ snapRows' = snapRows
      /\ cmds' = cmds /\ attempted' = attempted /\ cmdList' = cmdList
  BY DEF CreateRow, cache, session, syncs, history
<1>2. \A e \in Command : request'[e] = IF e = c THEN "queued" ELSE request[e]
  BY <1>1 DEF IndInv, TypeOK, LogType
<1>3. Queued' = Queued \cup {c}
  BY <1>2 DEF Queued
<1>4. CommandEffect
  BY <1>1, <1>2, <1>3 DEF CommandEffect, ListsKept, CommandFlow
<1>5. RowState' = [RowState EXCEPT ![c] = "pending"]
  BY <1>1, <1>2 DEF RowState
<1>6. Delivery!Store(c)
  BY <1>1, <1>5, UntriedRequest DEF Delivery!Store
<1> QED BY <1>4, <1>6 DEF DeliveryStep, Delivery!Next

(* Whatever happens to a request that is not settled, short of storing it. *)
LEMMA UnsettledRequests ==
    ASSUME IndInv, CommandFlow,
           \A c \in Command : \/ request'[c] = request[c]
                              \/ /\ request[c] \in {"none", "creating"}
                                 /\ request'[c] \in {"creating", "failed"},
           commandQueue' = commandQueue, attempted' = attempted, ListsKept,
           \A k \in Run : snapRows'[k] \subseteq snapRows[k],
           \A t \in Event : ToSet(cmds'[t]) \subseteq ToSet(cmds[t])
    PROVE  CommandEffect /\ DeliveryStep
<1>1. Queued' = Queued
  BY DEF Queued
<1>2. CommandEffect
  BY <1>1 DEF CommandEffect, ListsKept, CommandFlow
<1>3. DeliveryStep
  <2>1. {} \in SUBSET Queued /\ attempted' = attempted \cup {}
    OBVIOUS
  <2>2. {} \in SUBSET ((attempted \cup Oversized) \cap commandQueue) /\ commandQueue' = commandQueue \ {}
    OBVIOUS
  <2>3. \A c \in Command : request'[c] = "queued" <=> request[c] = "queued"
    OBVIOUS
  <2> QED BY <2>1, <2>2, <2>3, Serves, Zenon
<1> QED BY <1>2, <1>3

LEMMA StartQueueingStep ==
    ASSUME IndInv, CommandFlow, NEW c \in Command, StartQueueing(c)
    PROVE  CommandEffect /\ DeliveryStep
<1>1. /\ request[c] = "none" /\ request' = [request EXCEPT ![c] = "creating"]
      /\ commandQueue' = commandQueue /\ snapRows' = snapRows
      /\ cmds' = cmds /\ attempted' = attempted /\ cmdList' = cmdList
  BY DEF StartQueueing, cache, db, session, syncs, history
<1>2. \A e \in Command : request'[e] = IF e = c THEN "creating" ELSE request[e]
  BY <1>1 DEF IndInv, TypeOK, LogType
<1> QED BY <1>1, <1>2, UnsettledRequests DEF ListsKept

(* A connection that breaks cuts the pipeline that is being served.        *)
LEMMA BrokenQueues ==
    ASSUME IndInv, CommandFlow, ConnectionBreaks
    PROVE  ListsKept
<1>1. CASE UNCHANGED cmdList
  BY <1>1 DEF ListsKept
<1>2. ASSUME NEW k \in Run, PipelineCut(snapRows[k])
      PROVE  ListsKept
  <2>1. \A pushed \in SUBSET snapRows[k] : pushed \in SUBSET Queued
    BY DEF CommandFlow
  <2>2. \E deleted, pushed : pushed \in SUBSET snapRows[k] /\ PipelineEffect(deleted, pushed)
    BY <1>2 DEF PipelineCut, UpTo
  <2> QED BY <2>1, <2>2, PipelineQueues DEF ListsKept
<1> QED BY <1>1, <1>2 DEF ConnectionBreaks

LEMMA FaultStep ==
    ASSUME IndInv, CommandFlow, Crash \/ Outage
    PROVE  CommandEffect /\ DeliveryStep
<1>1. commandQueue' = commandQueue /\ attempted' = attempted
  BY DEF Crash, Outage, db, history
<1>2. ListsKept
  <2>1. ConnectionBreaks
    BY DEF Crash, Outage, RedisOutage, DatabaseOutage, ConnectionBreaks
  <2> QED BY <2>1, BrokenQueues
<1>3. \A c \in Command : \/ request'[c] = request[c]
                         \/ request[c] = "creating" /\ request'[c] = "failed"
  BY DEF Crash, Outage, RedisOutage, DatabaseOutage
<1>4. \A k \in Run : snapRows'[k] \subseteq snapRows[k]
  BY DEF Crash, Outage, RedisOutage, DatabaseOutage
<1>5. \A t \in Event : cmds'[t] = cmds[t] \/ cmds'[t] = <<>>
  <2>1. CASE Crash
    BY <2>1 DEF Crash
  <2>2. CASE Outage
    <3>1. PICK failed \in SUBSET Event : TasksFail(failed)
      BY <2>2 DEF Outage, RedisOutage, DatabaseOutage
    <3> QED BY <3>1 DEF TasksFail
  <2> QED BY <2>1, <2>2
<1>6. \A t \in Event : ToSet(cmds'[t]) \subseteq ToSet(cmds[t])
  BY <1>5, EmptyQueue
<1> QED BY <1>1, <1>2, <1>3, <1>4, <1>6, UnsettledRequests
-----------------------------------------------------------------------------
(* Every step of the listener.                                             *)
LEMMA NextCommands ==
    ASSUME IndInv, CommandFlow, [Next]_vars
    PROVE  CommandFlow' /\ DeliveryStep
<1>1. CommandEffect /\ DeliveryStep
  <2>1. CASE \E s \in Socket : SocketStep(s)
    BY <2>1, SocketCommands, SameCommands
  <2>2. CASE \E t \in Event : TaskStep(t)
    BY <2>2, TaskCommands, SameCommands, GetCommandsStep, RemoveFromListStep, DeleteRowStep,
      DeleteMissingStep DEF TaskStep
  <2>3. CASE BootStep \/ Tick
    BY <2>3, SyncCommands, SameCommands
  <2>4. CASE \E k \in Run : SyncStep(k)
    BY <2>4, SyncCommands, SameCommands, RowsReadStep, PipelineExecStep DEF SyncStep
  <2>5. CASE \E c \in Command : ApiStep(c)
    BY <2>5, SendNowStep, StartQueueingStep, CreateRowStep DEF ApiStep
  <2>6. CASE Environment
    BY <2>6, FaultStep, DeviceTableCommands, SameCommands DEF Environment
  <2>7. CASE UNCHANGED vars
    BY <2>7, SameCommands DEF CommandsSame, vars, cache, db, session, syncs, history
  <2> QED BY <2>1, <2>2, <2>3, <2>4, <2>5, <2>6, <2>7 DEF Next
<1> QED BY <1>1, EffectKeepsFlow

LEMMA InitCommands ==
    ASSUME Init
    PROVE  CommandFlow /\ Delivery!Init
<1>1. /\ commandQueue = InitialRows /\ attempted = {}
      /\ \A c \in Command : request[c] = IF c \in InitialRows THEN "queued" ELSE "none"
      /\ InitialRows \subseteq Command
  BY CommandAssumption DEF Init
<1>2. /\ \A k \in Run : snapRows[k] = {}
      /\ \A t \in Event : cmds[t] = <<>>
      /\ \A d \in Device : cmdList[d] = <<>>
  BY DEF Init
<1>3. CommandFlow
  BY <1>1, <1>2, EmptyQueue DEF CommandFlow, ListsAreQueues, Queued
<1>4. Delivery!Init
  BY <1>1 DEF Delivery!Init, RowState
<1> QED BY <1>3, <1>4

(* Where commands can be, in every reachable state.                        *)
THEOREM CommandFlowInvariant == Spec => []CommandFlow
<1>1. CommandFlow /\ IndInv /\ [Next]_vars => CommandFlow'
  BY NextCommands
<1> QED BY <1>1, InitCommands, IndInvInvariant, PTL DEF Spec

(* The Redis list of a device is always a queue of commands for it, oldest *)
(* first, none twice, although sessions remove from it (LREM) while syncs  *)
(* rebuild it (DEL and RPUSH).                                             *)
THEOREM ListsAlwaysQueues == Spec => []ListsAreQueues
<1>1. CommandFlow => ListsAreQueues
  BY DEF CommandFlow
<1> QED BY <1>1, CommandFlowInvariant, PTL

(* The listener, with its crashes, outages and overlapping syncs,          *)
(* implements CommandDelivery: every request is tried at once or stored,   *)
(* and a stored one is tried before its row is deleted.                    *)
THEOREM ListenerImplementsDelivery == Spec => ImplementsDelivery
<1>1. Init => Delivery!Init
  BY InitCommands
<1>2. IndInv /\ CommandFlow /\ [Next]_vars => [Delivery!Next]_<<RowState, attempted>>
  BY NextCommands DEF DeliveryStep<1> QED
  BY <1>1, <1>2, IndInvInvariant, CommandFlowInvariant, PTL
  DEF Spec, ImplementsDelivery, Delivery!Spec
-----------------------------------------------------------------------------
(* Removing a command from a list adds none.                               *)
LEMMA RemovedFromSet ==
    ASSUME NEW s \in Seq(Command), NEW e
    PROVE  ToSet(RemoveFirst(s, e)) \subseteq ToSet(s)
<1>1. ASSUME NEW i \in DOMAIN s
      PROVE  ToSet(RemoveAt(s, i)) \subseteq ToSet(s)
  <2> DEFINE r == RemoveAt(s, i)
  <2>1. \A j \in DOMAIN r : /\ j \in DOMAIN s /\ j + 1 \in DOMAIN s
                            /\ r[j] = IF j < i THEN s[j] ELSE s[j + 1]
    BY RemoveAtElements, LenProperties
  <2> HIDE DEF r
  <2>2. ToSet(r) \subseteq ToSet(s)
    BY <2>1 DEF ToSet
  <2> QED BY <2>2 DEF r
<1> QED BY <1>1, RemoveFirstElements

(* A cut pipeline has deleted some lists, and pushed some of its rows; what*)
(* is listed afterwards was listed before or is one of those rows.         *)
LEMMA CutEffect ==
    ASSUME NEW rows, PipelineCut(rows)
    PROVE  \E deleted, pushed : pushed \in SUBSET rows /\ PipelineEffect(deleted, pushed)
  BY DEF PipelineCut, UpTo

LEMMA PipelineAdds ==
    ASSUME NEW deleted, NEW pushed, PipelineEffect(deleted, pushed),
           NEW c \in Command, Listed(c)'
    PROVE  Listed(c) \/ c \in pushed
<1>1. PICK lists \in [Device -> SeqOf(pushed, Cardinality(pushed))] :
        /\ \A e \in Device : Lists(lists[e], RowsOf(pushed, e))
        /\ cmdList' = [e \in Device |-> Refilled(deleted, e, lists[e])]
  BY DEF PipelineEffect
<1>2. TargetOf[c] \in Device
  BY CommandAssumption
<1>3. \/ cmdList'[TargetOf[c]] = cmdList[TargetOf[c]]
      \/ cmdList'[TargetOf[c]] = lists[TargetOf[c]]
  BY <1>1, <1>2 DEF Refilled
<1>4. ToSet(lists[TargetOf[c]]) = RowsOf(pushed, TargetOf[c])
  BY <1>1, <1>2, Zenon DEF Lists
<1> QED BY <1>3, <1>4 DEF Listed, RowsOf

(* The syncs.                                                              *)
SyncsSame ==
    /\ imeiPc' = imeiPc /\ cmdPc' = cmdPc /\ snapRows' = snapRows
    /\ overlapped' = overlapped /\ nTick' = nTick
    /\ imeiSet' = imeiSet
    /\ \A c \in commandQueue' : Listed(c)' => c \in commandQueue /\ Listed(c)

LEMMA SameSyncs ==
    ASSUME RunsAlone, SyncsSame
    PROVE  RunsAlone'
  BY DEF RunsAlone, Syncing, SyncsSame

LEMMA SocketSyncs ==
    ASSUME NEW s \in Socket, SocketStep(s)
    PROVE  SyncsSame
  BY DEF SocketStep, Connect, DataEvent, SocketEnds, CloseEvent, CloseRead, CloseWrite,
    SyncsSame, Listed, cache, db, syncs, history, counts

LEMMA TaskSyncs ==
    ASSUME IndInv, NEW t \in Event, TaskStep(t)
    PROVE  SyncsSame
<1>1. /\ imeiPc' = imeiPc /\ cmdPc' = cmdPc /\ snapRows' = snapRows
      /\ overlapped' = overlapped /\ nTick' = nTick /\ imeiSet' = imeiSet
      /\ commandQueue' \subseteq commandQueue
  BY DEF TaskStep, Authorize, Reject, StatusRead, LoginStatusWrite, DataStatusWrite,
    StatusWritten, GetCommands, WriteCallback, FindCommand, RemoveFromList, DeleteRow,
    DeleteMissing, cache, db, syncs, history, counts
<1>2. \A c \in Command : Listed(c)' => Listed(c)
  <2>1. CASE cmdList' = cmdList
    BY <2>1 DEF Listed
  <2>2. CASE RemoveFromList(t)
    <3> DEFINE d == Item(t).imei
               q == RemoveFirst(cmdList[d], Head(cmds[t]))
    <3>1. d \in Device
      BY <2>2, RunningTask DEF RemoveFromList, IndInv, SessionShape, LoginPc, Item
    <3>2. cmdList[d] \in Seq(Command) /\ cmdList' = [cmdList EXCEPT ![d] = q]
      BY <2>2, <3>1, ListedCommands DEF RemoveFromList
    <3>3. ToSet(q) \subseteq ToSet(cmdList[d])
      BY <3>2, RemovedFromSet
    <3> HIDE DEF q, d
    <3>4. \A e \in Device : cmdList'[e] = IF e = d THEN q ELSE cmdList[e]
      BY <3>1, <3>2 DEF IndInv, TypeOK, CacheType
    <3> QED BY <3>3, <3>4, CommandAssumption DEF Listed
  <2> QED
    BY <2>1, <2>2 DEF TaskStep, Authorize, Reject, StatusRead, LoginStatusWrite,
      DataStatusWrite, StatusWritten, GetCommands, WriteCallback, FindCommand, DeleteRow,
      DeleteMissing, cache
<1> QED BY <1>1, <1>2 DEF SyncsSame, IndInv, TypeOK, DbType

(* A new row is not listed yet.                                            *)
LEMMA ApiSyncs ==
    ASSUME IndInv, CommandFlow, NEW e \in Command, ApiStep(e)
    PROVE  SyncsSame
<1>1. /\ imeiPc' = imeiPc /\ cmdPc' = cmdPc /\ snapRows' = snapRows
      /\ overlapped' = overlapped /\ nTick' = nTick /\ imeiSet' = imeiSet /\ cmdList' = cmdList
  BY DEF ApiStep, SendNow, StartQueueing, CreateRow, cache, syncs, history, counts
<1>2. CASE commandQueue' = commandQueue
  BY <1>1, <1>2 DEF SyncsSame, Listed
<1>3. CASE CreateRow(e)
  <2>1. TargetOf[e] \in Device /\ request[e] = "creating" /\ commandQueue' = commandQueue \cup {e}
    BY <1>3, CommandAssumption DEF CreateRow
  <2>2. \A c \in ToSet(cmdList[TargetOf[e]]) : request[c] = "queued"
    BY <2>1, Zenon DEF CommandFlow, ListsAreQueues
  <2>3. ~Listed(e)
    BY <2>1, <2>2 DEF Listed
  <2> QED BY <1>1, <2>1, <2>3 DEF SyncsSame, Listed
<1> QED BY <1>2, <1>3 DEF ApiStep, SendNow, StartQueueing, db

(* A step of one sync, which either goes on or is over.                    *)
RunAlone(k) ==
    /\ imeiPc[k] = "sadd" => imeiSet = {}
    /\ cmdPc[k] \in {"rows", "exec"} =>
          \A c \in commandQueue : Listed(c) => c \in snapRows[k]

LEMMA OneSync ==
    ASSUME IndInv, RunsAlone, NEW k \in Syncing,
           \A l \in Run \ {k} : /\ imeiPc'[l] = imeiPc[l] /\ cmdPc'[l] = cmdPc[l]
                                /\ snapRows'[l] = snapRows[l],
           overlapped' = overlapped, nTick' = nTick, commandQueue' = commandQueue,
           snapRows'[k] # {} => cmdPc'[k] \in {"rows", "exec"},
           k \notin overlapped => RunAlone(k)'
    PROVE  RunsAlone'
<1>1. Syncing' \subseteq Syncing
  BY DEF Syncing
<1>2. ASSUME NEW l \in Run \ overlapped
      PROVE  RunAlone(l)'
  <2>1. CASE l = k
    BY <1>2, <2>1
  <2>2. CASE l # k
    <3>1. l \notin Syncing
      BY <1>2, <2>2 DEF RunsAlone
    <3> QED BY <2>2, <3>1 DEF RunAlone, Syncing
  <2> QED BY <2>1, <2>2
<1> QED BY <1>1, <1>2 DEF RunsAlone, RunAlone

LEMMA SyncSyncs ==
    ASSUME IndInv, RunsAlone, NEW k \in Run, SyncStep(k)
    PROVE  RunsAlone'
<1>0. /\ imeiPc \in [Run -> {"idle", "findMany", "rows", "del", "sadd", "done"}]
      /\ cmdPc \in [Run -> {"idle", "findMany", "rows", "exec", "done"}]
      /\ snapRows \in [Run -> SUBSET Command]
  BY DEF IndInv, TypeOK, SyncType
<1>1. CASE ImeisRead(k) \/ ImeisAnswered(k) \/ ImeisDel(k) \/ ImeisAdd(k)
  <2>1. /\ k \in Syncing /\ cmdPc' = cmdPc /\ snapRows' = snapRows
        /\ \A l \in Run \ {k} : imeiPc'[l] = imeiPc[l]
        /\ overlapped' = overlapped /\ nTick' = nTick /\ commandQueue' = commandQueue
        /\ cmdList' = cmdList
    BY <1>0, <1>1 DEF ImeisRead, ImeisAnswered, ImeisDel, ImeisAdd, Syncing, cache, db,
      history, counts
  <2>2. imeiPc'[k] = "sadd" => imeiSet' = {}
    BY <1>0, <1>1 DEF ImeisRead, ImeisAnswered, ImeisDel, ImeisAdd
  <2>3. k \notin overlapped => RunAlone(k)'
    BY <2>1, <2>2 DEF RunsAlone, RunAlone, Listed
  <2> QED BY <2>1, <2>3, OneSync DEF RunsAlone
<1>2. CASE StatusSnapshot(k) \/ StatusUpsert(k)
  <2>1. SyncsSame
    BY <1>2 DEF StatusSnapshot, StatusUpsert, SyncsSame, Listed, cache, db, history, counts
  <2> QED BY <2>1, SameSyncs
<1>3. CASE RowsRead(k)
  <2>1. /\ k \in Syncing /\ imeiPc' = imeiPc /\ imeiSet' = imeiSet /\ cmdList' = cmdList
        /\ \A l \in Run \ {k} : cmdPc'[l] = cmdPc[l] /\ snapRows'[l] = snapRows[l]
        /\ cmdPc'[k] = "rows" /\ snapRows'[k] = commandQueue
        /\ overlapped' = overlapped /\ nTick' = nTick /\ commandQueue' = commandQueue
    BY <1>0, <1>3 DEF RowsRead, Syncing, cache, db, history, counts
  <2>2. k \notin overlapped => RunAlone(k)'
    BY <2>1 DEF RunsAlone, RunAlone
  <2> QED BY <2>1, <2>2, OneSync
<1>4. CASE RowsAnswered(k)
  <2>1. /\ k \in Syncing /\ imeiPc' = imeiPc /\ imeiSet' = imeiSet /\ cmdList' = cmdList
        /\ cmdPc[k] = "rows" /\ snapRows' = snapRows
        /\ \A l \in Run \ {k} : cmdPc'[l] = cmdPc[l]
        /\ cmdPc'[k] = IF snapRows[k] = {} THEN "done" ELSE "exec"
        /\ overlapped' = overlapped /\ nTick' = nTick /\ commandQueue' = commandQueue
    BY <1>0, <1>4 DEF RowsAnswered, Syncing, cache, db, history, counts
  <2>2. k \notin overlapped => RunAlone(k)'
    BY <2>1 DEF RunsAlone, RunAlone, Listed
  <2> QED BY <2>1, <2>2, OneSync
<1>5. CASE PipelineExec(k)
  <2>1. /\ k \in Syncing /\ imeiPc' = imeiPc /\ imeiSet' = imeiSet
        /\ \A l \in Run \ {k} : cmdPc'[l] = cmdPc[l] /\ snapRows'[l] = snapRows[l]
        /\ cmdPc'[k] = "done" /\ snapRows'[k] = {}
        /\ overlapped' = overlapped /\ nTick' = nTick /\ commandQueue' = commandQueue
    BY <1>0, <1>5 DEF PipelineExec, Syncing, db, history, counts
  <2>2. k \notin overlapped => RunAlone(k)'
    BY <2>1 DEF RunsAlone, RunAlone
  <2> QED BY <2>1, <2>2, OneSync
<1> QED BY <1>1, <1>2, <1>3, <1>4, <1>5 DEF SyncStep

LEMMA TickSyncs ==
    ASSUME IndInv, RunsAlone, Tick
    PROVE  RunsAlone'
<1> DEFINE n == nTick + 1
<1>0. /\ imeiPc \in [Run -> {"idle", "findMany", "rows", "del", "sadd", "done"}]
      /\ cmdPc \in [Run -> {"idle", "findMany", "rows", "exec", "done"}]
      /\ nTick \in Nat /\ Run \subseteq Nat /\ n \in Run /\ n > nTick
  BY BoundAssumption DEF IndInv, TypeOK, SyncType, LogType, Run, Tick
<1>1. /\ imeiPc' = [imeiPc EXCEPT ![n] = "findMany"] /\ cmdPc' = [cmdPc EXCEPT ![n] = "findMany"]
      /\ nTick' = n /\ snapRows' = snapRows /\ cmdList' = cmdList /\ imeiSet' = imeiSet
      /\ commandQueue' = commandQueue
      /\ overlapped' = overlapped \cup (IF Syncing = {} THEN {} ELSE Syncing \cup {n})
  BY DEF Tick, cache, db
<1>2. n \notin Syncing
  BY <1>0 DEF RunsAlone
<1> HIDE DEF n
<1>3. \A l \in Run \ {n} : imeiPc'[l] = imeiPc[l] /\ cmdPc'[l] = cmdPc[l]
  BY <1>0, <1>1
<1>4. imeiPc'[n] = "findMany" /\ cmdPc'[n] = "findMany"
  BY <1>0, <1>1
<1>5. Syncing' = Syncing \cup {n}
  BY <1>0, <1>3, <1>4 DEF Syncing
<1>6. \A l \in Run : l > nTick' => l \notin Syncing'
  <2>1. \A l \in Run : l > n => l > nTick /\ l # n
    BY <1>0
  <2> QED BY <1>1, <1>5, <2>1 DEF RunsAlone
<1>7. \A k, l \in Syncing' : k # l => k \in overlapped'
  BY <1>1, <1>5
<1>8. \A k \in Run : snapRows'[k] # {} => cmdPc'[k] \in {"rows", "exec"}
  BY <1>0, <1>1, <1>2, <1>3 DEF RunsAlone, Syncing
<1>9. \A k \in Run \ overlapped' : RunAlone(k)'
  BY <1>1, <1>3, <1>4 DEF RunsAlone, RunAlone, Listed
<1> QED BY <1>6, <1>7, <1>8, <1>9 DEF RunsAlone, RunAlone

(* A crash stops every sync, and starts the one of the startup.            *)
LEMMA CrashSyncs ==
    ASSUME IndInv, RunsAlone, Crash
    PROVE  RunsAlone'
<1>0. /\ DOMAIN imeiPc = Run /\ DOMAIN cmdPc = Run /\ nTick \in Nat /\ Run \subseteq Nat
  BY BoundAssumption DEF IndInv, TypeOK, SyncType, LogType, Run
<1>1. /\ nTick' = nTick /\ \A k \in Run : snapRows'[k] = {}
      /\ \A k \in Run : imeiPc'[k] \in {"idle", "findMany", "done"}
      /\ \A k \in Run : cmdPc'[k] \in {"idle", "findMany", "done"}
      /\ \A k \in Run : k # 0 => imeiPc'[k] # "findMany" /\ cmdPc'[k] # "findMany"
  BY <1>0 DEF Crash, AfterCrash
<1>2. Syncing' \subseteq {0}
  BY <1>1 DEF Syncing
<1> QED BY <1>0, <1>1, <1>2 DEF RunsAlone

(* An outage ends the pipelines that wait, and may cut the first of them.  *)
LEMMA OutageSyncs ==
    ASSUME IndInv, CommandFlow, RunsAlone, Outage
    PROVE  RunsAlone'
<1>0. /\ cmdPc \in [Run -> {"idle", "findMany", "rows", "exec", "done"}]
      /\ snapRows \in [Run -> SUBSET Command] /\ commandQueue \in SUBSET Command
  BY DEF IndInv, TypeOK, SyncType, DbType
<1>1. /\ imeiPc' = imeiPc /\ imeiSet' = imeiSet /\ overlapped' = overlapped /\ nTick' = nTick
      /\ commandQueue' = commandQueue
  BY DEF Outage, db, history
<1>2. CASE DatabaseOutage
  <2>1. SyncsSame
    BY <1>1, <1>2 DEF DatabaseOutage, SyncsSame, Listed
  <2> QED BY <2>1, SameSyncs
<1>3. CASE RedisOutage
  <2>1. /\ \A k \in Run : cmdPc'[k] = IF cmdPc[k] = "exec" THEN "done" ELSE cmdPc[k]
        /\ \A k \in Run : snapRows'[k] = IF cmdPc[k] = "exec" THEN {} ELSE snapRows[k]
    BY <1>3 DEF RedisOutage
  <2>2. Syncing' \subseteq Syncing
    BY <1>0, <1>1, <2>1 DEF Syncing
  <2>3. ASSUME NEW k \in Run \ overlapped, cmdPc'[k] \in {"rows", "exec"},
               NEW c \in commandQueue, Listed(c)'
        PROVE  c \in snapRows'[k]
    <3>1. cmdPc[k] = "rows" /\ snapRows'[k] = snapRows[k]
      BY <1>0, <2>1, <2>3
    <3>2. Listed(c) => c \in snapRows[k]
      BY <2>3, <3>1 DEF RunsAlone
    <3>3. CASE UNCHANGED cmdList
      BY <2>3, <3>1, <3>2, <3>3 DEF Listed
    <3>4. ASSUME NEW m \in Run, PipelineCut(snapRows[m])
          PROVE  c \in snapRows[k]
      <4>1. PICK deleted, pushed : pushed \in SUBSET snapRows[m] /\ PipelineEffect(deleted, pushed)
        BY <3>4, CutEffect
      <4>2. Listed(c) \/ c \in snapRows[m]
        BY <1>0, <2>3, <4>1, CommandAssumption, PipelineAdds
      <4>3. c \in snapRows[m] => m = k
        <5>1. c \in snapRows[m] => m \in Syncing
          BY DEF RunsAlone, Syncing
        <5>2. k \in Syncing
          BY <3>1 DEF Syncing
        <5> QED BY <2>3, <5>1, <5>2 DEF RunsAlone
      <4> QED BY <3>2, <4>2, <4>3
    <3> QED BY <1>3, <3>1, <3>3, <3>4 DEF RedisOutage, ConnectionBreaks
  <2>4. \A k \in Run : snapRows'[k] # {} => cmdPc'[k] \in {"rows", "exec"}
    BY <1>0, <2>1 DEF RunsAlone
  <2> QED BY <1>1, <2>2, <2>3, <2>4 DEF RunsAlone
<1> QED BY <1>2, <1>3 DEF Outage

LEMMA NextAlone ==
    ASSUME IndInv, CommandFlow, RunsAlone, [Next]_vars
    PROVE  RunsAlone'
<1>1. CASE BootStep
  <2>1. SyncsSame
    BY <1>1 DEF BootStep, BootStatusRead, BootStatusDel, BootStatusSet, SyncsSame, Listed,
      cache, db, history, counts
  <2> QED BY <2>1, SameSyncs
<1>2. CASE \E d \in Device : RegisterDevice(d) \/ RemoveDevice(d)
  <2>1. SyncsSame
    BY <1>2 DEF RegisterDevice, RemoveDevice, SyncsSame, Listed, cache, syncs, history
  <2> QED BY <2>1, SameSyncs
<1>3. CASE UNCHANGED vars
  <2>1. SyncsSame
    BY <1>3 DEF vars, SyncsSame, Listed, cache, db, syncs, history, counts
  <2> QED BY <2>1, SameSyncs
<1> QED BY <1>1, <1>2, <1>3, SameSyncs, SocketSyncs, TaskSyncs, ApiSyncs, SyncSyncs,
          TickSyncs, CrashSyncs, OutageSyncs DEF Next, Environment

LEMMA InitAlone ==
    ASSUME Init
    PROVE  RunsAlone
<1>1. nTick = 0 /\ imeiSet = {} /\ Run \subseteq Nat
  BY BoundAssumption DEF Init, Run
<1>2. \A k \in Run : /\ imeiPc[k] = IF k = 0 THEN "findMany" ELSE "idle"
                     /\ cmdPc[k] = IF k = 0 THEN "findMany" ELSE "idle"
                     /\ snapRows[k] = {}
  BY DEF Init
<1>3. Syncing \subseteq {0}
  BY <1>2 DEF Syncing
<1>4. \A k \in Run : k > nTick => k \notin Syncing
  BY <1>1, <1>3
<1>5. \A k \in Run : imeiPc[k] # "sadd" /\ cmdPc[k] \notin {"rows", "exec"}
  BY <1>2
<1> QED BY <1>2, <1>3, <1>4, <1>5 DEF RunsAlone

(* Which runs overlap is known, and what one that does not may rely on.    *)
THEOREM RunsAloneInvariant == Spec => []RunsAlone
<1>1. RunsAlone /\ CommandFlow /\ IndInv /\ [Next]_vars => RunsAlone'
  BY NextAlone
<1> QED BY <1>1, InitAlone, IndInvInvariant, CommandFlowInvariant, PTL DEF Spec

(* Only SADD ends a sync that has deleted the set, and nothing was added   *)
(* in between.                                                             *)
LEMMA SyncEnds ==
    ASSUME IndInv, RunsAlone, [Next]_vars, NEW k \in Run \ overlapped, imeiPc[k] = "sadd",
           imeiPc'[k] = "done", nCrash' = nCrash
    PROVE  imeiSet' = snapImeis[k]
<1> USE DEF IndInv, TypeOK
<1>1. imeiPc' # imeiPc
  OBVIOUS
<1>2. \/ Tick \/ Crash
      \/ \E j \in Run : ImeisRead(j) \/ ImeisAnswered(j) \/ ImeisDel(j) \/ ImeisAdd(j)
  <2>1. ~(\E s \in Socket : SocketStep(s)) /\ ~(\E t \in Event : TaskStep(t))
    BY <1>1, SocketSyncs, TaskSyncs DEF SyncsSame
  <2>2. /\ ~BootStep /\ ~(\E c \in Command : ApiStep(c))
        /\ ~(\E j \in Run : StatusSnapshot(j) \/ StatusUpsert(j) \/ RowsRead(j)
                            \/ RowsAnswered(j) \/ PipelineExec(j))
    BY <1>1 DEF BootStep, BootStatusRead, BootStatusDel, BootStatusSet, ApiStep, SendNow,
      StartQueueing, CreateRow, StatusSnapshot, StatusUpsert, RowsRead, RowsAnswered,
      PipelineExec, syncs
  <2>3. ~Outage /\ ~(\E d \in Device : RegisterDevice(d) \/ RemoveDevice(d)) /\ ~UNCHANGED vars
    BY <1>1 DEF Outage, RegisterDevice, RemoveDevice, vars, syncs
  <2> QED BY <2>1, <2>2, <2>3 DEF Next, SyncStep, Environment
<1>3. imeiPc \in [Run -> {"idle", "findMany", "rows", "del", "sadd", "done"}]
  BY DEF SyncType
<1>4. ~Tick
  BY <1>3 DEF Tick
<1>5. ~Crash
  BY DEF Crash, LogType
<1>6. PICK j \in Run : ImeisRead(j) \/ ImeisAnswered(j) \/ ImeisDel(j) \/ ImeisAdd(j)
  BY <1>2, <1>4, <1>5
<1>7. j = k /\ ImeisAdd(k)
  BY <1>3, <1>6 DEF ImeisRead, ImeisAnswered, ImeisDel, ImeisAdd
<1>8. imeiSet = {}
  BY DEF RunsAlone
<1> QED BY <1>7, <1>8 DEF ImeisAdd

(* An IMEI sync that overlaps with no other run leaves in devices:imei:set *)
(* exactly the rows of table Device that it read, whatever else happens    *)
(* between its DEL and its SADD.                                           *)
THEOREM SyncAlwaysReplacesSet == Spec => SyncReplacesSet
<1>1. IndInv /\ RunsAlone /\ [Next]_vars
      => [\A k \in Run \ overlapped :
             imeiPc[k] = "sadd" /\ imeiPc'[k] = "done" /\ nCrash' = nCrash
             => imeiSet' = snapImeis[k]]_vars
  BY SyncEnds
<1> QED BY <1>1, RunsAloneInvariant, IndInvInvariant, PTL DEF Spec, SyncReplacesSet
-----------------------------------------------------------------------------
(* A device that is always in the table is in the rows of every sync that  *)
(* has read them, and so in the set unless one is about to refill it.      *)
KnownToSyncs(d) ==
    /\ \A k \in Run : imeiPc[k] \in {"rows", "del", "sadd"} => d \in snapImeis[k]
    /\ Rebuilding \/ d \in imeiSet

LEMMA NextKnown ==
    ASSUME IndInv, RunsAlone, NEW d \in Device, d \in devices, KnownToSyncs(d), [Next]_vars
    PROVE  KnownToSyncs(d)'
<1>0. /\ imeiPc \in [Run -> {"idle", "findMany", "rows", "del", "sadd", "done"}]
      /\ snapImeis \in [Run -> SUBSET Device] /\ 0 \in Run
  BY BoundAssumption DEF IndInv, TypeOK, SyncType, Run
<1>1. ASSUME UNCHANGED <<imeiPc, snapImeis, imeiSet>> PROVE KnownToSyncs(d)'
  BY <1>1 DEF KnownToSyncs, Rebuilding
<1>2. ASSUME NEW k \in Run, SyncStep(k) PROVE KnownToSyncs(d)'
  <2>1. CASE ImeisRead(k) \/ ImeisAnswered(k)
    <3>1. /\ imeiPc[k] \in {"findMany", "rows"} /\ imeiPc'[k] \in {"rows", "del"}
          /\ snapImeis'[k] \in {devices, snapImeis[k]}
          /\ imeiPc[k] = "findMany" => snapImeis'[k] = devices
          /\ \A l \in Run \ {k} : imeiPc'[l] = imeiPc[l] /\ snapImeis'[l] = snapImeis[l]
          /\ imeiSet' = imeiSet
      BY <1>0, <2>1 DEF ImeisRead, ImeisAnswered, cache
    <3> QED BY <1>0, <3>1 DEF KnownToSyncs, Rebuilding
  <2>2. CASE ImeisDel(k)
    <3>1. /\ imeiPc[k] = "del" /\ snapImeis' = snapImeis
          /\ imeiPc' = [imeiPc EXCEPT ![k] = IF snapImeis[k] = {} THEN "done" ELSE "sadd"]
      BY <2>2 DEF ImeisDel
    <3>2. imeiPc'[k] = "sadd" /\ \A l \in Run \ {k} : imeiPc'[l] = imeiPc[l]
      BY <1>0, <3>1 DEF KnownToSyncs
    <3> QED BY <3>1, <3>2 DEF KnownToSyncs, Rebuilding
  <2>3. CASE ImeisAdd(k)
    <3>1. /\ imeiPc[k] = "sadd" /\ imeiPc'[k] = "done" /\ imeiSet' = imeiSet \cup snapImeis[k]
          /\ \A l \in Run \ {k} : imeiPc'[l] = imeiPc[l] /\ snapImeis'[l] = snapImeis[l]
      BY <1>0, <2>3 DEF ImeisAdd
    <3> QED BY <3>1 DEF KnownToSyncs
  <2> QED BY <1>1, <1>2, <2>1, <2>2, <2>3 DEF SyncStep, StatusSnapshot, StatusUpsert, RowsRead,
        RowsAnswered, PipelineExec, cache
<1>3. CASE BootStep
  BY <1>1, <1>3 DEF BootStep, BootStatusRead, BootStatusDel, BootStatusSet, cache
<1>4. CASE Tick
  <2> DEFINE n == nTick + 1
  <2>1. /\ n \in Run /\ n # 0 /\ n \notin Syncing
        /\ imeiPc' = [imeiPc EXCEPT ![n] = "findMany"]
        /\ snapImeis' = snapImeis /\ imeiSet' = imeiSet
    BY <1>4, BoundAssumption DEF Tick, cache, RunsAlone, IndInv, TypeOK, LogType, Run
  <2> HIDE DEF n
  <2>2. /\ imeiPc'[n] = "findMany" /\ imeiPc[n] # "sadd"
        /\ \A k \in Run \ {n} : imeiPc'[k] = imeiPc[k]
    BY <1>0, <2>1 DEF Syncing
  <2> QED BY <1>0, <2>1, <2>2 DEF KnownToSyncs, Rebuilding
<1>5. CASE Crash
  <2>1. imeiPc'[0] = "findMany" /\ \A k \in Run : imeiPc'[k] \notin {"rows", "del", "sadd"}
    BY <1>0, <1>5 DEF Crash, AfterCrash
  <2> QED BY <1>0, <2>1 DEF KnownToSyncs, Rebuilding
<1>6. ASSUME NEW s \in Socket, SocketStep(s) PROVE KnownToSyncs(d)'
  BY <1>1, <1>6 DEF SocketStep, Connect, DataEvent, SocketEnds, CloseEvent, CloseRead,
    CloseWrite, syncs, cache
<1>7. ASSUME NEW t \in Event, TaskStep(t) PROVE KnownToSyncs(d)'
  BY <1>1, <1>7 DEF TaskStep, Authorize, Reject, StatusRead, LoginStatusWrite, DataStatusWrite,
    StatusWritten, GetCommands, WriteCallback, FindCommand, RemoveFromList, DeleteRow,
    DeleteMissing, syncs, cache
<1>8. CASE (\E c \in Command : ApiStep(c)) \/ Outage \/ UNCHANGED vars
  BY <1>1, <1>8 DEF ApiStep, SendNow, StartQueueing, CreateRow, Outage, syncs, cache, vars
<1>9. CASE \E e \in Device : RegisterDevice(e) \/ RemoveDevice(e)
  BY <1>1, <1>9 DEF RegisterDevice, RemoveDevice, syncs, cache
<1> QED BY <1>2, <1>3, <1>4, <1>5, <1>6, <1>7, <1>8, <1>9 DEF Next, Environment

(* CommonService.validateImei: a device that stays in table Device is      *)
(* refused only in the window of a rebuild (the finding about              *)
(* RegisteredNotRejected), through crashes and syncs that overlap.         *)
THEOREM RefusedOnlyInTheWindow ==
    ASSUME NEW d \in Device
    PROVE  Spec /\ [](d \in devices) => RejectedOnlyRebuilding(d)
<1>1. Init => KnownToSyncs(d)
  BY BoundAssumption DEF Init, KnownToSyncs, Rebuilding, Run
<1>2. IndInv /\ RunsAlone /\ d \in devices /\ KnownToSyncs(d) /\ [Next]_vars
      => KnownToSyncs(d)'
  BY NextKnown
<1>3. KnownToSyncs(d)
      => [\A t \in Event : Reject(t) /\ Item(t).imei = d => Rebuilding]_vars
  BY DEF KnownToSyncs, Reject, Accepts
<1> QED BY <1>1, <1>2, <1>3, RunsAloneInvariant, IndInvInvariant, PTL
    DEF Spec, RejectedOnlyRebuilding
-----------------------------------------------------------------------------
(* A list loses a command that is still in the table only in the hands of  *)
(* a session that holds it, or in the pipeline of a run that overlaps.     *)
LEMMA ListLoses ==
    ASSUME IndInv, CommandFlow, RunsAlone, [Next]_vars,
           NEW c \in commandQueue, Listed(c), ~Listed(c)'
    PROVE  \/ Held(c)
           \/ nCrash' # nCrash
           \/ \E k \in overlapped : cmdPc[k] = "exec" /\ cmdPc'[k] = "done"
<1>1. TargetOf[c] \in Device /\ c \in Command /\ cmdList' # cmdList
  BY CommandAssumption DEF IndInv, TypeOK, DbType, Listed
<1>2. \/ \E t \in Event : RemoveFromList(t)
      \/ \E k \in Run : PipelineExec(k)
      \/ Crash \/ Outage
  <2>1. ~(\E s \in Socket : SocketStep(s)) /\ ~UNCHANGED vars
    BY <1>1, SocketCommands DEF CommandsSame, vars, cache
  <2>2. ASSUME NEW t \in Event, TaskStep(t)
        PROVE  RemoveFromList(t)
    BY <1>1, <2>2, TaskCommands DEF TaskStep, CommandsSame, GetCommands, DeleteRow,
      DeleteMissing, cache
  <2>3. ~BootStep /\ ~Tick /\ \A k \in Run : SyncStep(k) => PipelineExec(k)
    BY <1>1, SyncCommands DEF SyncStep, CommandsSame, RowsRead, cache
  <2>4. ~(\E e \in Command : ApiStep(e)) /\ (Environment => Crash \/ Outage)
    BY <1>1, DeviceTableCommands DEF CommandsSame, ApiStep, SendNow, StartQueueing, CreateRow,
      Environment, cache
  <2> QED BY <2>1, <2>2, <2>3, <2>4 DEF Next
<1>3. ASSUME NEW t \in Event, RemoveFromList(t)
      PROVE  Held(c)
  <2> DEFINE d == Item(t).imei
             q == RemoveFirst(cmdList[d], Head(cmds[t]))
  <2>1. cmdList' = [cmdList EXCEPT ![d] = q] /\ pc[t] = "lrem"
    BY <1>3 DEF RemoveFromList
  <2>2. cmdList'[TargetOf[c]] = IF TargetOf[c] = d THEN q ELSE cmdList[TargetOf[c]]
    BY <1>1, <2>1 DEF IndInv, TypeOK, CacheType
  <2>3. TargetOf[c] = d
    BY <2>2 DEF Listed
  <2>4. c # Head(cmds[t]) => c \in ToSet(q)
    BY <1>1, <2>3, ListedCommands, RemoveFirstKeepsOthers DEF Listed
  <2>5. Head(cmds[t]) = c
    BY <2>2, <2>3, <2>4 DEF Listed
  <2> QED BY <2>1, <2>5 DEF Held
<1>4. ASSUME NEW k \in Run, PipelineExec(k)
      PROVE  \E l \in overlapped : cmdPc[l] = "exec" /\ cmdPc'[l] = "done"
  <2>1. cmdPc[k] = "exec" /\ cmdPc'[k] = "done"
    BY <1>4 DEF PipelineExec, IndInv, TypeOK, SyncType
  <2>2. CASE k \notin overlapped
    <3>1. c \in snapRows[k]
      BY <2>1, <2>2 DEF RunsAlone
    <3>2. PICK lists \in [Device -> SeqOf(snapRows[k], Cardinality(snapRows[k]))] :
            /\ \A e \in Device : Lists(lists[e], RowsOf(snapRows[k], e))
            /\ cmdList' = [e \in Device |-> Refilled(DevicesOf(snapRows[k]), e, lists[e])]
      BY <1>4 DEF PipelineExec, PipelineEffect
    <3>3. TargetOf[c] \in DevicesOf(snapRows[k]) /\ c \in RowsOf(snapRows[k], TargetOf[c])
      BY <3>1 DEF DevicesOf, RowsOf
    <3>4. cmdList'[TargetOf[c]] = lists[TargetOf[c]]
      BY <1>1, <3>2, <3>3 DEF Refilled
    <3>5. ToSet(lists[TargetOf[c]]) = RowsOf(snapRows[k], TargetOf[c])
      BY <1>1, <3>2, Zenon DEF Lists
    <3>6. Listed(c)'
      BY <3>3, <3>4, <3>5 DEF Listed
    <3> QED BY <3>6
  <2> QED BY <2>1, <2>2
<1>5. Crash \/ Outage => nCrash' # nCrash
  BY DEF Crash, Outage, IndInv, TypeOK, LogType
<1> QED BY <1>2, <1>3, <1>4, <1>5

(* A command that is still in the table does not vanish from its list (DEL *)
(* and RPUSH of the syncs, LREM of a session that holds another): only the *)
(* session that holds it removes it, a run that overlaps with another, or  *)
(* a fault that cuts a pipeline.                                           *)
THEOREM ListedAlwaysStays == Spec => ListedStays
<1>1. IndInv /\ CommandFlow /\ RunsAlone /\ [Next]_vars
      => [\A c \in commandQueue : Listed(c) /\ ~Listed(c)' =>
             \/ Held(c)
             \/ nCrash' # nCrash
             \/ \E k \in overlapped : cmdPc[k] = "exec" /\ cmdPc'[k] = "done"]_vars
  BY ListLoses
<1> QED BY <1>1, RunsAloneInvariant, IndInvInvariant, CommandFlowInvariant, PTL
    DEF Spec, ListedStays
=============================================================================
