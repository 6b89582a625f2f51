--------------------------- MODULE ListenerFlowProofs ---------------------------
(***************************************************************************)
(* Proofs about the positions that flow through the listener, on top of    *)
(* IndInv and the invariants of commands and names: the positions shown    *)
(* and forwarded are the device's own (FixFlow) and forwarded in order;    *)
(* with those, FlowInv is an invariant; and what is accepted is forwarded. *)
(***************************************************************************)
EXTENDS ListenerCommandProofs, ListenerNameProofs

(* What is left to do is an end of what there was, and a shorter one after *)
(* an item.                                                                *)
EndOf(left, items, n) ==
    /\ Len(left) = Len(items) - n
    /\ \A i \in DOMAIN left : i + n \in DOMAIN items /\ left[i] = items[i + n]

LEMMA RestIsEnd ==
    ASSUME NEW items \in Seq(Packet), NEW authorized \in BOOLEAN
    PROVE  \E n \in 0..Len(items) : EndOf(Rest(items, authorized), items, n)
<1> DEFINE logins == {i \in DOMAIN items : items[i].type = "LOGIN"}
           m == Min(logins)
<1>0. Len(items) \in Nat /\ DOMAIN items = 1..Len(items)
  BY LenProperties
<1>1. CASE authorized
  <2>1. Rest(items, authorized) = items
    BY <1>1 DEF Rest
  <2>2. EndOf(items, items, 0)
    BY <1>0 DEF EndOf
  <2> QED BY <1>0, <2>1, <2>2
<1>2. CASE ~authorized /\ logins = {}
  <2>1. Rest(items, authorized) = <<>>
    BY <1>2 DEF Rest
  <2>2. EndOf(<<>>, items, Len(items))
    BY <1>0, EmptySeq DEF EndOf
  <2> QED BY <1>0, <2>1, <2>2
<1>3. CASE ~authorized /\ logins # {}
  <2>1. m \in logins
    <3>1. logins \in SUBSET Nat
      BY <1>0
    <3> HIDE DEF logins
    <3> QED BY <1>3, <3>1, MinInSet
  <2>2. m \in 1..Len(items)
    BY <2>1, <1>0
  <2>3. Rest(items, authorized) = SubSeq(items, m, Len(items))
    BY <1>3 DEF Rest
  <2> HIDE DEF m
  <2>4. \A i \in m..Len(items) : items[i] \in Packet
    BY <1>0, <2>2, ElementOfSeq
  <2> DEFINE left == SubSeq(items, m, Len(items))
  <2>5. /\ left \in Seq(Packet) /\ Len(left) = Len(items) - m + 1
        /\ \A i \in 1..(Len(items) - m + 1) : left[i] = items[m + i - 1]
    BY <1>0, <2>2, <2>4, SubSeqProperties
  <2>6. DOMAIN left = 1..(Len(items) - m + 1)
    BY <2>5, LenProperties
  <2> HIDE DEF left
  <2>7. EndOf(left, items, m - 1)
    <3>1. Len(left) = Len(items) - (m - 1)
      BY <1>0, <2>2, <2>5
    <3>2. \A i \in DOMAIN left : i + (m - 1) \in DOMAIN items /\ left[i] = items[i + (m - 1)]
      <4> TAKE i \in DOMAIN left
      <4>1. /\ i + (m - 1) = m + i - 1 /\ i + (m - 1) \in 1..Len(items)
            /\ i \in 1..(Len(items) - m + 1)
        BY <1>0, <2>2, <2>6
      <4> QED BY <1>0, <2>5, <4>1
    <3> QED BY <3>1, <3>2 DEF EndOf
  <2>8. m - 1 \in 0..Len(items)
    BY <1>0, <2>2
  <2> QED BY <2>3, <2>7, <2>8 DEF left
<1> QED BY <1>1, <1>2, <1>3

LEMMA RemainingIsEnd ==
    ASSUME IndInv, NEW t \in Event, pc[t] \notin {"idle", "done"}
    PROVE  \E n \in 1..Len(rest[t]) : EndOf(Remaining(t), rest[t], n)
<1> DEFINE left == Tail(rest[t])
           a == isAuthorized[on[t]]
           r == Rest(left, a)
<1>1. /\ rest[t] \in Seq(Packet) /\ rest[t] # <<>> /\ on[t] \in Socket
  BY RunningTask
<1>2. a \in BOOLEAN
  BY <1>1, Zenon DEF IndInv, TypeOK, TcpType
<1>3. left \in Seq(Packet) /\ Len(left) = Len(rest[t]) - 1 /\ Len(rest[t]) \in Nat
  BY <1>1, HeadTailProperties, LenProperties
<1>4. PICK n \in 0..Len(left) : EndOf(r, left, n)
  BY <1>2, <1>3, RestIsEnd
<1>5. \A j \in DOMAIN left : j + 1 \in DOMAIN rest[t] /\ left[j] = rest[t][j + 1]
  BY <1>1, TailElements
<1>6. DOMAIN rest[t] = 1..Len(rest[t]) /\ DOMAIN left = 1..Len(left)
  BY <1>1, <1>3, LenProperties
<1>7. r \in Seq(Packet) /\ DOMAIN r = 1..Len(r)
  BY <1>2, <1>3, RestProperties, LenProperties
<1> HIDE DEF r, left
<1>8. \A i \in DOMAIN r : i + (n + 1) \in DOMAIN rest[t] /\ r[i] = rest[t][i + (n + 1)]
  <2> TAKE i \in DOMAIN r
  <2>1. i + n \in DOMAIN left /\ r[i] = left[i + n]
    BY <1>4 DEF EndOf
  <2>2. (i + n) + 1 \in DOMAIN rest[t] /\ left[i + n] = rest[t][(i + n) + 1]
    BY <1>5, <2>1
  <2>3. (i + n) + 1 = i + (n + 1)
    BY <1>4, <1>7
  <2> QED BY <2>1, <2>2, <2>3
<1>9. n + 1 \in 1..Len(rest[t]) /\ Len(r) = Len(rest[t]) - (n + 1)
  BY <1>3, <1>4 DEF EndOf
<1>10. EndOf(r, rest[t], n + 1)
  BY <1>8, <1>9 DEF EndOf
<1>11. r = Remaining(t)
  BY Zenon DEF r, left, Remaining
<1> QED BY <1>9, <1>10, <1>11

LEMMA RemainingElements ==
    ASSUME IndInv, NEW t \in Event, pc[t] \notin {"idle", "done"}
    PROVE  \A i \in DOMAIN Remaining(t) : \E j \in DOMAIN rest[t] : Remaining(t)[i] = rest[t][j]
  BY RemainingIsEnd DEF EndOf

-----------------------------------------------------------------------------
(* A session writes the position of its own device, or none, into what it  *)
(* read of that device.                                                    *)
LEMMA MergedShows ==
    ASSUME NEW old, NEW status, NEW fix, NEW d, Shows(old, d),
           fix = None \/ <<fix, d>> \in acked
    PROVE  Shows(Merged(old, status, fix), d)
  BY DEF Shows, Merged

(* A session that goes on keeps the positions it has, or drops them.       *)
TaskKeepsFixes(u) ==
    /\ \/ rest'[u] = rest[u] \/ rest'[u] = <<>>
       \/ pc[u] \notin {"idle", "done"} /\ rest'[u] = Remaining(u)
    /\ pc'[u] = "hset" => \/ pc[u] = "hset" /\ read'[u] = read[u] /\ key'[u] = key[u]
                          \/ Shows(read'[u], key'[u])

LEMMA SessionFixesKept ==
    ASSUME IndInv, SessionFixes, acked \subseteq acked', \A u \in Event : TaskKeepsFixes(u)
    PROVE  SessionFixes'
<1>1. ASSUME NEW u \in Event
      PROVE  OwnItems(rest[u])' /\ (pc'[u] = "hset" => Shows(read[u], key[u])')
  <2>1. OwnItems(rest[u])
    BY DEF SessionFixes
  <2>2. PICK l : l = rest'[u]
    OBVIOUS
  <2>3. OwnItems(l)
    <3>1. CASE l = <<>>
      BY <3>1, EmptySeq DEF OwnItems
    <3>2. CASE pc[u] \notin {"idle", "done"} /\ l = Remaining(u)
      <4>1. \A i \in DOMAIN Remaining(u) :
               \E j \in DOMAIN rest[u] : Remaining(u)[i] = rest[u][j]
        BY <3>2, RemainingElements
      <4> QED BY <2>1, <3>2, <4>1 DEF OwnItems
    <3> QED BY <2>1, <2>2, <3>1, <3>2 DEF TaskKeepsFixes
  <2>4. OwnItems(rest[u])'
    BY <2>2, <2>3 DEF OwnItems
  <2>5. PICK e, d : e = read'[u] /\ d = key'[u]
    OBVIOUS
  <2>6. pc'[u] = "hset" => Shows(e, d)
    BY <2>5 DEF SessionFixes, TaskKeepsFixes
  <2>7. pc'[u] = "hset" => Shows(read[u], key[u])'
    BY <2>5, <2>6 DEF Shows
  <2> QED BY <2>4, <2>7
<1> QED BY <1>1 DEF SessionFixes

LEMMA TaskFixes ==
    ASSUME IndInv, SessionNames, FixFlow, NEW t \in Event, TaskStep(t)
    PROVE  /\ \A u \in Event : TaskKeepsFixes(u)
           /\ \A u \in Event \ {t} : rest'[u] = rest[u]
           /\ acked' = acked /\ nData' = nData /\ on' = on
<1> USE DEF IndInv, TypeOK, SessionType
<1>1. acked' = acked /\ nData' = nData /\ on' = on
  BY DEF TaskStep, Authorize, Reject, StatusRead, LoginStatusWrite, DataStatusWrite,
    StatusWritten, GetCommands, WriteCallback, FindCommand, RemoveFromList, DeleteRow,
    DeleteMissing, history, counts
<1>2. pc[t] \notin {"idle", "done"}
  BY DEF TaskStep, Authorize, Reject, StatusRead, LoginStatusWrite, DataStatusWrite,
    GetCommands, WriteCallback, FindCommand, RemoveFromList, DeleteRow, DeleteMissing
<1>3. CASE StatusRead(t)
  <2>1. key[t] \in Imei
    BY <1>2, RunningTask
  <2>2. /\ rest' = rest /\ key' = key
        /\ read'[t] = statusHash[key[t]]
        /\ \A u \in Event \ {t} : pc'[u] = pc[u] /\ read'[u] = read[u]
    BY <1>3 DEF StatusRead
  <2>3. Shows(read'[t], key'[t])
    BY <2>1, <2>2 DEF FixFlow, FixesAreOwn
  <2>4. \A u \in Event : TaskKeepsFixes(u)
    BY <2>2, <2>3 DEF TaskKeepsFixes
  <2> QED BY <1>1, <2>2, <2>4
<1>4. CASE ~StatusRead(t)
  <2>1. \/ Finish(t)
        \/ MoveOn(t)
        \/ rest' = rest /\ key' = key /\ \E p : p # "hset" /\ pc' = [pc EXCEPT ![t] = p]
    BY <1>4 DEF TaskStep, Authorize, Reject, LoginStatusWrite, DataStatusWrite,
      StatusWritten, GetCommands, WriteCallback, FindCommand, RemoveFromList, DeleteRow,
      DeleteMissing, StartSend, session
  <2>2. \A u \in Event \ {t} : read'[u] = read[u]
    BY <1>4 DEF TaskStep, Authorize, Reject, LoginStatusWrite, DataStatusWrite,
      StatusWritten, GetCommands, WriteCallback, FindCommand, RemoveFromList, DeleteRow,
      DeleteMissing, session
  <2>3. \A u \in Event \ {t} : pc'[u] = pc[u] /\ rest'[u] = rest[u] /\ key'[u] = key[u]
    BY <2>1 DEF Finish, MoveOn, StartItem
  <2>4. TaskKeepsFixes(t)
    <3>1. \A l : PcFor(l) # "hset"
      BY DEF PcFor
    <3>2. \/ rest'[t] = rest[t] \/ rest'[t] = <<>> \/ rest'[t] = Remaining(t)
      BY <2>1 DEF Finish, MoveOn, StartItem
    <3>3. pc'[t] # "hset"
      BY <2>1, <3>1 DEF Finish, MoveOn, StartItem
    <3> QED BY <1>2, <3>2, <3>3 DEF TaskKeepsFixes
  <2>5. \A u \in Event \ {t} : TaskKeepsFixes(u)
    BY <2>2, <2>3 DEF TaskKeepsFixes
  <2> QED BY <1>1, <2>3, <2>4, <2>5
<1> QED BY <1>3, <1>4

(* Steps that leave statuses alone, in every copy.                         *)
LEMMA SameFixes ==
    ASSUME FixFlow, acked' = acked, posted' = posted, nData' = nData,
           closeKey' = closeKey, closeRead' = closeRead, statusHash' = statusHash,
           deviceStatus' = deviceStatus, snapStatus' = snapStatus
    PROVE  SessionFixes' => FixFlow'
  BY DEF FixFlow, AckedBegun, FixesAreOwn, CloseFixes, SnapshotFixes, Shows

(* updateDeviceLiveStatus of a session: the entry of its IMEI is one of    *)
(* that IMEI again, and so is the location it forwards.                    *)
LEMMA StatusWriteFixes ==
    ASSUME IndInv, SessionNames, FixFlow, NEW t \in Event,
           LoginStatusWrite(t) \/ DataStatusWrite(t)
    PROVE  FixFlow'
<1>1. /\ acked' = acked /\ nData' = nData /\ closeKey' = closeKey
      /\ closeRead' = closeRead /\ deviceStatus' = deviceStatus /\ snapStatus' = snapStatus
      /\ pc[t] = "hset" /\ StatusWritten(t)
  BY DEF LoginStatusWrite, DataStatusWrite, StatusWritten, db, closes, syncs, counts
<1>2. rest[t] \in Seq(Packet) /\ rest[t] # <<>> /\ key[t] \in Imei
  BY <1>1, RunningTask
<1>3. Item(t) = rest[t][1] /\ 1 \in DOMAIN rest[t]
  BY <1>2, TailElements DEF Item
<1>4. Item(t).type = "LOCATION" => key[t] = Item(t).imei
  <2>1. NamesItsDevice(t)
    BY Zenon DEF SessionNames
  <2> QED BY <1>1, <1>3, <2>1 DEF NamesItsDevice
<1>5. /\ Item(t).type = "LOCATION" => <<Item(t).fix, Item(t).imei>> \in acked
      /\ Item(t).type # "LOCATION" => Item(t).fix = None
      /\ Shows(read[t], key[t])
  BY <1>1, <1>3 DEF FixFlow, SessionFixes, OwnItems
<1>6. Shows(Merged(read[t], "CONNECTED", Item(t).fix), key[t])
  <2>1. Item(t).fix = None \/ <<Item(t).fix, key[t]>> \in acked
    BY <1>4, <1>5
  <2> QED BY <1>5, <2>1, MergedShows
<1>7. \A d \in Imei : statusHash'[d] = IF d = key[t]
                                       THEN Merged(read[t], "CONNECTED", Item(t).fix)
                                       ELSE statusHash[d]
  BY <1>1, <1>2 DEF StatusWritten, UpdatedImei, IndInv, TypeOK, CacheType
<1>8. \A d \in Imei : Shows(statusHash'[d], d)
  BY <1>6, <1>7 DEF FixFlow, FixesAreOwn
<1>9. posted' \subseteq acked
  BY <1>5 DEF LoginStatusWrite, DataStatusWrite, FixFlow, FixesAreOwn
<1>10. SessionFixes'
  BY <1>1, TaskFixes, SessionFixesKept DEF TaskStep, FixFlow
<1> QED BY <1>1, <1>8, <1>9, <1>10 DEF FixFlow, AckedBegun, FixesAreOwn, CloseFixes,
           SnapshotFixes, Shows

LEMMA SessionStepFixes ==
    ASSUME IndInv, SessionNames, FixFlow, NEW t \in Event, TaskStep(t)
    PROVE  FixFlow'
<1>1. CASE LoginStatusWrite(t) \/ DataStatusWrite(t)
  BY <1>1, StatusWriteFixes
<1>2. CASE ~(LoginStatusWrite(t) \/ DataStatusWrite(t))
  <2>1. /\ posted' = posted /\ closeKey' = closeKey /\ closeRead' = closeRead
        /\ statusHash' = statusHash /\ deviceStatus' = deviceStatus
        /\ snapStatus' = snapStatus
    BY <1>2 DEF TaskStep, Authorize, Reject, StatusRead, GetCommands, WriteCallback,
      FindCommand, RemoveFromList, DeleteRow, DeleteMissing, StartSend, tcp, cache, db,
      closes, syncs, history
  <2>2. SessionFixes'
    BY TaskFixes, SessionFixesKept DEF FixFlow
  <2> QED BY <2>1, <2>2, TaskFixes, SameFixes
<1> QED BY <1>1, <1>2

(* What a session gets of a chunk was acknowledged, under the IMEI that    *)
(* the socket had by then.                                                 *)
LEMMA ParsedFixes ==
    ASSUME IndInv, SessionNames, NEW s \in Socket, NEW t \in Event, NEW chunk \in Chunk[s],
           NEW r, r = Rest(Parsed(t, s, chunk), isAuthorized[s])
    PROVE  \A i \in DOMAIN r :
              /\ r[i].type = "LOCATION"
                   => <<r[i].fix, r[i].imei>> \in Acknowledged(t, s, chunk)
              /\ r[i].type # "LOCATION" => r[i].fix = None
<1>1. PICK items \in Seq(Packet) : items = Parsed(t, s, chunk)
  BY ParsedItems DEF IndInv, TypeOK
<1>2. DOMAIN items = DOMAIN chunk
  BY <1>1 DEF Parsed
<1>3. \A j \in DOMAIN chunk :
        /\ items[j].type = chunk[j].type /\ items[j].imei = ImeiAt(s, chunk, j)
        /\ items[j].fix = IF chunk[j].type = "LOCATION" THEN <<t, j>> ELSE None
  BY <1>1 DEF Parsed
<1>4. \A i \in DOMAIN r : \E j \in DOMAIN items : r[i] = items[j]
  <2>1. isAuthorized[s] \in BOOLEAN
    BY Zenon DEF IndInv, TypeOK, TcpType
  <2> QED BY <1>1, <2>1, RestProperties, Zenon
<1>5. PICK C : C = claimed[s] \cup Claims(chunk)
  OBVIOUS
<1>6. NamedAmong(r, C, t)
  BY <1>5, ParsedNames, Zenon
<1>7. None \notin C
  BY <1>5, ClaimsType, NoneAssumption DEF IndInv, TypeOK, LogType
<1> TAKE i \in DOMAIN r
<1>8. PICK j \in DOMAIN chunk : r[i] = items[j]
  BY <1>2, <1>4
<1>9. ImeiAt(s, chunk, j) # None
  BY <1>3, <1>6, <1>7, <1>8 DEF NamedAmong
<1> QED BY <1>3, <1>8, <1>9 DEF Acknowledged

LEMMA DataEventFixes ==
    ASSUME IndInv, SessionNames, FixFlow, NEW s \in Socket, DataEvent(s)
    PROVE  FixFlow'
<1>1. PICK t \in Event : t = nData + 1 /\ nData \in Nat
  BY BoundAssumption DEF DataEvent, IndInv, TypeOK, LogType, Event
<1> DEFINE todo(chunk) == IF ProtocolOf[s] = "GT06"
                          THEN Rest(Parsed(t, s, chunk), isAuthorized[s]) ELSE <<>>
<1>2. PICK chunk \in Chunk[s] :
        /\ acked' = acked \cup Acknowledged(t, s, chunk)
        /\ rest' = [rest EXCEPT ![t] = todo(chunk)]
        /\ pc' = [pc EXCEPT ![t] = PcFor(todo(chunk))]
        /\ \E imei : key' = [key EXCEPT ![t] = KeyFor(todo(chunk), imei)]
  BY <1>1, Zenon DEF DataEvent, StartItem
<1>3. PICK r : r = todo(chunk)
  OBVIOUS
<1>4. /\ closeKey' = closeKey /\ closeRead' = closeRead /\ statusHash' = statusHash
      /\ posted' = posted /\ deviceStatus' = deviceStatus /\ snapStatus' = snapStatus
      /\ read' = read /\ nData' = nData + 1
  BY DEF DataEvent, cache, db, closes, syncs
<1>5. \A i \in DOMAIN r :
         /\ r[i].type = "LOCATION" => <<r[i].fix, r[i].imei>> \in acked'
         /\ r[i].type # "LOCATION" => r[i].fix = None
  <2>1. CASE ProtocolOf[s] = "GT06"
    <3>1. r = Rest(Parsed(t, s, chunk), isAuthorized[s])
      BY <1>3, <2>1, Zenon
    <3> QED BY <1>2, <3>1, ParsedFixes
  <2>2. CASE ProtocolOf[s] # "GT06"
    <3>1. r = <<>>
      BY <1>3, <2>2, Zenon
    <3> QED BY <3>1, EmptySeq
  <2> QED BY <2>1, <2>2
<1> HIDE DEF todo
<1>6. /\ rest'[t] = r /\ pc'[t] = PcFor(r)
      /\ \A u \in Event \ {t} : rest'[u] = rest[u] /\ pc'[u] = pc[u] /\ key'[u] = key[u]
  BY <1>2, <1>3 DEF IndInv, TypeOK, SessionType
<1>7. acked \subseteq acked'
  BY <1>2
<1>8. AckedBegun'
  <2>1. \A p \in Acknowledged(t, s, chunk) : p[1][1] = t
    BY DEF Acknowledged
  <2>2. \A p \in acked : p[1][1] \in Nat /\ p[1][1] <= nData
    BY DEF FixFlow, AckedBegun, IndInv, TypeOK, LogType, Report, Fix, Event
  <2>3. \A p \in acked' : p[1][1] <= nData + 1
    BY <1>1, <1>2, <2>1, <2>2
  <2> QED BY <1>4, <2>3 DEF AckedBegun
<1>9. FixesAreOwn' /\ CloseFixes' /\ SnapshotFixes'
  BY <1>4, <1>7 DEF FixFlow, FixesAreOwn, CloseFixes, SnapshotFixes, Shows
<1>10. SessionFixes'
  <2>1. OwnItems(rest[t])' /\ pc'[t] # "hset"
    BY <1>5, <1>6 DEF OwnItems, PcFor
  <2>2. \A u \in Event \ {t} : OwnItems(rest[u])' /\ (pc'[u] = "hset" => Shows(read[u], key[u])')
    BY <1>4, <1>6, <1>7 DEF FixFlow, SessionFixes, OwnItems, Shows
  <2> QED BY <2>1, <2>2 DEF SessionFixes
<1> QED BY <1>8, <1>9, <1>10 DEF FixFlow

(* A 'close' keeps the IMEI the socket had, has read nothing yet, and puts *)
(* back what it reads under that IMEI.                                     *)
LEMMA CloseStepFixes ==
    ASSUME IndInv, StatusFlow, FixFlow, NEW s \in Socket,
           CloseEvent(s) \/ CloseRead(s) \/ CloseWrite(s)
    PROVE  FixFlow'
<1> USE DEF IndInv, TypeOK, TcpType, CacheType, CloseType
<1>1. /\ acked' = acked /\ posted' = posted /\ nData' = nData
      /\ rest' = rest /\ pc' = pc /\ read' = read /\ key' = key
      /\ deviceStatus' = deviceStatus /\ snapStatus' = snapStatus
      /\ closeKey[s] \in Imei
  BY DEF CloseEvent, CloseRead, CloseWrite, db, session, syncs, history, counts
<1>2. Shows(closeRead[s], closeKey[s]) /\ Shows(statusHash[closeKey[s]], closeKey[s])
  BY <1>1 DEF FixFlow, CloseFixes, FixesAreOwn
<1>3. \A d \in Imei : Shows(statusHash'[d], d)
  <2>1. CASE CloseEvent(s) \/ CloseRead(s)
    BY <2>1 DEF CloseEvent, CloseRead, cache, FixFlow, FixesAreOwn
  <2>2. CASE CloseWrite(s)
    <3>1. Shows(Merged(closeRead[s], "DISCONNECTED", None), closeKey[s])
      BY <1>2, MergedShows
    <3>2. \A d \in Imei : statusHash'[d] = IF d = closeKey[s]
                                           THEN Merged(closeRead[s], "DISCONNECTED", None)
                                           ELSE statusHash[d]
      BY <1>1, <2>2 DEF CloseWrite
    <3> QED BY <3>1, <3>2 DEF FixFlow, FixesAreOwn
  <2> QED BY <2>1, <2>2
<1>4. \A u \in Socket : Shows(closeRead'[u], closeKey'[u])
  <2>1. \A u \in Socket \ {s} : closeRead'[u] = closeRead[u] /\ closeKey'[u] = closeKey[u]
    BY DEF CloseEvent, CloseRead, CloseWrite
  <2>2. Shows(closeRead'[s], closeKey'[s])
    <3>1. CASE CloseEvent(s)
      <4>1. closeRead'[s] = None
        BY <3>1 DEF CloseEvent, StatusFlow, ClosesClean
      <4> QED BY <4>1 DEF Shows
    <3>2. CASE CloseRead(s)
      BY <1>2, <3>2 DEF CloseRead
    <3>3. CASE CloseWrite(s)
      BY <3>3 DEF CloseWrite, Shows
    <3> QED BY <3>1, <3>2, <3>3
  <2> QED BY <2>1, <2>2 DEF FixFlow, CloseFixes
<1>5. SessionFixes'
  BY <1>1 DEF FixFlow, SessionFixes, OwnItems, Shows
<1> QED BY <1>1, <1>3, <1>4, <1>5 DEF FixFlow, AckedBegun, FixesAreOwn, CloseFixes,
           SnapshotFixes, Shows

(* The syncs copy statuses, each under its device; an outage makes one     *)
(* lose entries, and a crash all of them.                                  *)
LEMMA CopiedFixes ==
    ASSUME FixFlow, acked' = acked, posted' = posted, nData' = nData,
           \A u \in Socket : \/ closeRead'[u] = None
                             \/ closeRead'[u] = closeRead[u] /\ closeKey'[u] = closeKey[u],
           \A d \in Imei : /\ Shows(statusHash'[d], d) /\ Shows(deviceStatus'[d], d)
                           /\ \A k \in Run : Shows(snapStatus'[k][d], d)
    PROVE  SessionFixes' => FixFlow'
<1>1. AckedBegun' /\ FixesAreOwn' /\ SnapshotFixes'
  BY DEF FixFlow, AckedBegun, FixesAreOwn, SnapshotFixes, Shows
<1>2. CloseFixes'
  BY DEF FixFlow, CloseFixes, Shows
<1> QED BY <1>1, <1>2 DEF FixFlow

LEMMA SyncFixes ==
    ASSUME IndInv, FixFlow,
           BootStep \/ \E k \in Run : StatusSnapshot(k) \/ StatusUpsert(k)
    PROVE  FixFlow'
<1>1. /\ acked' = acked /\ posted' = posted /\ nData' = nData
      /\ closeKey' = closeKey /\ closeRead' = closeRead
      /\ rest' = rest /\ pc' = pc /\ read' = read /\ key' = key
  BY DEF BootStep, BootStatusRead, BootStatusDel, BootStatusSet, StatusSnapshot, StatusUpsert,
    tcp, session, closes, history, counts
<1>2. 0 \in Run
  BY BoundAssumption DEF Run
<1>3. ASSUME NEW d \in Imei
      PROVE  /\ Shows(statusHash'[d], d) /\ Shows(deviceStatus'[d], d)
             /\ \A k \in Run : Shows(snapStatus'[k][d], d)
  <2>1. /\ Shows(statusHash[d], d) /\ Shows(deviceStatus[d], d) /\ Shows(None, d)
        /\ \A k \in Run : Shows(snapStatus[k][d], d)
    BY DEF FixFlow, FixesAreOwn, SnapshotFixes, Shows
  <2>2. CASE BootStatusRead
    BY <1>2, <2>1, <2>2 DEF BootStatusRead, cache, db, IndInv, TypeOK, SyncType, DbType
  <2>3. CASE BootStatusDel
    BY <2>1, <2>3 DEF BootStatusDel, db, NoStatus
  <2>4. CASE BootStatusSet
    BY <1>2, <2>1, <2>4 DEF BootStatusSet, db, NoStatus, IndInv, TypeOK, SyncType
  <2>5. ASSUME NEW k \in Run, StatusSnapshot(k)
        PROVE  /\ statusHash' = statusHash /\ deviceStatus' = deviceStatus
               /\ \A l \in Run : snapStatus'[l] = IF l = k THEN statusHash ELSE snapStatus[l]
    BY <2>5 DEF StatusSnapshot, cache, db, IndInv, TypeOK, SyncType
  <2>6. ASSUME NEW k \in Run, StatusUpsert(k)
        PROVE  /\ statusHash' = statusHash
               /\ deviceStatus'[d] \in {deviceStatus[d], snapStatus[k][d]}
               /\ \A l \in Run : snapStatus'[l][d] \in {snapStatus[l][d], None}
    <3>1. PICK e \in Imei :
            /\ deviceStatus' = [deviceStatus EXCEPT ![e] = snapStatus[k][e]]
            /\ snapStatus' = [snapStatus EXCEPT ![k] = [snapStatus[k] EXCEPT ![e] = None]]
      BY <2>6, Zenon DEF StatusUpsert
    <3>2. deviceStatus'[d] \in {deviceStatus[d], snapStatus[k][d]}
      BY <3>1 DEF IndInv, TypeOK, DbType
    <3>3. \A l \in Run : snapStatus'[l][d] \in {snapStatus[l][d], None}
      BY <3>1 DEF IndInv, TypeOK, SyncType
    <3> QED BY <2>6, <3>2, <3>3 DEF StatusUpsert, cache
  <2> QED BY <2>1, <2>2, <2>3, <2>4, <2>5, <2>6 DEF BootStep
<1>4. SessionFixes'
  BY <1>1 DEF FixFlow, SessionFixes, OwnItems, Shows
<1> QED BY <1>1, <1>3, <1>4, CopiedFixes

LEMMA FaultFixes ==
    ASSUME IndInv, FixFlow, Crash \/ Outage
    PROVE  FixFlow'
<1>1. /\ acked' = acked /\ posted' = posted /\ nData' = nData
      /\ statusHash' = statusHash /\ deviceStatus' = deviceStatus
  BY DEF Crash, Outage, db, history
<1>2. \A u \in Socket : \/ closeRead'[u] = None
                        \/ closeRead'[u] = closeRead[u] /\ closeKey'[u] = closeKey[u]
  <2>1. CASE Crash
    BY <2>1 DEF Crash
  <2>2. CASE Outage
    BY <2>2 DEF Outage, closes
  <2> QED BY <2>1, <2>2
<1>3. \A k \in Run, d \in Imei : snapStatus'[k][d] \in {snapStatus[k][d], None}
  <2>1. CASE Crash
    BY <2>1 DEF Crash, NoStatus
  <2>2. CASE Outage
    BY <2>2 DEF Outage, RedisOutage, DatabaseOutage, UpsertsLost, IndInv, TypeOK, SyncType
  <2> QED BY <2>1, <2>2
<1>4. \A d \in Imei : /\ Shows(statusHash'[d], d) /\ Shows(deviceStatus'[d], d)
                      /\ \A k \in Run : Shows(snapStatus'[k][d], d)
  BY <1>1, <1>3 DEF FixFlow, FixesAreOwn, SnapshotFixes, Shows
<1>5. \A u \in Event : TaskKeepsFixes(u)
  <2>1. CASE Crash
    BY <2>1 DEF Crash, TaskKeepsFixes
  <2>2. CASE Outage
    <3>1. PICK failed \in SUBSET Event : TasksFail(failed)
      BY <2>2 DEF Outage, RedisOutage, DatabaseOutage
    <3> QED BY <3>1 DEF TasksFail, TaskKeepsFixes
  <2> QED BY <2>1, <2>2
<1>6. SessionFixes'
  BY <1>1, <1>5, SessionFixesKept DEF FixFlow
<1> QED BY <1>1, <1>2, <1>4, <1>6, CopiedFixes

LEMMA NextFixes ==
    ASSUME IndInv, SessionNames, StatusFlow, FixFlow, [Next]_vars
    PROVE  FixFlow'
<1>1. ASSUME acked' = acked, posted' = posted, nData' = nData, closeKey' = closeKey,
             closeRead' = closeRead, statusHash' = statusHash,
             deviceStatus' = deviceStatus, snapStatus' = snapStatus,
             rest' = rest, pc' = pc, read' = read, key' = key
      PROVE  FixFlow'
  <2>1. SessionFixes'
    BY <1>1 DEF FixFlow, SessionFixes, OwnItems, Shows
  <2> QED BY <1>1, <2>1, SameFixes
<1>2. ASSUME NEW s \in Socket, SocketStep(s)
      PROVE  FixFlow'
  <2>1. CASE Connect(s) \/ SocketEnds(s)
    BY <1>1, <2>1 DEF Connect, SocketEnds, cache, db, session, closes, syncs, history, counts
  <2> QED BY <1>2, <2>1, DataEventFixes, CloseStepFixes DEF SocketStep
<1>3. CASE BootStep \/ Tick \/ \E k \in Run : SyncStep(k)
  <2>1. CASE Tick \/ \E k \in Run : \/ ImeisRead(k) \/ ImeisAnswered(k) \/ ImeisDel(k)
                                    \/ ImeisAdd(k) \/ RowsRead(k) \/ RowsAnswered(k)
                                    \/ PipelineExec(k)
    BY <1>1, <2>1 DEF Tick, ImeisRead, ImeisAnswered, ImeisDel, ImeisAdd, RowsRead,
      RowsAnswered, PipelineExec, cache, db, session, closes, history, counts
  <2> QED BY <1>3, <2>1, SyncFixes DEF SyncStep
<1>4. CASE \E c \in Command : ApiStep(c)
  BY <1>1, <1>4 DEF ApiStep, SendNow, StartQueueing, CreateRow, cache, db, session,
    closes, syncs, history, counts
<1>5. CASE \E d \in Device : RegisterDevice(d) \/ RemoveDevice(d)
  BY <1>1, <1>5 DEF RegisterDevice, RemoveDevice, cache, db, session, closes, syncs, history
<1>6. CASE UNCHANGED vars
  BY <1>1, <1>6 DEF vars, cache, db, session, closes, syncs, history, counts
<1> QED BY <1>2, <1>3, <1>4, <1>5, <1>6, SessionStepFixes, FaultFixes DEF Next, Environment

LEMMA InitFixes ==
    ASSUME Init
    PROVE  FixFlow
<1>1. AckedBegun /\ CloseFixes
  BY DEF Init, AckedBegun, CloseFixes, Shows
<1>2. FixesAreOwn /\ SnapshotFixes
  BY DEF Init, FixesAreOwn, SnapshotFixes, Shows, NoStatus, LeftByEarlierRun
<1>3. SessionFixes
  BY EmptySeq DEF Init, SessionFixes, OwnItems
<1> QED BY <1>1, <1>2, <1>3 DEF FixFlow
-----------------------------------------------------------------------------
(* Locations in order: what is left is in order, and behind what was       *)
(* posted of the same event.                                               *)
InOrder(items) ==
    \A i, j \in DOMAIN items :
        i < j /\ items[i].type = "LOCATION" /\ items[j].type = "LOCATION"
        => items[i].fix[2] < items[j].fix[2]
Behind(items, f) == \A i \in DOMAIN items : items[i].type = "LOCATION" => f[2] < items[i].fix[2]
Posted(t) == {p[1] : p \in {q \in posted : q[1][1] = t}}

LEMMA OrderInParts ==
    ForwardedInOrder <=> \A t \in Event : /\ InOrder(rest[t])
                                          /\ \A f \in Posted(t) : Behind(rest[t], f)
  BY DEF ForwardedInOrder, InOrder, Behind, Posted

LEMMA EndInOrder ==
    ASSUME NEW items \in Seq(Packet), NEW left \in Seq(Packet), NEW n \in Nat,
           EndOf(left, items, n), InOrder(items)
    PROVE  /\ InOrder(left)
           /\ \A f : Behind(items, f) => Behind(left, f)
           /\ n > 0 /\ items # <<>> /\ Head(items).type = "LOCATION"
                => Behind(left, Head(items).fix)
<1>0. DOMAIN left = 1..Len(left) /\ Len(left) \in Nat
  BY LenProperties
<1>1. InOrder(left)
  <2> SUFFICES ASSUME NEW i \in DOMAIN left, NEW j \in DOMAIN left, i < j,
                      left[i].type = "LOCATION", left[j].type = "LOCATION"
               PROVE  left[i].fix[2] < left[j].fix[2]
    BY DEF InOrder
  <2>1. /\ i + n \in DOMAIN items /\ left[i] = items[i + n]
        /\ j + n \in DOMAIN items /\ left[j] = items[j + n]
    BY DEF EndOf
  <2>2. i + n < j + n
    BY <1>0
  <2> QED BY <2>1, <2>2 DEF InOrder
<1>2. ASSUME NEW f, Behind(items, f) PROVE Behind(left, f)
  BY <1>2 DEF EndOf, Behind
<1>3. ASSUME n > 0, items # <<>>, Head(items).type = "LOCATION" PROVE Behind(left, Head(items).fix)
  <2> SUFFICES ASSUME NEW i \in DOMAIN left, left[i].type = "LOCATION"
               PROVE  Head(items).fix[2] < left[i].fix[2]
    BY DEF Behind
  <2>1. Head(items) = items[1] /\ 1 \in DOMAIN items
    BY <1>3, TailElements
  <2>2. i + n \in DOMAIN items /\ left[i] = items[i + n] /\ 1 < i + n
    BY <1>0, <1>3 DEF EndOf
  <2> QED BY <1>3, <2>1, <2>2 DEF InOrder
<1> QED BY <1>1, <1>2, <1>3

LEMMA SessionsInOrder ==
    ASSUME IndInv, ForwardedInOrder, posted' = posted,
           \A u \in Event : \/ rest'[u] = rest[u] \/ rest'[u] = <<>>
                            \/ pc[u] \notin {"idle", "done"} /\ rest'[u] = Remaining(u)
    PROVE  ForwardedInOrder'
<1>1. ASSUME NEW u \in Event
      PROVE  InOrder(rest'[u]) /\ \A f \in Posted(u) : Behind(rest'[u], f)
  <2>1. InOrder(rest[u]) /\ \A f \in Posted(u) : Behind(rest[u], f)
    BY OrderInParts
  <2>2. CASE rest'[u] = <<>>
    BY <2>2, EmptySeq DEF InOrder, Behind
  <2>3. CASE pc[u] \notin {"idle", "done"} /\ rest'[u] = Remaining(u)
    <3>1. PICK n \in 1..Len(rest[u]) : EndOf(Remaining(u), rest[u], n)
      BY <2>3, RemainingIsEnd
    <3>2. rest[u] \in Seq(Packet) /\ Remaining(u) \in Seq(Packet)
      BY <2>3, RunningTask, RemainingItems DEF IndInv, TypeOK
    <3> QED BY <2>1, <2>3, <3>1, <3>2, EndInOrder
  <2> QED BY <2>1, <2>2, <2>3
<1> QED BY <1>1 DEF ForwardedInOrder, InOrder, Behind, Posted

LEMMA PostInOrder ==
    ASSUME IndInv, SessionNames, ForwardedInOrder, NEW t \in Event, DataStatusWrite(t)
    PROVE  ForwardedInOrder'
<1>1. /\ pc[t] = "hset" /\ rest' = [rest EXCEPT ![t] = Remaining(t)]
      /\ posted' = IF Item(t).type = "LOCATION"
                   THEN posted \cup {<<Item(t).fix, Item(t).imei>>} ELSE posted
  BY DEF DataStatusWrite, MoveOn, StartItem
<1>2. rest[t] \in Seq(Packet) /\ rest[t] # <<>> /\ Remaining(t) \in Seq(Packet)
  BY <1>1, RunningTask, RemainingItems DEF IndInv, TypeOK
<1>3. PICK n \in 1..Len(rest[t]) : EndOf(Remaining(t), rest[t], n)
  BY <1>1, RemainingIsEnd
<1>4. InOrder(rest[t]) /\ \A f \in Posted(t) : Behind(rest[t], f)
  BY OrderInParts
<1>5. /\ InOrder(Remaining(t))
      /\ \A f : Behind(rest[t], f) => Behind(Remaining(t), f)
      /\ Item(t).type = "LOCATION" => Behind(Remaining(t), Item(t).fix)
  BY <1>2, <1>3, <1>4, EndInOrder DEF Item
<1>6. Item(t).type = "LOCATION" => Item(t).fix[1] = t
  <2>1. Item(t) = rest[t][1] /\ 1 \in DOMAIN rest[t]
    BY <1>2, TailElements DEF Item
  <2>2. NamesItsDevice(t)
    BY Zenon DEF SessionNames
  <2> QED BY <2>1, <2>2 DEF NamesItsDevice
<1>7. /\ rest'[t] = Remaining(t) /\ \A u \in Event \ {t} : rest'[u] = rest[u]
  BY <1>1 DEF IndInv, TypeOK, SessionType
<1>8. \A p \in posted' : \/ p \in posted
                         \/ /\ Item(t).type = "LOCATION"
                            /\ p[1] = Item(t).fix
  BY <1>1
<1>9. ASSUME NEW u \in Event, NEW p \in posted', p[1][1] = u
      PROVE  Behind(rest'[u], p[1])
  <2>1. CASE p \in posted
    <3>1. Behind(rest[u], p[1])
      BY <1>9, <2>1, OrderInParts DEF Posted
    <3> QED BY <1>5, <1>7, <3>1
  <2>2. CASE Item(t).type = "LOCATION" /\ p[1] = Item(t).fix
    BY <1>5, <1>6, <1>7, <1>9, <2>2
  <2> QED BY <1>8, <2>1, <2>2
<1>10. ASSUME NEW u \in Event
       PROVE  InOrder(rest'[u])
  BY <1>5, <1>7, OrderInParts
<1> QED BY <1>9, <1>10 DEF ForwardedInOrder, InOrder, Behind

(* A chunk comes in order, and nothing of a new event is posted yet.       *)
LEMMA ParsedInOrder ==
    ASSUME IndInv, NEW s \in Socket, NEW t \in Event, NEW chunk \in Chunk[s],
           NEW r, r = Rest(Parsed(t, s, chunk), isAuthorized[s])
    PROVE  InOrder(r)
<1>1. PICK items \in Seq(Packet) : items = Parsed(t, s, chunk)
  BY ParsedItems DEF IndInv, TypeOK
<1>2. PICK a \in BOOLEAN : a = isAuthorized[s]
  BY Zenon DEF IndInv, TypeOK, TcpType
<1>3. DOMAIN items = 1..Len(items) /\ Len(items) \in Nat
  BY LenProperties
<1>4. \A i \in DOMAIN items : items[i].type = "LOCATION" => items[i].fix = <<t, i>>
  BY <1>1 DEF Parsed
<1>5. r = Rest(items, a)
  BY <1>1, <1>2, Zenon
<1>6. r \in Seq(Packet)
  BY <1>5, RestProperties
<1>7. PICK n \in 0..Len(items) : EndOf(r, items, n)
  BY <1>5, RestIsEnd
<1>8. InOrder(items)
  BY <1>3, <1>4 DEF InOrder
<1> QED BY <1>3, <1>6, <1>7, <1>8, EndInOrder

LEMMA ArriveInOrder ==
    ASSUME IndInv, FixFlow, ForwardedInOrder, NEW s \in Socket, DataEvent(s)
    PROVE  ForwardedInOrder'
<1>1. PICK t \in Event : t = nData + 1 /\ nData \in Nat
  BY BoundAssumption DEF DataEvent, IndInv, TypeOK, LogType, Event
<1> DEFINE todo(chunk) == IF ProtocolOf[s] = "GT06"
                          THEN Rest(Parsed(t, s, chunk), isAuthorized[s]) ELSE <<>>
<1>2. PICK chunk \in Chunk[s] : rest' = [rest EXCEPT ![t] = todo(chunk)]
  BY <1>1, Zenon DEF DataEvent, StartItem
<1>3. PICK r : r = todo(chunk)
  OBVIOUS
<1>4. posted' = posted /\ \A p \in posted : p[1][1] # t
  <2>1. \A p \in posted : p[1][1] <= nData
    BY DEF FixFlow, FixesAreOwn, AckedBegun
  <2> QED BY <1>1, <2>1 DEF DataEvent
<1>5. InOrder(r)
  <2>1. CASE ProtocolOf[s] = "GT06"
    <3>1. r = Rest(Parsed(t, s, chunk), isAuthorized[s])
      BY <1>3, <2>1, Zenon
    <3> QED BY <3>1, ParsedInOrder
  <2>2. CASE ProtocolOf[s] # "GT06"
    <3>1. r = <<>>
      BY <1>3, <2>2, Zenon
    <3> QED BY <3>1, EmptySeq DEF InOrder
  <2> QED BY <2>1, <2>2
<1> HIDE DEF todo
<1>6. rest'[t] = r /\ \A u \in Event \ {t} : rest'[u] = rest[u]
  BY <1>2, <1>3 DEF IndInv, TypeOK, SessionType
<1>7. ASSUME NEW u \in Event
      PROVE  InOrder(rest'[u]) /\ \A f \in Posted(u) : Behind(rest'[u], f)
  BY <1>4, <1>5, <1>6, OrderInParts DEF Posted
<1> QED BY <1>4, <1>7 DEF ForwardedInOrder, InOrder, Behind, Posted

LEMMA NextInOrder ==
    ASSUME IndInv, SessionNames, StatusFlow, FixFlow, ForwardedInOrder, [Next]_vars
    PROVE  ForwardedInOrder'
<1>1. ASSUME UNCHANGED <<rest, posted>> PROVE ForwardedInOrder'
  BY <1>1 DEF ForwardedInOrder
<1>2. ASSUME NEW s \in Socket, SocketStep(s) PROVE ForwardedInOrder'
  BY <1>1, <1>2, ArriveInOrder DEF SocketStep, Connect, SocketEnds, CloseEvent, CloseRead,
    CloseWrite, session, history
<1>3. ASSUME NEW t \in Event, TaskStep(t) PROVE ForwardedInOrder'
  <2>1. CASE ~DataStatusWrite(t)
    <3>1. posted' = posted
      BY <1>3, <2>1 DEF TaskStep, Authorize, Reject, StatusRead, LoginStatusWrite, GetCommands,
        WriteCallback, FindCommand, RemoveFromList, DeleteRow, DeleteMissing, history
    <3>2. \A u \in Event : TaskKeepsFixes(u)
      BY <1>3, TaskFixes, Zenon
    <3>3. \A u \in Event : \/ rest'[u] = rest[u] \/ rest'[u] = <<>>
                           \/ pc[u] \notin {"idle", "done"} /\ rest'[u] = Remaining(u)
      BY <3>2, Zenon DEF TaskKeepsFixes
    <3> QED BY <3>1, <3>3, SessionsInOrder, Zenon
  <2> QED BY <1>3, <2>1, PostInOrder
<1>4. CASE Crash \/ Outage
  <2>1. posted' = posted
    BY <1>4 DEF Crash, Outage, history
  <2>2. \A u \in Event : rest'[u] = rest[u] \/ rest'[u] = <<>>
    <3>1. CASE Crash
      BY <3>1 DEF Crash
    <3>2. CASE Outage
      <4>1. PICK failed \in SUBSET Event : TasksFail(failed)
        BY <3>2 DEF Outage, RedisOutage, DatabaseOutage
      <4> QED BY <4>1 DEF TasksFail
    <3> QED BY <1>4, <3>1, <3>2
  <2> QED BY <2>1, <2>2, SessionsInOrder, Zenon
<1>5. CASE BootStep \/ Tick \/ (\E k \in Run : SyncStep(k)) \/ UNCHANGED vars
  BY <1>1, <1>5 DEF BootStep, BootStatusRead, BootStatusDel, BootStatusSet, Tick, SyncStep,
    ImeisRead, ImeisAnswered, ImeisDel, ImeisAdd, StatusSnapshot, StatusUpsert, RowsRead,
    RowsAnswered, PipelineExec, session, history, vars
<1>6. CASE (\E c \in Command : ApiStep(c)) \/ \E d \in Device : RegisterDevice(d) \/ RemoveDevice(d)
  BY <1>1, <1>6 DEF ApiStep, SendNow, StartQueueing, CreateRow, RegisterDevice, RemoveDevice,
    session, history
<1> QED BY <1>2, <1>3, <1>4, <1>5, <1>6 DEF Next, Environment

(* Only the sessions of GT06 sockets authorise, and have anything to do.   *)
LEMMA NextGt06 ==
    ASSUME IndInv, SessionNames, FixFlow, Gt06Sessions, [Next]_vars
    PROVE  Gt06Sessions'
<1>1. ASSUME isAuthorized' = isAuthorized,
             \A u \in Event : rest'[u] # <<>> => rest[u] # <<>> /\ on'[u] = on[u]
      PROVE  Gt06Sessions'
  BY <1>1 DEF Gt06Sessions
<1>2. ASSUME UNCHANGED <<isAuthorized, rest, on>> PROVE Gt06Sessions'
  BY <1>2 DEF Gt06Sessions
<1>3. ASSUME NEW s \in Socket, DataEvent(s) PROVE Gt06Sessions'
  <2>1. PICK t \in Event : t = nData + 1
    BY <1>3, BoundAssumption DEF DataEvent, IndInv, TypeOK, LogType, Event
  <2>2. PICK todo : /\ ProtocolOf[s] # "GT06" => todo = <<>>
                    /\ rest' = [rest EXCEPT ![t] = todo] /\ on' = [on EXCEPT ![t] = s]
    BY <1>3, <2>1, Zenon DEF DataEvent, StartItem
  <2>3. /\ isAuthorized' = isAuthorized
        /\ rest'[t] # <<>> => ProtocolOf[s] = "GT06" /\ on'[t] = s
        /\ \A u \in Event \ {t} : rest'[u] = rest[u] /\ on'[u] = on[u]
    BY <1>3, <2>2 DEF DataEvent, IndInv, TypeOK, SessionType
  <2> QED BY <2>3 DEF Gt06Sessions
<1>4. ASSUME NEW s \in Socket, SocketStep(s) PROVE Gt06Sessions'
  BY <1>2, <1>3, <1>4 DEF SocketStep, Connect, SocketEnds, CloseEvent, CloseRead,
    CloseWrite, session, tcp
<1>5. ASSUME NEW t \in Event, TaskStep(t) PROVE Gt06Sessions'
  <2>1. CASE Authorize(t)
    <3>1. /\ isAuthorized' = [isAuthorized EXCEPT ![on[t]] = TRUE] /\ rest' = rest /\ on' = on
          /\ pc[t] = "sismember"
      BY <2>1 DEF Authorize
    <3>2. ProtocolOf[on[t]] = "GT06"
      BY <3>1, RunningTask DEF Gt06Sessions
    <3>3. \A s \in Socket : s # on[t] => isAuthorized'[s] = isAuthorized[s]
      BY <3>1, Zenon DEF IndInv, TypeOK, TcpType
    <3>4. \A s \in Socket : isAuthorized'[s] => ProtocolOf[s] = "GT06"
      BY <3>2, <3>3, Zenon DEF Gt06Sessions
    <3> QED BY <3>1, <3>4, Zenon DEF Gt06Sessions
  <2>2. CASE ~Authorize(t)
    <3>1. isAuthorized' = isAuthorized
      BY <1>5, <2>2 DEF TaskStep, Reject, StatusRead, LoginStatusWrite, DataStatusWrite,
        StatusWritten, GetCommands, WriteCallback, FindCommand, RemoveFromList, DeleteRow,
        DeleteMissing, tcp
    <3>2. \A u \in Event : rest'[u] # <<>> => rest[u] # <<>>
      BY <1>5, TaskFixes, RunningTask DEF TaskKeepsFixes
    <3> QED BY <1>1, <1>5, <3>1, <3>2, TaskFixes
  <2> QED BY <2>1, <2>2
<1>6. CASE Crash
  BY <1>6 DEF Crash, Gt06Sessions
<1>7. CASE Outage
  <2>1. PICK failed \in SUBSET Event : TasksFail(failed)
    BY <1>7 DEF Outage, RedisOutage, DatabaseOutage
  <2> QED BY <1>1, <1>7, <2>1 DEF Outage, TasksFail, tcp
<1>8. CASE BootStep \/ Tick \/ (\E k \in Run : SyncStep(k)) \/ UNCHANGED vars
  BY <1>2, <1>8 DEF BootStep, BootStatusRead, BootStatusDel, BootStatusSet, Tick, SyncStep,
    ImeisRead, ImeisAnswered, ImeisDel, ImeisAdd, StatusSnapshot, StatusUpsert, RowsRead,
    RowsAnswered, PipelineExec, session, tcp, vars
<1>9. CASE (\E c \in Command : ApiStep(c)) \/ \E d \in Device : RegisterDevice(d) \/ RemoveDevice(d)
  BY <1>2, <1>9 DEF ApiStep, SendNow, StartQueueing, CreateRow, RegisterDevice, RemoveDevice,
    session, tcp
<1> QED BY <1>4, <1>5, <1>6, <1>7, <1>8, <1>9 DEF Next, Environment

LEMMA InitSessions ==
    ASSUME Init
    PROVE  ForwardedInOrder /\ Gt06Sessions
  BY EmptySeq DEF Init, ForwardedInOrder, Gt06Sessions
-----------------------------------------------------------------------------
(* Everything the listener's runs check of its flows, in one invariant.    *)
THEOREM FlowInvariant == Spec => []FlowInv
<1>1. Init => FixFlow /\ Gt06Sessions /\ ForwardedInOrder
  BY InitFixes, InitSessions
<1>2. IndInv /\ SessionNames /\ StatusFlow /\ FixFlow /\ [Next]_vars => FixFlow'
  BY NextFixes
<1>3. IndInv /\ SessionNames /\ FixFlow /\ Gt06Sessions /\ [Next]_vars => Gt06Sessions'
  BY NextGt06
<1>4. /\ IndInv /\ SessionNames /\ StatusFlow /\ FixFlow /\ ForwardedInOrder /\ [Next]_vars
      => ForwardedInOrder'
  BY NextInOrder
<1>5. /\ CommandFlow /\ RunsAlone /\ MapFlow /\ SessionNames /\ StatusFlow /\ FixFlow
      /\ Gt06Sessions /\ ForwardedInOrder
      => FlowInv
  BY DEF FlowInv
<1> QED BY <1>1, <1>2, <1>3, <1>4, <1>5, IndInvInvariant, CommandFlowInvariant,
           RunsAloneInvariant, NamesInvariant, PTL DEF Spec

(* updateDeviceLiveStatus merges a read and a write with awaits between,   *)
(* and the IMEI of a socket may change during them: what it leaves for an  *)
(* IMEI is nonetheless a position that was acknowledged under that IMEI,   *)
(* and so is everything forwarded.                                         *)
THEOREM FixesAlwaysOwn == Spec => []FixesAreOwn
<1>1. FlowInv => FixesAreOwn
  BY DEF FlowInv, FixFlow
<1> QED BY <1>1, FlowInvariant, PTL

(* Gt06Service.processData and forwardData: no location is forwarded a     *)
(* second time, and those of one 'data' event keep their order.            *)
THEOREM ForwardedAlwaysInOrder == Spec => []ForwardedInOrder
<1>1. FlowInv => ForwardedInOrder
  BY DEF FlowInv
<1> QED BY <1>1, FlowInvariant, PTL
-----------------------------------------------------------------------------
(* A location that arrives on an authorised socket is in its batch, and    *)
(* the batch loses it only as its first item.                              *)
Taken(p) == p \notin acked /\ isAuthorized[on'[p[1][1]]] => InHand(p)'
Released(p) == InHand(p) /\ isAuthorized[on[p[1][1]]] /\ ~InHand(p)'
               => p \in posted' \/ BatchDropped(p[1][1])

LEMMA ArrivesInHand ==
    ASSUME IndInv, SessionNames, FixFlow, Gt06Sessions, NEW s \in Socket, DataEvent(s),
           NEW p \in acked'
    PROVE  Taken(p) /\ Released(p)
<1>1. PICK t \in Event : t = nData + 1 /\ nData \in Nat
  BY BoundAssumption DEF DataEvent, IndInv, TypeOK, LogType, Event
<1> DEFINE todo(chunk) == IF ProtocolOf[s] = "GT06"
                          THEN Rest(Parsed(t, s, chunk), isAuthorized[s]) ELSE <<>>
<1>2. PICK chunk \in Chunk[s] : /\ rest' = [rest EXCEPT ![t] = todo(chunk)]
                                /\ acked' = acked \cup Acknowledged(t, s, chunk)
                                /\ on' = [on EXCEPT ![t] = s]
  BY <1>1, Zenon DEF DataEvent, StartItem
<1>3. PICK r : r = todo(chunk)
  OBVIOUS
<1>4. rest'[t] = r /\ on'[t] = s /\ \A u \in Event \ {t} : rest'[u] = rest[u]
  BY <1>2, <1>3 DEF IndInv, TypeOK, SessionType
<1>5. rest[t] = <<>>
  <2>1. rest[t] # <<>> => t <= nData
    BY Zenon DEF SessionNames, NamesItsDevice
  <2> QED BY <1>1, <2>1
<1>6. ASSUME p \notin acked, isAuthorized[on'[p[1][1]]]
      PROVE  InHand(p)'
  <2>1. PICK i \in DOMAIN chunk : /\ chunk[i].type = "LOCATION"
                                  /\ p = <<<<t, i>>, ImeiAt(s, chunk, i)>>
    BY <1>2, <1>6 DEF Acknowledged
  <2>2. p[1][1] = t
    BY <2>1
  <2>3. isAuthorized[s]
    BY <1>4, <1>6, <2>2, Zenon
  <2>4. ProtocolOf[s] = "GT06"
    BY <2>3, Zenon DEF Gt06Sessions
  <2>5. r = Parsed(t, s, chunk)
    BY <1>3, <2>3, <2>4, Zenon DEF Rest
  <2>6. i \in DOMAIN r /\ r[i].type = "LOCATION" /\ <<r[i].fix, r[i].imei>> = p
    BY <2>1, <2>5 DEF Parsed
  <2> QED BY <1>4, <2>2, <2>6 DEF InHand
<1> HIDE DEF todo
<1>7. ASSUME InHand(p)
      PROVE  InHand(p)'
  <2>1. p[1][1] # t
    BY <1>5, <1>7, EmptySeq DEF InHand
  <2>2. p[1][1] \in Event
    <3>1. CASE p \in acked
      BY <3>1 DEF IndInv, TypeOK, LogType, Report, Fix
    <3>2. CASE p \in Acknowledged(t, s, chunk)
      BY <2>1, <3>2 DEF Acknowledged
    <3> QED BY <1>2, <3>1, <3>2
  <2>3. rest'[p[1][1]] = rest[p[1][1]]
    BY <1>4, <2>1, <2>2
  <2> QED BY <1>7, <2>3 DEF InHand
<1> QED BY <1>6, <1>7, Zenon DEF Taken, Released

LEMMA TaskReleases ==
    ASSUME IndInv, SessionNames, FixFlow, NEW t \in Event, TaskStep(t), NEW p \in acked'
    PROVE  Taken(p) /\ Released(p)
<1>1. acked' = acked /\ p[1][1] \in Event
  <2>1. acked' = acked
    BY TaskFixes
  <2> QED BY <2>1 DEF IndInv, TypeOK, LogType, Report, Fix
<1>2. ASSUME InHand(p), isAuthorized[on[p[1][1]]], ~InHand(p)'
      PROVE  p \in posted' \/ BatchDropped(p[1][1])
  <2>1. p[1][1] = t
    <3>1. \A u \in Event \ {t} : rest'[u] = rest[u]
      BY TaskFixes
    <3>2. p[1][1] # t => rest'[p[1][1]] = rest[p[1][1]]
      BY <1>1, <3>1
    <3> QED BY <1>2, <3>2, Zenon DEF InHand
  <2>2. rest'[t] # rest[t]
    BY <1>2, <2>1, Zenon DEF InHand
  <2>3. CASE Reject(t) \/ DeleteMissing(t)
    BY <2>1, <2>3, Zenon DEF BatchDropped
  <2>4. CASE ~(Reject(t) \/ DeleteMissing(t))
    <3>1. /\ rest'[t] = Remaining(t) /\ pc[t] \in {"hset", "lrange", "delete"}
          /\ pc[t] = "hset" => DataStatusWrite(t)
      BY <2>2, <2>4 DEF TaskStep, Authorize, StatusRead, LoginStatusWrite, DataStatusWrite,
        GetCommands, WriteCallback, FindCommand, RemoveFromList, DeleteRow, MoveOn, StartItem,
        IndInv, TypeOK, SessionType
    <3>2. Remaining(t) = Tail(rest[t])
      BY <1>2, <2>1, Zenon DEF Remaining, Rest
    <3>3. rest[t] \in Seq(Packet) /\ rest[t] # <<>>
      BY <3>1, RunningTask
    <3>4. PICK i \in DOMAIN rest[t] : /\ rest[t][i].type = "LOCATION"
                                      /\ <<rest[t][i].fix, rest[t][i].imei>> = p
      BY <1>2, <2>1 DEF InHand
    <3>5. i = 1
      <4> SUFFICES ASSUME i # 1 PROVE FALSE
        OBVIOUS
      <4>1. /\ Tail(rest[t]) \in Seq(Packet) /\ Len(Tail(rest[t])) = Len(rest[t]) - 1
            /\ \A j \in 1..Len(Tail(rest[t])) : Tail(rest[t])[j] = rest[t][j + 1]
        BY <3>3, HeadTailProperties
      <4>2. /\ DOMAIN rest[t] = 1..Len(rest[t]) /\ Len(rest[t]) \in Nat
            /\ DOMAIN Tail(rest[t]) = 1..Len(Tail(rest[t]))
        BY <3>3, <4>1, LenProperties
      <4>3. i - 1 \in DOMAIN Tail(rest[t]) /\ Tail(rest[t])[i - 1] = rest[t][i]
        BY <4>1, <4>2
      <4>4. i - 1 \in DOMAIN rest'[t] /\ rest'[t][i - 1] = rest[t][i]
        BY <3>1, <3>2, <4>3, Zenon
      <4>5. InHand(p)'
        BY <2>1, <3>4, <4>4, Zenon DEF InHand
      <4> QED BY <1>2, <4>5
    <3>6. Item(t).type = "LOCATION" /\ <<Item(t).fix, Item(t).imei>> = p
      BY <3>3, <3>4, <3>5, TailElements DEF Item
    <3>7. pc[t] = "hset"
      BY <3>1, <3>6 DEF IndInv, SessionShape, LoginPc, Item
    <3> QED BY <3>1, <3>6, <3>7 DEF DataStatusWrite
  <2> QED BY <2>3, <2>4
<1> QED BY <1>1, <1>2, Zenon DEF Taken, Released

LEMMA NextReleases ==
    ASSUME IndInv, SessionNames, FixFlow, Gt06Sessions, Next, NEW p \in acked'
    PROVE  Taken(p) /\ Released(p)
<1>1. ASSUME UNCHANGED <<rest, acked>> PROVE Taken(p) /\ Released(p)
  BY <1>1 DEF Taken, Released, InHand
<1>2. ASSUME NEW s \in Socket, SocketStep(s) PROVE Taken(p) /\ Released(p)
  <2>1. CASE Connect(s) \/ SocketEnds(s) \/ CloseEvent(s) \/ CloseRead(s) \/ CloseWrite(s)
    BY <1>1, <2>1 DEF Connect, SocketEnds, CloseEvent, CloseRead, CloseWrite, session, history
  <2> QED BY <1>2, <2>1, ArrivesInHand DEF SocketStep
<1>3. CASE Crash \/ Outage
  <2>1. acked' = acked
    BY <1>3 DEF Crash, Outage, history
  <2> QED BY <1>3, <2>1, Zenon DEF Taken, Released, BatchDropped
<1>4. CASE BootStep \/ Tick \/ (\E k \in Run : SyncStep(k))
  BY <1>1, <1>4 DEF BootStep, BootStatusRead, BootStatusDel, BootStatusSet, Tick, SyncStep,
    ImeisRead, ImeisAnswered, ImeisDel, ImeisAdd, StatusSnapshot, StatusUpsert, RowsRead,
    RowsAnswered, PipelineExec, session, history
<1>5. CASE (\E c \in Command : ApiStep(c)) \/ \E d \in Device : RegisterDevice(d) \/ RemoveDevice(d)
  BY <1>1, <1>5 DEF ApiStep, SendNow, StartQueueing, CreateRow, RegisterDevice, RemoveDevice,
    session, history
<1> QED BY <1>2, <1>3, <1>4, <1>5, TaskReleases DEF Next, Environment

(* Gt06Service.processData: what was acknowledged on an authorised socket  *)
(* is forwarded, unless its batch ends at a login that is refused, at a    *)
(* command whose row is gone, or with a fault.                             *)
THEOREM AcceptedAlwaysForwarded == Spec => AcceptedIsForwarded
<1>1. IndInv /\ FlowInv /\ [Next]_vars
      => [\A p \in acked' :
             /\ p \notin acked /\ isAuthorized[on'[p[1][1]]] => InHand(p)'
             /\ InHand(p) /\ isAuthorized[on[p[1][1]]] /\ ~InHand(p)'
                => p \in posted' \/ BatchDropped(p[1][1])]_vars
  BY NextReleases, Zenon DEF FlowInv, Taken, Released
<1> QED BY <1>1, IndInvInvariant, FlowInvariant, PTL DEF Spec, AcceptedIsForwarded
=============================================================================
