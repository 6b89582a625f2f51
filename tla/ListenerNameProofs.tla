-------------------------- MODULE ListenerNameProofs --------------------------
(***************************************************************************)
(* Proofs about connections and names, on top of IndInv: the map leads to  *)
(* live sockets (MapFlow), a session works for IMEIs that its socket has   *)
(* claimed (SessionNames), and a stranger leaves no trace (StatusFlow).    *)
(***************************************************************************)
EXTENDS ListenerProofs

(* Two places of the map never have the same key.                          *)
UniqueIds(m) == \A i, j \in DOMAIN m : SameId(m[i], m[j]) => i = j

(* Map.set replaces the entry with the key of s, or adds one.              *)
LEMMA MapSetElements ==
    ASSUME NEW m \in Seq(Socket), UniqueIds(m), NEW s \in Socket
    PROVE  /\ UniqueIds(MapSet(m, s))
           /\ \A u \in Socket :
                 u \in ToSet(MapSet(m, s)) <=> u = s \/ (u \in ToSet(m) /\ ~SameId(u, s))
<1> DEFINE r == MapSet(m, s)
<1>0. /\ DOMAIN m = 1..Len(m) /\ Len(m) \in Nat
      /\ \A i \in DOMAIN m : m[i] \in Socket
  BY LenProperties, ElementOfSeq
<1>1. CASE \E i \in DOMAIN m : SameId(m[i], s)
  <2>1. PICK n \in DOMAIN m : SameId(m[n], s)
    BY <1>1
  <2>2. /\ DOMAIN r = DOMAIN m
        /\ \A i \in DOMAIN m : r[i] = IF SameId(m[i], s) THEN s ELSE m[i]
    BY <1>1 DEF MapSet
  <2> HIDE DEF r
  <2>3. \A i \in DOMAIN m : SameId(r[i], m[i]) /\ (r[i] = s \/ ~SameId(r[i], s))
    BY <2>2 DEF SameId
  <2>4. UniqueIds(r)
    BY <2>2, <2>3 DEF UniqueIds, SameId
  <2>5. s = r[n]
    BY <2>1, <2>2
  <2>6. ASSUME NEW u \in Socket
        PROVE  u \in ToSet(r) <=> u = s \/ (u \in ToSet(m) /\ ~SameId(u, s))
    BY <2>1, <2>2, <2>3, <2>5 DEF ToSet, SameId
  <2> QED BY <2>4, <2>6 DEF r
<1>2. CASE ~\E i \in DOMAIN m : SameId(m[i], s)
  <2>1. /\ r \in Seq(Socket) /\ Len(r) = Len(m) + 1
        /\ \A i \in 1..Len(m) : r[i] = m[i]
        /\ r[Len(m) + 1] = s
    BY <1>2, AppendProperties DEF MapSet
  <2>2. DOMAIN r = 1..(Len(m) + 1)
    BY <2>1, LenProperties
  <2> HIDE DEF r
  <2>3. \A i \in DOMAIN r : i \in DOMAIN m \/ i = Len(m) + 1
    BY <1>0, <2>2
  <2>4. UniqueIds(r)
    BY <1>0, <1>2, <2>1, <2>3 DEF UniqueIds, SameId
  <2>5. \A i \in DOMAIN m : i \in DOMAIN r
    BY <1>0, <2>2
  <2>6. Len(m) + 1 \in DOMAIN r
    BY <1>0, <2>2
  <2>7. ASSUME NEW u \in Socket
        PROVE  u \in ToSet(r) <=> u = s \/ (u \in ToSet(m) /\ ~SameId(u, s))
    BY <1>0, <1>2, <2>1, <2>3, <2>5, <2>6 DEF ToSet, SameId
  <2> QED BY <2>4, <2>7 DEF r
<1> QED BY <1>1, <1>2

(* Map.delete takes out the one entry with the key of s, if there is one.  *)
LEMMA MapDeleteElements ==
    ASSUME NEW m \in Seq(Socket), UniqueIds(m), NEW s \in Socket
    PROVE  /\ UniqueIds(MapDelete(m, s))
           /\ \A u \in ToSet(MapDelete(m, s)) : u \in ToSet(m) /\ ~SameId(u, s)
           /\ \A u \in ToSet(m) : ~SameId(u, s) => u \in ToSet(MapDelete(m, s))
<1> DEFINE I == {i \in 1..Len(m) : SameId(m[i], s)}
<1>0. DOMAIN m = 1..Len(m) /\ Len(m) \in Nat
  BY LenProperties
<1>1. CASE I = {}
  <2>1. MapDelete(m, s) = m
    BY <1>1 DEF MapDelete, RemoveFirstMatch
  <2>2. \A i \in DOMAIN m : ~SameId(m[i], s)
    BY <1>0, <1>1
  <2> QED BY <2>1, <2>2 DEF ToSet
<1>2. CASE I # {}
  <2>1. Min(I) \in I
    <3>1. I \in SUBSET Nat
      OBVIOUS
    <3> HIDE DEF I
    <3> QED BY <1>2, <3>1, MinInSet
  <2>2. MapDelete(m, s) = RemoveAt(m, Min(I))
    BY <1>2 DEF MapDelete, RemoveFirstMatch, SelectInSeq
  <2> DEFINE n == Min(I)
             r == RemoveAt(m, n)
  <2>3. n \in DOMAIN m /\ SameId(m[n], s)
    BY <1>0, <2>1
  <2> HIDE DEF I, n
  <2>4. /\ DOMAIN r = 1..(Len(m) - 1)
        /\ \A j \in DOMAIN r : /\ j \in DOMAIN m /\ j + 1 \in DOMAIN m
                               /\ r[j] = IF j < n THEN m[j] ELSE m[j + 1]
    BY <2>3, RemoveAtElements
  <2> HIDE DEF r
  <2>5. \A j \in DOMAIN r : \E i \in DOMAIN m : /\ r[j] = m[i] /\ i # n
                                                /\ i = IF j < n THEN j ELSE j + 1
    BY <1>0, <2>3, <2>4
  <2>6. \A i \in DOMAIN m : i # n => \E j \in DOMAIN r : r[j] = m[i]
    <3> TAKE i \in DOMAIN m
    <3>1. CASE i < n
      BY <1>0, <2>3, <2>4, <3>1
    <3>2. CASE i > n
      <4>1. i - 1 \in DOMAIN r /\ r[i - 1] = m[i]
        BY <1>0, <2>3, <2>4, <3>2
      <4> QED BY <4>1
    <3> QED BY <1>0, <2>3, <3>1, <3>2
  <2>7. UniqueIds(r)
    BY <1>0, <2>3, <2>4, <2>5 DEF UniqueIds
  <2>8. \A i \in DOMAIN m : SameId(m[i], s) <=> i = n
    BY <2>3 DEF UniqueIds, SameId
  <2>9. /\ \A u \in ToSet(r) : u \in ToSet(m) /\ ~SameId(u, s)
        /\ \A u \in ToSet(m) : ~SameId(u, s) => u \in ToSet(r)
    BY <2>5, <2>6, <2>8 DEF ToSet
  <2> QED BY <2>2, <2>7, <2>9 DEF r, n
<1> QED BY <1>1, <1>2
-----------------------------------------------------------------------------
(* The map.                                                                *)
LEMMA MapIsUnique ==
    ASSUME IndInv, MapFlow
    PROVE  /\ connections \in Seq(Socket) /\ ToSet(connections) \subseteq Socket
           /\ UniqueIds(connections)
<1>1. connections \in Seq(Socket)
  BY DEF IndInv, TypeOK, TcpType
<1>2. \A i \in DOMAIN connections : connections[i] \in Socket
  BY <1>1, ElementOfSeq, LenProperties
<1> QED BY <1>1, <1>2 DEF MapFlow, UniqueIds, ToSet

LEMMA SameConnections ==
    ASSUME IndInv, MapFlow, connections' = connections,
           \A s \in Socket : (sock'[s] \in {"open", "destroyed"}) <=> Tracked(s)
    PROVE  MapFlow'
<1>1. \A s \in Socket : Tracked(s)' <=> Tracked(s)
  BY DEF Tracked
<1>2. ConnectionsAreLive'
  BY <1>1, MapIsUnique DEF MapFlow, ConnectionsAreLive, SameId, ToSet
<1> QED BY <1>2 DEF MapFlow, SameId

(* handleConnection, and the 'data' handler, set the entry of a socket     *)
(* that is alive.                                                          *)
LEMMA EntrySet ==
    ASSUME IndInv, MapFlow, NEW s \in Socket, connections' = MapSet(connections, s),
           sock'[s] = "open", \A u \in Socket \ {s} : sock'[u] = sock[u]
    PROVE  MapFlow'
<1> DEFINE new == MapSet(connections, s)
<1>1. /\ UniqueIds(new)
      /\ \A u \in Socket :
            u \in ToSet(new) <=> u = s \/ (u \in ToSet(connections) /\ ~SameId(u, s))
      /\ new \in Seq(Socket)
  BY MapIsUnique, MapSetElements, MapSetType
<1>2. ToSet(new) \subseteq Socket
  <2> HIDE DEF new
  <2>1. \A i \in DOMAIN new : new[i] \in Socket
    BY <1>1, ElementOfSeq, LenProperties
  <2> QED BY <2>1 DEF ToSet
<1>3. ToSet(connections') = ToSet(new)
  OBVIOUS
<1> HIDE DEF new
<1>4. \A u \in ToSet(connections') : Tracked(u)'
  BY <1>1, <1>2, <1>3 DEF MapFlow, ConnectionsAreLive, Tracked
<1>5. ASSUME NEW u \in Socket, Tracked(u)'
      PROVE  \/ u \in ToSet(connections')
             \/ \E v \in Socket \ {u} : SameId(u, v)
  <2>1. CASE u = s
    BY <1>1, <1>3, <2>1
  <2>2. CASE u # s
    <3>1. Tracked(u)
      BY <1>5, <2>2 DEF Tracked
    <3>2. u \in ToSet(connections) \/ \E v \in Socket \ {u} : SameId(u, v)
      BY <3>1 DEF MapFlow, ConnectionsAreLive
    <3> QED BY <1>1, <1>3, <2>2, <3>2
  <2> QED BY <2>1, <2>2
<1>6. ConnectionsAreLive'
  BY <1>4, <1>5 DEF ConnectionsAreLive, SameId, ToSet, Tracked
<1>7. \A i, j \in DOMAIN connections' : SameId(connections'[i], connections'[j]) => i = j
  BY <1>1 DEF UniqueIds, new
<1> QED BY <1>6, <1>7 DEF MapFlow, SameId

(* handleDisconnection deletes the entry of a socket that is then closed.  *)
LEMMA CloseEventMap ==
    ASSUME IndInv, MapFlow, NEW s \in Socket, CloseEvent(s)
    PROVE  MapFlow'
<1> DEFINE new == MapDelete(connections, s)
<1>1. /\ UniqueIds(new)
      /\ \A u \in ToSet(new) : u \in ToSet(connections) /\ ~SameId(u, s)
      /\ \A u \in ToSet(connections) : ~SameId(u, s) => u \in ToSet(new)
  BY MapIsUnique, MapDeleteElements
<1>2. /\ connections' = new
      /\ \A u \in Socket : sock'[u] = IF u = s THEN "closed" ELSE sock[u]
  BY DEF CloseEvent, IndInv, TypeOK, TcpType
<1> HIDE DEF new
<1>3. \A u \in ToSet(connections') : Tracked(u)'
  BY <1>1, <1>2, MapIsUnique DEF MapFlow, ConnectionsAreLive, Tracked, SameId
<1>4. ASSUME NEW u \in Socket, Tracked(u)'
      PROVE  \/ u \in ToSet(connections')
             \/ \E v \in Socket \ {u} : SameId(u, v)
  <2>1. u # s /\ Tracked(u)
    BY <1>2, <1>4 DEF Tracked
  <2>2. u \in ToSet(connections) \/ \E v \in Socket \ {u} : SameId(u, v)
    BY <2>1 DEF MapFlow, ConnectionsAreLive
  <2> QED BY <1>1, <1>2, <2>1, <2>2
<1>5. ConnectionsAreLive'
  BY <1>3, <1>4 DEF ConnectionsAreLive, SameId, ToSet, Tracked
<1> QED BY <1>1, <1>2, <1>5 DEF MapFlow, UniqueIds, SameId

LEMMA CrashMap ==
    ASSUME IndInv, Crash
    PROVE  MapFlow'
<1>1. connections' = <<>> /\ ToSet(connections') = {} /\ DOMAIN connections' = {}
  BY EmptySeq DEF Crash, ToSet
<1>2. \A s \in Socket : ~Tracked(s)'
  BY DEF Crash, Tracked
<1> QED BY <1>1, <1>2 DEF MapFlow, ConnectionsAreLive

LEMMA NextMap ==
    ASSUME IndInv, MapFlow, [Next]_vars
    PROVE  MapFlow'
<1>1. ASSUME NEW s \in Socket, SocketStep(s)
      PROVE  MapFlow'
  <2>1. CASE Connect(s) \/ DataEvent(s)
    <3>1. connections' = MapSet(connections, s) /\ sock'[s] = "open"
          /\ \A u \in Socket \ {s} : sock'[u] = sock[u]
      BY <2>1 DEF Connect, DataEvent, IndInv, TypeOK, TcpType
    <3> QED BY <3>1, EntrySet
  <2>2. CASE CloseEvent(s)
    BY <2>2, CloseEventMap
  <2>3. CASE SocketEnds(s)
    BY <2>3, SameConnections DEF SocketEnds, Tracked, IndInv, TypeOK, TcpType
  <2>4. CASE CloseRead(s) \/ CloseWrite(s)
    BY <2>4, SameConnections DEF CloseRead, CloseWrite, Tracked, tcp
  <2> QED BY <1>1, <2>1, <2>2, <2>3, <2>4 DEF SocketStep
<1>2. ASSUME NEW t \in Event, TaskStep(t)
      PROVE  MapFlow'
  <2>1. CASE Reject(t)
    <3>1. on[t] \in Socket
      BY <2>1, RunningTask DEF Reject
    <3> QED BY <2>1, <3>1, SameConnections DEF Reject, Tracked, IndInv, TypeOK, TcpType
  <2>2. CASE ~Reject(t)
    <3>1. sock' = sock /\ connections' = connections
      BY <1>2, <2>2 DEF TaskStep, Authorize, StatusRead, LoginStatusWrite, DataStatusWrite,
        StatusWritten, GetCommands, WriteCallback, FindCommand, RemoveFromList, DeleteRow,
        DeleteMissing, tcp
    <3> QED BY <3>1, SameConnections DEF Tracked
  <2> QED BY <2>1, <2>2
<1>3. CASE BootStep \/ Tick \/ \E k \in Run : SyncStep(k)
  BY <1>3, SameConnections DEF BootStep, BootStatusRead, BootStatusDel, BootStatusSet, Tick,
    SyncStep, ImeisRead, ImeisAnswered, ImeisDel, ImeisAdd, StatusSnapshot, StatusUpsert,
    RowsRead, RowsAnswered, PipelineExec, Tracked, tcp
<1>4. CASE \E c \in Command : ApiStep(c)
  BY <1>4, SameConnections DEF ApiStep, SendNow, StartQueueing, CreateRow, Tracked, tcp
<1>5. CASE Environment
  BY <1>5, SameConnections, CrashMap DEF Environment, Outage, RegisterDevice, RemoveDevice,
    Tracked, tcp
<1>6. CASE UNCHANGED vars
  BY <1>6, SameConnections DEF Tracked, vars, tcp
<1> QED BY <1>1, <1>2, <1>3, <1>4, <1>5, <1>6 DEF Next
-----------------------------------------------------------------------------
(* The names.  The items of a task name IMEIs that its socket has claimed, *)
(* and carry the number of their event.                                    *)
NamedAmong(items, C, t) ==
    \A i \in DOMAIN items : /\ items[i].imei \in C
                            /\ items[i].type = "LOCATION" => items[i].fix[1] = t

(* Once it is authorised, a socket has a claimed IMEI in its meta.         *)
LEMMA MetaClaimed ==
    ASSUME SessionNames, NEW s \in Socket, isAuthorized[s]
    PROVE  metaImei[s] \in claimed[s]
<1>1. metaImei[s] \in claimed[s] \cup {None}
  BY Zenon DEF SessionNames
<1>2. metaImei[s] # None
  BY Zenon DEF SessionNames
<1> QED BY <1>1, <1>2

LEMMA ParsedNames ==
    ASSUME IndInv, SessionNames, NEW s \in Socket, NEW t \in Event, NEW chunk \in Chunk[s],
           NEW C, C = claimed[s] \cup Claims(chunk),
           NEW r, r = Rest(Parsed(t, s, chunk), isAuthorized[s])
    PROVE  /\ ImeiAt(s, chunk, Len(chunk)) \in C \cup {None}
           /\ isAuthorized[s] => ImeiAt(s, chunk, Len(chunk)) \in C
           /\ r \in Seq(Packet) /\ NamedAmong(r, C, t)
           /\ PcFor(r) = "hget" => isAuthorized[s]
<1>0. TcpType
  BY DEF IndInv, TypeOK
<1>1. PICK n \in 0..MaxBatch : chunk \in [1..n -> Message]
  BY ChunkOfMessages
<1>2. n \in Nat /\ Len(chunk) = n /\ DOMAIN chunk = 1..n
  BY <1>1, BoundAssumption, LenProperties, SeqDef
<1>3. PICK items \in Seq(Packet) : items = Parsed(t, s, chunk)
  BY <1>0, ParsedItems
<1>4. \A i \in DOMAIN items : /\ i \in 1..n /\ items[i].type = chunk[i].type
                              /\ items[i].imei = ImeiAt(s, chunk, i)
                              /\ items[i].type = "LOCATION" => items[i].fix[1] = t
  <2> TAKE i \in DOMAIN items
  <2>1. /\ i \in 1..n /\ items[i].type = chunk[i].type
        /\ items[i].imei = ImeiAt(s, chunk, i)
        /\ items[i].fix = IF chunk[i].type = "LOCATION" THEN <<t, i>> ELSE None
    BY <1>0, <1>2, <1>3, ParsedItems
  <2>2. items[i].type = "LOCATION" => items[i].fix = <<t, i>>
    BY <2>1
  <2> QED BY <2>1, <2>2
<1>5. ASSUME NEW i \in 0..n
      PROVE  /\ ImeiAt(s, chunk, i) \in C \cup {None}
             /\ isAuthorized[s] => ImeiAt(s, chunk, i) \in C
             /\ (\E k \in 1..i : chunk[k].type = "LOGIN") => ImeiAt(s, chunk, i) \in C
  <2>1. \/ ImeiAt(s, chunk, i) \in Claims(chunk)
        \/ LoginsUpTo(chunk, i) = {} /\ ImeiAt(s, chunk, i) = metaImei[s]
    <3>1. i \in 0..Len(chunk)
      BY <1>2
    <3> QED BY <3>1, ImeiAtClaimed
  <2>2. metaImei[s] \in claimed[s] \cup {None}
    BY Zenon DEF SessionNames
  <2>3. isAuthorized[s] => metaImei[s] \in claimed[s]
    BY MetaClaimed
  <2>4. (\E k \in 1..i : chunk[k].type = "LOGIN") => LoginsUpTo(chunk, i) # {}
    BY DEF LoginsUpTo
  <2>5. isAuthorized[s] => ImeiAt(s, chunk, i) \in C
    <3>1. metaImei[s] \in claimed[s] => ImeiAt(s, chunk, i) \in C
      BY <2>1
    <3> QED BY <2>3, <3>1, Zenon
  <2> QED BY <2>1, <2>2, <2>4, <2>5
<1>6. CASE isAuthorized[s]
  <2>1. r = items
    BY <1>3, <1>6, Zenon DEF Rest
  <2>2. \A i \in 0..n : ImeiAt(s, chunk, i) \in C
    BY <1>5, <1>6, Zenon
  <2>3. NamedAmong(items, C, t)
    BY <1>2, <1>4, <2>2 DEF NamedAmong
  <2>4. n \in 0..n
    BY <1>2
  <2> QED BY <1>2, <1>3, <1>6, <2>1, <2>2, <2>3, <2>4, Zenon
<1>7. CASE ~isAuthorized[s]
  <2>1. r = Rest(items, FALSE)
    <3>1. isAuthorized[s] = FALSE
      BY <1>0, <1>7, Zenon DEF TcpType
    <3> QED BY <1>3, <3>1, Zenon
  <2>2. ImeiAt(s, chunk, Len(chunk)) \in C \cup {None}
    BY <1>2, <1>5
  <2>3. CASE r = <<>>
    <3>1. r \in Seq(Packet) /\ NamedAmong(r, C, t) /\ PcFor(r) # "hget"
      BY <2>3, EmptySeq DEF NamedAmong, PcFor
    <3> QED BY <1>7, <2>2, <3>1, Zenon
  <2>4. CASE r # <<>>
    <3>1. Head(r).type = "LOGIN"
      BY <2>1, <2>4, RestWithoutAuthorization, Zenon
    <3>2. \A i \in DOMAIN r : \E j \in DOMAIN items : /\ r[i] = items[j]
                                                      /\ \E k \in 1..j : items[k].type = "LOGIN"
      <4>1. Rest(items, FALSE) # <<>>
        BY <2>1, <2>4
      <4>2. \A i \in DOMAIN Rest(items, FALSE) :
               \E j \in DOMAIN items : /\ Rest(items, FALSE)[i] = items[j]
                                       /\ \E k \in 1..j : items[k].type = "LOGIN"
        BY <4>1, RestWithoutAuthorization, Zenon
      <4> QED BY <2>1, <4>2
    <3>3. r \in Seq(Packet)
      <4>1. \A a \in BOOLEAN : Rest(items, a) \in Seq(Packet)
        BY RestProperties, Zenon
      <4>2. Rest(items, FALSE) \in Seq(Packet)
        BY <4>1
      <4> QED BY <2>1, <4>2
    <3>4. PcFor(r) # "hget"
      BY <2>4, <3>1 DEF PcFor
    <3>5. DOMAIN items = 1..n
      BY <1>2, <1>3 DEF Parsed
    <3>6. ASSUME NEW i \in DOMAIN r
          PROVE  r[i].imei \in C /\ (r[i].type = "LOCATION" => r[i].fix[1] = t)
      <4>1. PICK j \in 1..n : r[i] = items[j] /\ \E k \in 1..j : items[k].type = "LOGIN"
        BY <3>2, <3>5
      <4>2. \E k \in 1..j : chunk[k].type = "LOGIN"
        BY <1>2, <1>4, <3>5, <4>1
      <4>3. ImeiAt(s, chunk, j) \in C
        BY <1>2, <1>5, <4>2
      <4> QED BY <1>4, <3>5, <4>1, <4>3
    <3> QED BY <1>7, <2>2, <3>3, <3>4, <3>6, Zenon DEF NamedAmong
  <2> QED BY <2>3, <2>4
<1> QED BY <1>6, <1>7, Zenon

(* What is left of a batch carries the same names.                         *)
LEMMA RemainingNames ==
    ASSUME IndInv, SessionNames, NEW t \in Event, pc[t] \notin {"idle", "done"}
    PROVE  /\ Remaining(t) \in Seq(Packet)
           /\ NamedAmong(Remaining(t), claimed[on[t]], t)
           /\ PcFor(Remaining(t)) = "hget" => isAuthorized[on[t]]
<1> DEFINE left == Tail(rest[t])
           a == isAuthorized[on[t]]
           r == Rest(left, a)
<1>1. /\ rest[t] \in Seq(Packet) /\ rest[t] # <<>> /\ on[t] \in Socket
  BY RunningTask
<1>2. a \in BOOLEAN
  BY <1>1, Zenon DEF IndInv, TypeOK, TcpType
<1>3. left \in Seq(Packet) /\ \A i \in DOMAIN left : \E j \in DOMAIN rest[t] : left[i] = rest[t][j]
  BY <1>1, TailElements, HeadTailProperties
<1>4. r \in Seq(Packet) /\ \A i \in DOMAIN r : \E j \in DOMAIN left : r[i] = left[j]
  BY <1>2, <1>3, RestProperties, Zenon
<1>5. NamedAmong(rest[t], claimed[on[t]], t)
  BY DEF SessionNames, NamesItsDevice, NamedAmong
<1>6. PcFor(r) = "hget" => a
  <2> SUFFICES ASSUME ~a PROVE PcFor(r) # "hget"
    BY Zenon
  <2>1. a = FALSE
    BY <1>2, Zenon
  <2>2. r = Rest(left, FALSE)
    BY <2>1, Zenon
  <2>3. r = <<>> \/ Head(r).type = "LOGIN"
    BY <1>3, <2>2, RestWithoutAuthorization, Zenon
  <2> HIDE DEF r, a
  <2> QED BY <2>3 DEF PcFor
<1> HIDE DEF r, left
<1>7. NamedAmong(r, claimed[on[t]], t)
  BY <1>3, <1>4, <1>5 DEF NamedAmong
<1>8. r = Remaining(t)
  BY Zenon DEF r, left, Remaining
<1> QED BY <1>4, <1>6, <1>7, <1>8, Zenon

(* The IMEI whose status an item updates is among its names: a heartbeat   *)
(* takes it from the socket, but only from one that is authorised.         *)
LEMMA KeyNames ==
    ASSUME NEW l \in Seq(Packet), NEW imei, NEW C, NEW t, NamedAmong(l, C, t),
           PcFor(l) = "hget" => imei \in C, PcFor(l) # "done"
    PROVE  /\ KeyFor(l, imei) \in C
           /\ l[1].type # "HEARTBEAT" => KeyFor(l, imei) = l[1].imei
<1>1. l # <<>>
  BY DEF PcFor
<1>2. Head(l) = l[1] /\ 1 \in DOMAIN l
  BY <1>1, TailElements
<1>3. l[1].imei \in C
  BY <1>2 DEF NamedAmong
<1>4. l[1].type = "HEARTBEAT" => imei \in C
  BY <1>1, <1>2 DEF PcFor
<1> QED BY <1>1, <1>2, <1>3, <1>4 DEF KeyFor

(* A task stays with its item, ends, goes on within an item on a socket    *)
(* that is authorised, or moves on to the next item: the names are kept.   *)
Beyond(u) == pc[u] \notin {"idle", "sismember", "done"}
TaskKeepsNames(u) ==
    \/ pc'[u] = pc[u] /\ rest'[u] = rest[u] /\ key'[u] = key[u]
    \/ pc'[u] = "done" /\ rest'[u] = <<>>
    \/ /\ pc[u] \notin {"idle", "done"} /\ isAuthorized'[on[u]]
       /\ rest'[u] = rest[u] /\ key'[u] = key[u]
    \/ /\ pc[u] \notin {"idle", "done"}
       /\ rest'[u] = Remaining(u) /\ pc'[u] = PcFor(Remaining(u))
       /\ key'[u] = KeyFor(Remaining(u), metaImei[on[u]])

LEMMA NamesKept ==
    ASSUME IndInv, SessionNames, nData' = nData, on' = on, claimed' = claimed,
           \A s \in Socket : isAuthorized[s] => isAuthorized'[s],
           \A s \in Socket : metaImei'[s] \in claimed[s] \cup {None},
           \A s \in Socket : isAuthorized'[s] => metaImei'[s] # None,
           \A u \in Event : TaskKeepsNames(u)
    PROVE  SessionNames'
<1> SUFFICES ASSUME NEW u \in Event
             PROVE  NamesItsDevice(u)'
  BY Zenon DEF SessionNames
<1>0. NamesItsDevice(u) /\ NamedAmong(rest[u], claimed[on[u]], u)
  BY Zenon DEF SessionNames, NamesItsDevice, NamedAmong
<1>1. CASE pc'[u] = pc[u] /\ rest'[u] = rest[u] /\ key'[u] = key[u]
  <2>1. Beyond(u) => on[u] \in Socket /\ isAuthorized[on[u]]
    BY <1>0, RunningTask DEF NamesItsDevice, Beyond
  <2>2. Beyond(u) => isAuthorized'[on[u]]
    BY <2>1, Zenon
  <2> QED BY <1>0, <1>1, <2>2, Zenon DEF NamesItsDevice, Beyond
<1>2. CASE pc'[u] = "done" /\ rest'[u] = <<>>
  <2>1. DOMAIN rest'[u] = {}
    BY <1>2, EmptySeq
  <2> QED BY <1>2, <2>1 DEF NamesItsDevice
<1>3. CASE /\ pc[u] \notin {"idle", "done"} /\ isAuthorized'[on[u]]
           /\ rest'[u] = rest[u] /\ key'[u] = key[u]
  BY <1>0, <1>3, Zenon DEF NamesItsDevice
<1>4. CASE /\ pc[u] \notin {"idle", "done"}
           /\ rest'[u] = Remaining(u) /\ pc'[u] = PcFor(Remaining(u))
           /\ key'[u] = KeyFor(Remaining(u), metaImei[on[u]])
  <2>1. /\ Remaining(u) \in Seq(Packet)
        /\ NamedAmong(Remaining(u), claimed[on[u]], u)
        /\ PcFor(Remaining(u)) = "hget" => isAuthorized[on[u]]
    BY <1>4, RemainingNames
  <2>2. on[u] \in Socket /\ rest[u] # <<>>
    BY <1>4, RunningTask
  <2>3. PcFor(Remaining(u)) \in {"done", "sismember", "hget"}
    BY StartedPc
  <2>4. u <= nData
    BY <1>0, <2>2, Zenon DEF NamesItsDevice
  <2>5. PcFor(Remaining(u)) = "hget" => isAuthorized'[on[u]]
    BY <2>1, <2>2, Zenon
  <2>6. pc'[u] \notin {"idle", "sismember", "done"} => isAuthorized'[on'[u]]
    <3>1. pc'[u] \notin {"idle", "sismember", "done"} => PcFor(Remaining(u)) = "hget"
      BY <1>4, <2>3
    <3> QED BY <2>5, <3>1, Zenon
  <2>7. PcFor(Remaining(u)) = "hget" => metaImei[on[u]] \in claimed[on[u]]
    BY <2>1, <2>2, MetaClaimed, Zenon
  <2>8. pc'[u] \notin {"idle", "done"} =>
          /\ key'[u] \in claimed'[on'[u]]
          /\ rest'[u][1].type # "HEARTBEAT" => key'[u] = rest'[u][1].imei
    <3>1. PcFor(Remaining(u)) # "done" =>
            /\ KeyFor(Remaining(u), metaImei[on[u]]) \in claimed[on[u]]
            /\ Remaining(u)[1].type # "HEARTBEAT"
                 => KeyFor(Remaining(u), metaImei[on[u]]) = Remaining(u)[1].imei
      BY <2>1, <2>7, KeyNames
    <3> QED BY <1>4, <3>1
  <2> QED BY <1>4, <2>1, <2>4, <2>6, <2>8, Zenon DEF NamesItsDevice, NamedAmong
<1> QED BY <1>1, <1>2, <1>3, <1>4, Zenon DEF TaskKeepsNames

(* Every step of a task.                                                   *)
LEMMA TaskNames ==
    ASSUME IndInv, SessionNames, NEW t \in Event, TaskStep(t)
    PROVE  SessionNames'
<1> USE DEF IndInv, TypeOK
<1>1. pc[t] \notin {"idle", "done"}
  BY DEF TaskStep, Authorize, Reject, StatusRead, LoginStatusWrite, DataStatusWrite,
    GetCommands, WriteCallback, FindCommand, RemoveFromList, DeleteRow, DeleteMissing
<1>2. on[t] \in Socket
  BY <1>1, RunningTask
<1>3. nData' = nData /\ on' = on /\ claimed' = claimed
  BY DEF TaskStep, Authorize, Reject, StatusRead, LoginStatusWrite, DataStatusWrite,
    StatusWritten, GetCommands, WriteCallback, FindCommand, RemoveFromList, DeleteRow,
    DeleteMissing, session, counts, history
<1>4. CASE Authorize(t)
  <2>1. PICK d \in claimed[on[t]] \cap Device : d = Item(t).imei
    BY <1>1, <1>4, RunningTask DEF Authorize, SessionShape, LoginPc, Item
  <2>2. /\ metaImei' = [metaImei EXCEPT ![on[t]] = d]
        /\ isAuthorized' = [isAuthorized EXCEPT ![on[t]] = TRUE]
        /\ rest' = rest /\ key' = key /\ pc' = [pc EXCEPT ![t] = "hget"]
    BY <1>4, <2>1, Zenon DEF Authorize
  <2>3. \A s \in Socket : /\ metaImei'[s] = IF s = on[t] THEN d ELSE metaImei[s]
                          /\ s # on[t] => isAuthorized'[s] = isAuthorized[s]
    BY <2>2 DEF TcpType
  <2>4. isAuthorized'[on[t]] = TRUE
    BY <1>2, <2>2 DEF TcpType
  <2>5. \A u \in Event \ {t} : pc'[u] = pc[u]
    BY <2>2 DEF SessionType
  <2>6. \A s \in Socket : isAuthorized[s] => isAuthorized'[s]
    BY <2>3, <2>4, Zenon
  <2>7. \A s \in Socket : metaImei'[s] \in claimed[s] \cup {None}
    BY <2>1, <2>3 DEF SessionNames
  <2>8. \A s \in Socket : isAuthorized'[s] => metaImei'[s] # None
    <3>1. d # None
      BY <2>1, NoneAssumption
    <3> QED BY <2>3, <3>1, Zenon DEF SessionNames
  <2>9. \A u \in Event : TaskKeepsNames(u)
    BY <1>1, <2>2, <2>4, <2>5, Zenon DEF TaskKeepsNames
  <2> QED BY <1>3, <2>6, <2>7, <2>8, <2>9, NamesKept
<1>5. CASE ~Authorize(t)
  <2>1. metaImei' = metaImei /\ isAuthorized' = isAuthorized
    BY <1>5 DEF TaskStep, Reject, StatusRead, LoginStatusWrite, DataStatusWrite,
      StatusWritten, GetCommands, WriteCallback, FindCommand, RemoveFromList, DeleteRow,
      DeleteMissing, tcp
  <2>2. \/ Finish(t)
        \/ MoveOn(t)
        \/ Beyond(t) /\ rest' = rest /\ key' = key /\ \E p : pc' = [pc EXCEPT ![t] = p]
    BY <1>5 DEF TaskStep, Reject, StatusRead, LoginStatusWrite, DataStatusWrite,
      StatusWritten, GetCommands, WriteCallback, FindCommand, RemoveFromList, DeleteRow,
      DeleteMissing, StartSend, session, Beyond
  <2>3. \A u \in Event \ {t} : pc'[u] = pc[u] /\ rest'[u] = rest[u] /\ key'[u] = key[u]
    BY <2>2 DEF Finish, MoveOn, StartItem, SessionType
  <2>4. TaskKeepsNames(t)
    <3>1. CASE Finish(t)
      <4>1. PcFor(<<>>) = "done"
        BY DEF PcFor
      <4> QED BY <3>1, <4>1 DEF Finish, StartItem, TaskKeepsNames, SessionType
    <3>2. CASE MoveOn(t)
      BY <1>1, <3>2 DEF MoveOn, StartItem, TaskKeepsNames, SessionType
    <3>3. CASE Beyond(t) /\ rest' = rest /\ key' = key
      <4>1. isAuthorized'[on[t]]
        BY <2>1, <3>3, Zenon DEF Beyond, SessionNames, NamesItsDevice
      <4> QED BY <1>1, <3>3, <4>1, Zenon DEF TaskKeepsNames
    <3> QED BY <2>2, <3>1, <3>2, <3>3
  <2>5. \A u \in Event : TaskKeepsNames(u)
    BY <2>3, <2>4, Zenon DEF TaskKeepsNames
  <2>6. /\ \A s \in Socket : isAuthorized[s] => isAuthorized'[s]
        /\ \A s \in Socket : metaImei'[s] \in claimed[s] \cup {None}
        /\ \A s \in Socket : isAuthorized'[s] => metaImei'[s] # None
    BY <2>1, Zenon DEF SessionNames
  <2> QED BY <1>3, <2>5, <2>6, NamesKept
<1> QED BY <1>4, <1>5

(* A chunk of data: the packets of its task carry the right names.         *)
LEMMA DataEventNames ==
    ASSUME IndInv, SessionNames, NEW s \in Socket, DataEvent(s)
    PROVE  SessionNames'
<1> USE DEF IndInv, TypeOK
<1>1. PICK t \in Event : t = nData + 1 /\ nData \in Nat
  BY BoundAssumption DEF DataEvent, LogType, Event
<1> DEFINE parsed(chunk) == Rest(Parsed(t, s, chunk), isAuthorized[s])
           todo(chunk) == IF ProtocolOf[s] = "GT06" THEN parsed(chunk) ELSE <<>>
<1>2. PICK chunk \in Chunk[s] :
        /\ metaImei' = [metaImei EXCEPT ![s] = ImeiAt(s, chunk, Len(chunk))]
        /\ claimed' = [claimed EXCEPT ![s] = @ \cup Claims(chunk)]
        /\ on' = [on EXCEPT ![t] = s]
        /\ rest' = [rest EXCEPT ![t] = todo(chunk)]
        /\ pc' = [pc EXCEPT ![t] = PcFor(todo(chunk))]
        /\ key' = [key EXCEPT ![t] = KeyFor(todo(chunk), ImeiAt(s, chunk, Len(chunk)))]
  BY <1>1, Zenon DEF DataEvent, StartItem
<1>3. isAuthorized' = isAuthorized /\ nData' = nData + 1
  BY DEF DataEvent
<1>4. PICK C : C = claimed[s] \cup Claims(chunk)
  OBVIOUS
<1>5. PICK imei : imei = ImeiAt(s, chunk, Len(chunk))
  OBVIOUS
<1>6. PICK r : r = todo(chunk)
  OBVIOUS
<1>7. /\ imei \in C \cup {None} /\ (isAuthorized[s] => imei \in C)
      /\ r \in Seq(Packet) /\ NamedAmong(r, C, t)
      /\ PcFor(r) = "hget" => isAuthorized[s]
  <2>1. PICK q : q = parsed(chunk)
    OBVIOUS
  <2>2. /\ imei \in C \cup {None} /\ (isAuthorized[s] => imei \in C)
        /\ q \in Seq(Packet) /\ NamedAmong(q, C, t)
        /\ PcFor(q) = "hget" => isAuthorized[s]
    BY <1>4, <1>5, <2>1, ParsedNames, Zenon
  <2>3. r = q \/ r = <<>>
    BY <1>6, <2>1
  <2>4. <<>> \in Seq(Packet) /\ NamedAmong(<<>>, C, t) /\ PcFor(<<>>) # "hget"
    BY EmptySeq DEF NamedAmong, PcFor
  <2> QED BY <2>2, <2>3, <2>4, Zenon
<1> HIDE DEF todo
<1>8. /\ metaImei'[s] = imei /\ claimed'[s] = C
      /\ \A u \in Socket \ {s} : metaImei'[u] = metaImei[u] /\ claimed'[u] = claimed[u]
      /\ \A u \in Socket : claimed[u] \subseteq claimed'[u]
  BY <1>2, <1>4, <1>5 DEF TcpType, LogType
<1>9. /\ pc'[t] = PcFor(r) /\ rest'[t] = r /\ on'[t] = s /\ key'[t] = KeyFor(r, imei)
      /\ \A u \in Event \ {t} : /\ pc'[u] = pc[u] /\ rest'[u] = rest[u]
                                /\ on'[u] = on[u] /\ key'[u] = key[u]
  BY <1>1, <1>2, <1>5, <1>6 DEF SessionType
<1>10. \A u \in Socket : metaImei'[u] \in claimed'[u] \cup {None}
  BY <1>7, <1>8 DEF SessionNames
<1>11. \A u \in Socket : isAuthorized'[u] => metaImei'[u] # None
  <2>1. None \notin C
    BY <1>4, ClaimsType, NoneAssumption DEF LogType
  <2>2. imei \in C => metaImei'[s] # None
    BY <1>8, <2>1
  <2>3. \A u \in Socket \ {s} : isAuthorized'[u] => metaImei'[u] # None
    BY <1>3, <1>8, Zenon DEF SessionNames
  <2>4. isAuthorized'[s] => metaImei'[s] # None
    BY <1>3, <1>7, <2>2, Zenon
  <2> QED BY <2>3, <2>4, Zenon
<1>12. NamesItsDevice(t)'
  <2>1. t <= nData'
    BY <1>1, <1>3
  <2>2. pc'[t] \notin {"idle", "sismember", "done"} => isAuthorized'[on'[t]]
    <3>1. pc'[t] \notin {"idle", "sismember", "done"} => PcFor(r) = "hget"
      BY <1>9, StartedPc
    <3> QED BY <1>3, <1>7, <1>9, <3>1, Zenon
  <2>3. NamedAmong(rest'[t], claimed'[on'[t]], t)
    BY <1>7, <1>8, <1>9
  <2>4. PcFor(r) = "hget" => imei \in C
    BY <1>7, Zenon
  <2>5. PcFor(r) # "done" => /\ KeyFor(r, imei) \in C
                             /\ r[1].type # "HEARTBEAT" => KeyFor(r, imei) = r[1].imei
    BY <1>7, <2>4, KeyNames
  <2>6. pc'[t] \notin {"idle", "done"} =>
          /\ key'[t] \in claimed'[on'[t]]
          /\ rest'[t][1].type # "HEARTBEAT" => key'[t] = rest'[t][1].imei
    BY <1>8, <1>9, <2>5
  <2> QED BY <2>1, <2>2, <2>3, <2>6, Zenon DEF NamesItsDevice, NamedAmong
<1>13. ASSUME NEW u \in Event \ {t}
       PROVE  NamesItsDevice(u)'
  <2>1. NamesItsDevice(u)
    BY Zenon DEF SessionNames
  <2>2. rest[u] # <<>> => u <= nData'
    BY <1>1, <1>3, <2>1 DEF Event, NamesItsDevice
  <2>3. on[u] \in Socket => claimed[on[u]] \subseteq claimed'[on[u]]
    BY <1>8
  <2>4. CASE rest[u] = <<>>
    <3>1. DOMAIN rest'[u] = {} /\ pc'[u] \in {"idle", "done"}
      BY <1>9, <2>4, EmptySeq DEF SessionShape
    <3> QED BY <1>9, <2>4, <3>1 DEF NamesItsDevice
  <2>5. CASE rest[u] # <<>>
    <3>1. on[u] \in Socket /\ claimed[on[u]] \subseteq claimed'[on[u]]
      BY <2>3, <2>5 DEF SessionShape
    <3>2. pc'[u] \notin {"idle", "sismember", "done"} => isAuthorized'[on'[u]]
      BY <1>3, <1>9, <2>1, Zenon DEF NamesItsDevice
    <3>3. pc'[u] \notin {"idle", "done"} =>
            /\ key'[u] \in claimed'[on'[u]]
            /\ rest'[u][1].type # "HEARTBEAT" => key'[u] = rest'[u][1].imei
      BY <1>9, <2>1, <3>1 DEF NamesItsDevice
    <3>4. \A i \in DOMAIN rest'[u] :
             /\ rest'[u][i].imei \in claimed'[on'[u]]
             /\ rest'[u][i].type = "LOCATION" => rest'[u][i].fix[1] = u
      BY <1>9, <2>1, <3>1 DEF NamesItsDevice
    <3> QED BY <1>9, <2>2, <2>5, <3>2, <3>3, <3>4, Zenon DEF NamesItsDevice
  <2> QED BY <2>4, <2>5
<1> QED BY <1>10, <1>11, <1>12, <1>13, Zenon DEF SessionNames

LEMMA CrashNames ==
    ASSUME IndInv, Crash
    PROVE  SessionNames'
<1>1. \A s \in Socket : isAuthorized'[s] = FALSE /\ metaImei'[s] = None
  BY DEF Crash
<1>2. \A t \in Event : pc'[t] \in {"idle", "done"} /\ rest'[t] = <<>>
  BY DEF Crash
<1>3. \A t \in Event : DOMAIN rest'[t] = {}
  BY <1>2, EmptySeq
<1>4. \A t \in Event : NamesItsDevice(t)'
  BY <1>2, <1>3 DEF NamesItsDevice
<1>5. \A s \in Socket : metaImei'[s] \in claimed'[s] \cup {None}
  BY <1>1
<1> QED BY <1>1, <1>4, <1>5, Zenon DEF SessionNames

LEMMA SameNames ==
    ASSUME IndInv, SessionNames, nData' = nData, on' = on, metaImei' = metaImei,
           isAuthorized' = isAuthorized, claimed' = claimed,
           pc' = pc, rest' = rest, key' = key
    PROVE  SessionNames'
<1>1. \A u \in Event : TaskKeepsNames(u)
  BY Zenon DEF TaskKeepsNames
<1>2. /\ \A s \in Socket : isAuthorized[s] => isAuthorized'[s]
      /\ \A s \in Socket : metaImei'[s] \in claimed[s] \cup {None}
      /\ \A s \in Socket : isAuthorized'[s] => metaImei'[s] # None
  BY Zenon DEF SessionNames
<1> QED BY <1>1, <1>2, NamesKept

LEMMA OutageNames ==
    ASSUME IndInv, SessionNames, Outage
    PROVE  SessionNames'
<1>1. /\ nData' = nData /\ on' = on /\ metaImei' = metaImei
      /\ isAuthorized' = isAuthorized /\ claimed' = claimed
  BY DEF Outage, tcp, history
<1>2. \A u \in Event : TaskKeepsNames(u)
  <2>1. PICK failed \in SUBSET Event : TasksFail(failed)
    BY DEF Outage, RedisOutage, DatabaseOutage
  <2>2. \A u \in Event : \/ pc'[u] = pc[u] /\ rest'[u] = rest[u] /\ key'[u] = key[u]
                         \/ pc'[u] = "done" /\ rest'[u] = <<>>
    BY <2>1 DEF TasksFail
  <2> QED BY <2>2, Zenon DEF TaskKeepsNames
<1>3. /\ \A s \in Socket : isAuthorized[s] => isAuthorized'[s]
      /\ \A s \in Socket : metaImei'[s] \in claimed[s] \cup {None}
      /\ \A s \in Socket : isAuthorized'[s] => metaImei'[s] # None
  BY <1>1, Zenon DEF SessionNames
<1> QED BY <1>1, <1>2, <1>3, NamesKept

LEMMA NextNames ==
    ASSUME IndInv, SessionNames, [Next]_vars
    PROVE  SessionNames'
<1>1. ASSUME NEW s \in Socket, SocketStep(s)
      PROVE  SessionNames'
  <2>1. CASE ~DataEvent(s)
    BY <1>1, <2>1, SameNames DEF SocketStep, Connect, SocketEnds, CloseEvent, CloseRead,
      CloseWrite, tcp, session, counts, history
  <2> QED BY <2>1, DataEventNames
<1>2. CASE BootStep \/ Tick \/ \E k \in Run : SyncStep(k)
  BY <1>2, SameNames DEF BootStep, BootStatusRead, BootStatusDel, BootStatusSet, Tick,
    SyncStep, ImeisRead, ImeisAnswered, ImeisDel, ImeisAdd, StatusSnapshot, StatusUpsert,
    RowsRead, RowsAnswered, PipelineExec, tcp, session, counts, history
<1>3. CASE \E c \in Command : ApiStep(c)
  BY <1>3, SameNames DEF ApiStep, SendNow, StartQueueing, CreateRow, tcp, session, counts,
    history
<1>4. CASE \E d \in Device : RegisterDevice(d) \/ RemoveDevice(d)
  BY <1>4, SameNames DEF RegisterDevice, RemoveDevice, tcp, session, counts, history
<1>5. CASE UNCHANGED vars
  BY <1>5, SameNames DEF vars, tcp, session, counts, history
<1> QED BY <1>1, <1>2, <1>3, <1>4, <1>5, TaskNames, CrashNames, OutageNames
      DEF Next, Environment
-----------------------------------------------------------------------------
(* The statuses.  Registrations and claims are never taken back, so that a *)
(* stranger has always been one.                                           *)
LEMMA HistoryGrows ==
    ASSUME IndInv, [Next]_vars
    PROVE  /\ everRegistered \subseteq everRegistered'
           /\ \A s \in Socket : claimed[s] \subseteq claimed'[s]
<1>1. ASSUME NEW s \in Socket, SocketStep(s)
      PROVE  /\ everRegistered \subseteq everRegistered'
             /\ \A u \in Socket : claimed[u] \subseteq claimed'[u]
  <2>1. CASE DataEvent(s)
    BY <2>1 DEF DataEvent, IndInv, TypeOK, LogType
  <2>2. CASE ~DataEvent(s)
    BY <1>1, <2>2 DEF SocketStep, Connect, SocketEnds, CloseEvent, CloseRead, CloseWrite,
      history
  <2> QED BY <2>1, <2>2
<1>2. CASE \E t \in Event : TaskStep(t)
  BY <1>2 DEF TaskStep, Authorize, Reject, StatusRead, LoginStatusWrite, DataStatusWrite,
    StatusWritten, GetCommands, WriteCallback, FindCommand, RemoveFromList, DeleteRow,
    DeleteMissing, history
<1>3. CASE BootStep \/ Tick \/ \E k \in Run : SyncStep(k)
  BY <1>3 DEF BootStep, BootStatusRead, BootStatusDel, BootStatusSet, Tick, SyncStep,
    ImeisRead, ImeisAnswered, ImeisDel, ImeisAdd, StatusSnapshot, StatusUpsert, RowsRead,
    RowsAnswered, PipelineExec, history
<1>4. CASE \E c \in Command : ApiStep(c)
  BY <1>4 DEF ApiStep, SendNow, StartQueueing, CreateRow, history
<1>5. CASE Environment
  BY <1>5 DEF Environment, Crash, Outage, RegisterDevice, RemoveDevice, history
<1>6. CASE UNCHANGED vars
  BY <1>6 DEF vars, history
<1> QED BY <1>1, <1>2, <1>3, <1>4, <1>5, <1>6 DEF Next

NoNewStrangers == \A d \in Imei : Stranger(d)' => Stranger(d)

LEMMA StrangersBefore ==
    ASSUME IndInv, [Next]_vars
    PROVE  NoNewStrangers
  BY HistoryGrows DEF NoNewStrangers, Stranger, Registered, VouchedFor

(* What keeps each part of StatusFlow.                                     *)
LEMMA CopiesKept ==
    ASSUME StatusFlow, NoNewStrangers,
           \A d \in Imei : Stranger(d)' /\ LeavesNoTrace(statusHash[d])
                             => LeavesNoTrace(statusHash'[d]),
           deviceStatus' = deviceStatus, snapStatus' = snapStatus
    PROVE  CopiesClean'
<1> SUFFICES ASSUME NEW d \in Imei, Stranger(d)'
             PROVE  /\ LeavesNoTrace(statusHash'[d]) /\ LeavesNoTrace(deviceStatus'[d])
                    /\ \A k \in Run : LeavesNoTrace(snapStatus'[k][d])
  BY DEF CopiesClean, Clean, LeavesNoTrace
<1>1. Stranger(d)
  BY DEF NoNewStrangers
<1> QED BY <1>1 DEF StatusFlow, CopiesClean, Clean

LEMMA ClosesKept ==
    ASSUME StatusFlow, NoNewStrangers,
           \A s \in Socket : sock'[s] # "closed" => sock[s] # "closed",
           closing' = closing, closeKey' = closeKey, closeRead' = closeRead
    PROVE  ClosesClean'
<1> SUFFICES ASSUME NEW s \in Socket
             PROVE  /\ sock'[s] # "closed" => closing'[s] = "no" /\ closeRead'[s] = None
                    /\ \A d \in Imei : Stranger(d)' /\ closeKey'[s] = d
                                       => LeavesNoTrace(closeRead'[s])
  BY DEF ClosesClean, LeavesNoTrace
<1> QED BY DEF StatusFlow, ClosesClean, NoNewStrangers

LEMMA PostsKept ==
    ASSUME LogType, StatusFlow, NoNewStrangers, posted' = posted
    PROVE  PostsRegistered'
<1> SUFFICES ASSUME NEW p \in posted, Stranger(p[2])' PROVE FALSE
  BY DEF PostsRegistered
<1>1. p[2] \in Imei
  BY DEF LogType, Report
<1>2. Stranger(p[2])
  BY <1>1 DEF NoNewStrangers
<1> QED BY <1>2 DEF StatusFlow, PostsRegistered

(* Many steps leave statuses alone.                                        *)
LEMMA SameStatuses ==
    ASSUME IndInv, StatusFlow, [Next]_vars,
           statusHash' = statusHash, deviceStatus' = deviceStatus, snapStatus' = snapStatus,
           closing' = closing, closeKey' = closeKey, closeRead' = closeRead,
           \A s \in Socket : sock'[s] # "closed" => sock[s] # "closed",
           posted' = posted
    PROVE  StatusFlow'
<1>1. NoNewStrangers /\ LogType
  BY StrangersBefore DEF IndInv, TypeOK
<1>2. CopiesClean' /\ ClosesClean' /\ PostsRegistered'
  BY <1>1, CopiesKept, ClosesKept, PostsKept
<1> QED BY <1>2 DEF StatusFlow

(* A task that works on a status or a location is not on a stranger's.     *)
LEMMA BeyondNotStranger ==
    ASSUME IndInv, SessionNames, NEW t \in Event, Beyond(t)
    PROVE  /\ on[t] \in Socket /\ key[t] \in Imei /\ ~Stranger(key[t])
           /\ Item(t).type = "LOCATION" => key[t] = Item(t).imei
<1>1. on[t] \in Socket /\ rest[t] \in Seq(Packet) /\ rest[t] # <<>> /\ key[t] \in Imei
  BY RunningTask DEF Beyond
<1>2. Item(t) = rest[t][1]
  BY <1>1, TailElements DEF Item
<1>3. NamesItsDevice(t)
  BY Zenon DEF SessionNames
<1>4. isAuthorized[on[t]]
  BY <1>3, Zenon DEF Beyond, NamesItsDevice
<1>5. claimed[on[t]] \cap everRegistered # {}
  BY <1>1, <1>4, Zenon DEF IndInv, RegistrationFlow, AuthorizedWasRegistered
<1>6. /\ key[t] \in claimed[on[t]]
      /\ rest[t][1].type # "HEARTBEAT" => key[t] = rest[t][1].imei
  BY <1>3 DEF NamesItsDevice, Beyond
<1> QED BY <1>1, <1>2, <1>5, <1>6 DEF Stranger, VouchedFor

(* updateDeviceLiveStatus of a session does not write for a stranger, and  *)
(* what it forwards is not about one.                                      *)
LEMMA StatusWriteStatuses ==
    ASSUME IndInv, SessionNames, StatusFlow, NEW t \in Event, NoNewStrangers,
           LoginStatusWrite(t) \/ DataStatusWrite(t)
    PROVE  StatusFlow'
<1>0. CloseType /\ LogType /\ CacheType
  BY DEF IndInv, TypeOK
<1>1. /\ deviceStatus' = deviceStatus /\ snapStatus' = snapStatus
      /\ sock' = sock /\ closing' = closing /\ closeKey' = closeKey
      /\ closeRead' = closeRead
      /\ \E e : statusHash' = [statusHash EXCEPT ![key[t]] = e]
  BY DEF LoginStatusWrite, DataStatusWrite, StatusWritten, UpdatedImei, tcp, db, closes, syncs
<1>2. /\ on[t] \in Socket /\ key[t] \in Imei /\ ~Stranger(key[t])
      /\ Item(t).type = "LOCATION" => key[t] = Item(t).imei
  BY BeyondNotStranger DEF LoginStatusWrite, DataStatusWrite, Beyond
<1>3. \A d \in Imei : Stranger(d)' => statusHash'[d] = statusHash[d]
  <2> SUFFICES ASSUME NEW d \in Imei, Stranger(d)' PROVE statusHash'[d] = statusHash[d]
    OBVIOUS
  <2>1. d # key[t]
    BY <1>2 DEF NoNewStrangers
  <2> QED BY <1>0, <1>1, <2>1 DEF CacheType
<1>4. CopiesClean' /\ ClosesClean'
  BY <1>0, <1>1, <1>3, CopiesKept, ClosesKept
<1>5. PostsRegistered'
  <2>1. \A p \in posted' : \/ p \in posted
                           \/ Item(t).type = "LOCATION" /\ p = <<Item(t).fix, Item(t).imei>>
    BY DEF LoginStatusWrite, DataStatusWrite
  <2>2. \A p \in posted : p[2] \in Imei
    BY <1>0 DEF LogType, Report
  <2>3. \A p \in posted' : p[2] \in Imei /\ ~Stranger(p[2])
    BY <1>2, <2>1, <2>2 DEF StatusFlow, PostsRegistered
  <2>4. \A p \in posted' : ~Stranger(p[2])'
    BY <2>3 DEF NoNewStrangers
  <2> QED BY <2>4 DEF PostsRegistered
<1> QED BY <1>4, <1>5 DEF StatusFlow

(* A 'close' reads the entry of the IMEI that meta had, which is clean if  *)
(* that is a stranger's, and writes 'DISCONNECTED' without a fix into it.  *)
LEMMA CloseStatuses ==
    ASSUME IndInv, StatusFlow, NEW s \in Socket, NoNewStrangers,
           CloseEvent(s) \/ CloseRead(s) \/ CloseWrite(s)
    PROVE  StatusFlow'
<1>0. TcpType /\ CacheType /\ CloseType /\ LogType
  BY DEF IndInv, TypeOK
<1>1. /\ deviceStatus' = deviceStatus /\ snapStatus' = snapStatus /\ posted' = posted
      /\ closeKey[s] \in Imei
  BY <1>0 DEF CloseEvent, CloseRead, CloseWrite, tcp, db, session, syncs, history, CloseType
<1>2. PostsRegistered'
  BY <1>0, <1>1, PostsKept
<1>3. ASSUME NEW d \in Imei, Stranger(d)', LeavesNoTrace(statusHash[d])
      PROVE  LeavesNoTrace(statusHash'[d])
  <2>1. CASE CloseEvent(s) \/ CloseRead(s)
    BY <1>3, <2>1 DEF CloseEvent, CloseRead, cache
  <2>2. CASE CloseWrite(s)
    <3>1. closeKey[s] = d => LeavesNoTrace(closeRead[s])
      BY <1>3 DEF StatusFlow, ClosesClean, NoNewStrangers
    <3>2. closeKey[s] = d => LeavesNoTrace(Merged(closeRead[s], "DISCONNECTED", None))
      BY <3>1 DEF LeavesNoTrace, Merged
    <3>3. statusHash'[d] = IF closeKey[s] = d
                           THEN Merged(closeRead[s], "DISCONNECTED", None) ELSE statusHash[d]
      BY <1>0, <2>2 DEF CloseWrite, CacheType
    <3> QED BY <1>3, <3>2, <3>3
  <2> QED BY <2>1, <2>2
<1>4. CopiesClean'
  BY <1>1, <1>3, CopiesKept
<1>5. ASSUME NEW u \in Socket
      PROVE  /\ sock'[u] # "closed" => closing'[u] = "no" /\ closeRead'[u] = None
             /\ \A d \in Imei : Stranger(d)' /\ closeKey'[u] = d => LeavesNoTrace(closeRead'[u])
  <2>1. /\ sock[u] # "closed" => closing[u] = "no" /\ closeRead[u] = None
        /\ \A d \in Imei : Stranger(d)' /\ closeKey[u] = d => LeavesNoTrace(closeRead[u])
    BY DEF StatusFlow, ClosesClean, NoNewStrangers
  <2>2. CASE u # s
    <3>1. /\ sock'[u] = sock[u] /\ closing'[u] = closing[u]
          /\ closeKey'[u] = closeKey[u] /\ closeRead'[u] = closeRead[u]
      BY <1>0, <2>2 DEF CloseEvent, CloseRead, CloseWrite, tcp, TcpType, CloseType
    <3> QED BY <2>1, <3>1
  <2>3. CASE u = s /\ CloseEvent(s)
    <3>1. sock'[s] = "closed" /\ closeRead'[s] = None
      BY <1>0, <2>1, <2>3 DEF CloseEvent, TcpType
    <3> QED BY <2>3, <3>1 DEF LeavesNoTrace
  <2>4. CASE u = s /\ CloseRead(s)
    <3>1. /\ sock'[s] = sock[s] /\ closing[s] = "hget" /\ closeKey'[s] = closeKey[s]
          /\ closeRead'[s] = statusHash[closeKey[s]]
      BY <1>0, <2>4 DEF CloseRead, tcp, CloseType
    <3>2. \A d \in Imei : Stranger(d)' => LeavesNoTrace(statusHash[d])
      BY DEF StatusFlow, CopiesClean, Clean, NoNewStrangers
    <3> QED BY <2>1, <2>4, <3>1, <3>2
  <2>5. CASE u = s /\ CloseWrite(s)
    <3>1. sock'[s] = sock[s] /\ closing[s] = "hset" /\ closeRead'[s] = None
      BY <1>0, <2>5 DEF CloseWrite, tcp, CloseType
    <3> QED BY <2>1, <2>5, <3>1 DEF LeavesNoTrace
  <2> QED BY <2>2, <2>3, <2>4, <2>5
<1>6. ClosesClean'
  BY <1>5 DEF ClosesClean, LeavesNoTrace
<1> QED BY <1>2, <1>4, <1>6 DEF StatusFlow

(* The syncs copy statuses between the hash, the snapshots and the table.  *)
LEMMA SyncStatuses ==
    ASSUME IndInv, StatusFlow, NoNewStrangers, closing' = closing, closeKey' = closeKey,
           closeRead' = closeRead, sock' = sock, posted' = posted,
           \A d \in Imei : Stranger(d) =>
              /\ LeavesNoTrace(statusHash'[d]) /\ LeavesNoTrace(deviceStatus'[d])
              /\ \A k \in Run : LeavesNoTrace(snapStatus'[k][d])
    PROVE  StatusFlow'
<1>1. ClosesClean' /\ PostsRegistered'
  BY ClosesKept, PostsKept DEF IndInv, TypeOK
<1>2. \A d \in Imei : Stranger(d)' =>
              /\ LeavesNoTrace(statusHash'[d]) /\ LeavesNoTrace(deviceStatus'[d])
              /\ \A k \in Run : LeavesNoTrace(snapStatus'[k][d])
  BY DEF NoNewStrangers
<1>3. CopiesClean'
  BY <1>2 DEF CopiesClean, Clean, LeavesNoTrace
<1> QED BY <1>1, <1>3 DEF StatusFlow

LEMMA BootStatuses ==
    ASSUME IndInv, StatusFlow, NoNewStrangers, BootStep
    PROVE  StatusFlow'
<1>1. /\ closing' = closing /\ closeKey' = closeKey /\ closeRead' = closeRead
      /\ sock' = sock /\ posted' = posted
  BY DEF BootStep, BootStatusRead, BootStatusDel, BootStatusSet, tcp, session, closes,
    history
<1>2. 0 \in Run
  BY BoundAssumption DEF Run
<1>3. ASSUME NEW d \in Imei, Stranger(d)
      PROVE  /\ LeavesNoTrace(statusHash'[d]) /\ LeavesNoTrace(deviceStatus'[d])
             /\ \A k \in Run : LeavesNoTrace(snapStatus'[k][d])
  <2>1. /\ LeavesNoTrace(statusHash[d]) /\ LeavesNoTrace(deviceStatus[d])
        /\ \A k \in Run : LeavesNoTrace(snapStatus[k][d])
        /\ LeavesNoTrace(None)
    BY <1>3 DEF StatusFlow, CopiesClean, Clean, LeavesNoTrace
  <2>2. CASE BootStatusRead
    BY <1>2, <2>1, <2>2 DEF BootStatusRead, cache, db, IndInv, TypeOK, SyncType, DbType
  <2>3. CASE BootStatusDel
    BY <2>1, <2>3 DEF BootStatusDel, db, NoStatus
  <2>4. CASE BootStatusSet
    BY <1>2, <2>1, <2>4 DEF BootStatusSet, db, NoStatus, IndInv, TypeOK, SyncType
  <2> QED BY <2>2, <2>3, <2>4 DEF BootStep
<1> QED BY <1>1, <1>3, SyncStatuses

LEMMA TickStatuses ==
    ASSUME IndInv, StatusFlow, NoNewStrangers, NEW k \in Run,
           StatusSnapshot(k) \/ StatusUpsert(k)
    PROVE  StatusFlow'
<1>1. /\ closing' = closing /\ closeKey' = closeKey /\ closeRead' = closeRead
      /\ sock' = sock /\ posted' = posted /\ statusHash' = statusHash
  BY DEF StatusSnapshot, StatusUpsert, tcp, cache, session, closes, history
<1>2. ASSUME NEW d \in Imei, Stranger(d)
      PROVE  /\ LeavesNoTrace(statusHash'[d]) /\ LeavesNoTrace(deviceStatus'[d])
             /\ \A j \in Run : LeavesNoTrace(snapStatus'[j][d])
  <2>1. /\ LeavesNoTrace(statusHash[d]) /\ LeavesNoTrace(deviceStatus[d])
        /\ \A j \in Run : LeavesNoTrace(snapStatus[j][d])
        /\ LeavesNoTrace(None)
    BY <1>2 DEF StatusFlow, CopiesClean, Clean, LeavesNoTrace
  <2>2. CASE StatusSnapshot(k)
    BY <1>1, <2>1, <2>2 DEF StatusSnapshot, db, IndInv, TypeOK, SyncType
  <2>3. CASE StatusUpsert(k)
    <3>1. PICK e \in Imei :
            /\ deviceStatus' = [deviceStatus EXCEPT ![e] = snapStatus[k][e]]
            /\ snapStatus' = [snapStatus EXCEPT ![k] = [snapStatus[k] EXCEPT ![e] = None]]
      BY <2>3, Zenon DEF StatusUpsert
    <3>2. deviceStatus'[d] = IF d = e THEN snapStatus[k][d] ELSE deviceStatus[d]
      BY <3>1 DEF IndInv, TypeOK, DbType
    <3>3. \A j \in Run : snapStatus'[j][d] \in {snapStatus[j][d], None}
      BY <3>1 DEF IndInv, TypeOK, SyncType
    <3> QED BY <1>1, <2>1, <3>2, <3>3
  <2> QED BY <2>2, <2>3
<1> QED BY <1>1, <1>2, SyncStatuses

(* An outage only takes entries out of the snapshots.                      *)
LEMMA OutageStatuses ==
    ASSUME IndInv, StatusFlow, NoNewStrangers, Outage
    PROVE  StatusFlow'
<1>1. /\ closing' = closing /\ closeKey' = closeKey /\ closeRead' = closeRead
      /\ sock' = sock /\ posted' = posted
      /\ statusHash' = statusHash /\ deviceStatus' = deviceStatus
  BY DEF Outage, tcp, closes, history, db
<1>2. \A j \in Run, d \in Imei : snapStatus'[j][d] \in {snapStatus[j][d], None}
  BY DEF Outage, RedisOutage, DatabaseOutage, UpsertsLost, IndInv, TypeOK, SyncType
<1>3. ASSUME NEW d \in Imei, Stranger(d)
      PROVE  /\ LeavesNoTrace(statusHash'[d]) /\ LeavesNoTrace(deviceStatus'[d])
             /\ \A j \in Run : LeavesNoTrace(snapStatus'[j][d])
  BY <1>1, <1>2, <1>3 DEF StatusFlow, CopiesClean, Clean, LeavesNoTrace
<1> QED BY <1>1, <1>3, SyncStatuses

LEMMA CrashStatuses ==
    ASSUME IndInv, StatusFlow, NoNewStrangers, Crash
    PROVE  StatusFlow'
<1>1. statusHash' = statusHash /\ deviceStatus' = deviceStatus /\ posted' = posted
  BY DEF Crash, db, history
<1>2. \A k \in Run : snapStatus'[k] = NoStatus
  BY DEF Crash
<1>3. CopiesClean'
  <2>1. \A d \in Imei : Stranger(d)' =>
              /\ LeavesNoTrace(statusHash'[d]) /\ LeavesNoTrace(deviceStatus'[d])
              /\ \A k \in Run : LeavesNoTrace(snapStatus'[k][d])
    BY <1>1, <1>2 DEF StatusFlow, CopiesClean, Clean, LeavesNoTrace, NoStatus, NoNewStrangers
  <2> QED BY <2>1 DEF CopiesClean, Clean, LeavesNoTrace
<1>4. \A s \in Socket : /\ closeRead'[s] = None
                        /\ sock'[s] # "closed" => sock[s] # "closed" /\ closing[s] = "no"
                        /\ closing[s] = "no" => closing'[s] = "no"
  BY DEF Crash, StatusFlow, ClosesClean
<1>5. ClosesClean'
  BY <1>4 DEF ClosesClean, LeavesNoTrace
<1>6. PostsRegistered'
  BY <1>1, PostsKept DEF IndInv, TypeOK
<1> QED BY <1>3, <1>5, <1>6 DEF StatusFlow

LEMMA NextStatuses ==
    ASSUME IndInv, SessionNames, StatusFlow, [Next]_vars
    PROVE  StatusFlow'
<1>0. NoNewStrangers
  BY StrangersBefore
<1>1. ASSUME NEW s \in Socket, SocketStep(s)
      PROVE  StatusFlow'
  <2>1. CASE Connect(s) \/ DataEvent(s) \/ SocketEnds(s)
    <3>1. \A u \in Socket : sock'[u] # "closed" => sock[u] # "closed"
      BY <2>1 DEF Connect, DataEvent, SocketEnds, IndInv, TypeOK, TcpType
    <3> QED BY <2>1, <3>1, SameStatuses DEF Connect, DataEvent, SocketEnds, cache, db,
      session, closes, syncs, history
  <2> QED BY <1>0, <1>1, <2>1, CloseStatuses DEF SocketStep
<1>2. ASSUME NEW t \in Event, TaskStep(t)
      PROVE  StatusFlow'
  <2>1. CASE LoginStatusWrite(t) \/ DataStatusWrite(t)
    BY <1>0, <2>1, StatusWriteStatuses
  <2>2. CASE Reject(t)
    <3>1. \A u \in Socket : sock'[u] # "closed" => sock[u] # "closed"
      BY <2>2 DEF Reject, IndInv, TypeOK, TcpType
    <3> QED BY <2>2, <3>1, SameStatuses DEF Reject, cache, db, closes, syncs, history
  <2>3. CASE ~(LoginStatusWrite(t) \/ DataStatusWrite(t) \/ Reject(t))
    <3>1. /\ statusHash' = statusHash /\ deviceStatus' = deviceStatus
          /\ snapStatus' = snapStatus /\ closing' = closing /\ closeKey' = closeKey
          /\ closeRead' = closeRead /\ sock' = sock /\ posted' = posted
      BY <1>2, <2>3 DEF TaskStep, Authorize, StatusRead, GetCommands, WriteCallback,
        FindCommand, RemoveFromList, DeleteRow, DeleteMissing, StartSend, tcp, cache, db,
        closes, syncs, history
    <3> QED BY <3>1, SameStatuses
  <2> QED BY <2>1, <2>2, <2>3
<1>3. CASE Tick \/ \E k \in Run : SyncStep(k)
  <2>1. CASE \E k \in Run : StatusSnapshot(k) \/ StatusUpsert(k)
    BY <1>0, <2>1, TickStatuses
  <2> QED BY <1>3, <2>1, SameStatuses DEF Tick, SyncStep, ImeisRead, ImeisAnswered, ImeisDel,
        ImeisAdd, RowsRead, RowsAnswered, PipelineExec, tcp, cache, db, session, closes,
        history
<1>4. CASE \E c \in Command : ApiStep(c)
  BY <1>4, SameStatuses DEF ApiStep, SendNow, StartQueueing, CreateRow, tcp, cache, db,
    session, closes, syncs, history
<1>5. CASE \E d \in Device : RegisterDevice(d) \/ RemoveDevice(d)
  BY <1>5, SameStatuses DEF RegisterDevice, RemoveDevice, tcp, cache, db, session, closes,
    syncs, history
<1>6. CASE UNCHANGED vars
  BY <1>6, SameStatuses DEF vars, tcp, cache, db, session, closes, syncs, history
<1> QED BY <1>0, <1>1, <1>2, <1>3, <1>4, <1>5, <1>6, BootStatuses, CrashStatuses,
           OutageStatuses DEF Next, Environment
-----------------------------------------------------------------------------
LEMMA InitNames ==
    ASSUME Init
    PROVE  MapFlow /\ SessionNames /\ StatusFlow
<1>1. MapFlow
  <2>1. connections = <<>> /\ DOMAIN connections = {} /\ ToSet(connections) = {}
    BY EmptySeq DEF Init, ToSet
  <2>2. \A s \in Socket : ~Tracked(s)
    BY DEF Init, Tracked
  <2> QED BY <2>1, <2>2 DEF MapFlow, ConnectionsAreLive
<1>2. SessionNames
  <2>1. \A t \in Event : pc[t] = "idle" /\ rest[t] = <<>> /\ DOMAIN rest[t] = {}
    BY EmptySeq DEF Init
  <2>2. \A s \in Socket : isAuthorized[s] = FALSE /\ metaImei[s] = None
    BY DEF Init
  <2>3. \A t \in Event : NamesItsDevice(t)
    BY <2>1 DEF NamesItsDevice
  <2>4. \A s \in Socket : metaImei[s] \in claimed[s] \cup {None}
    BY <2>2
  <2> QED BY <2>2, <2>3, <2>4, Zenon DEF SessionNames
<1>3. StatusFlow
  <2>1. CopiesClean
    BY DEF Init, CopiesClean, Clean, LeavesNoTrace, LeftByEarlierRun, NoStatus
  <2>2. ClosesClean
    BY DEF Init, ClosesClean, LeavesNoTrace
  <2>3. PostsRegistered
    BY DEF Init, PostsRegistered
  <2> QED BY <2>1, <2>2, <2>3 DEF StatusFlow
<1> QED BY <1>1, <1>2, <1>3

(* Keys of the map are unique and lead to live sockets; a session beyond   *)
(* its login, on a socket that may change its IMEI at any time, works for  *)
(* IMEIs that the socket has claimed; and every copy of the statuses is    *)
(* clean of the strangers.                                                 *)
THEOREM NamesInvariant == Spec => [](MapFlow /\ SessionNames /\ StatusFlow)
<1>1. IndInv /\ MapFlow /\ SessionNames /\ StatusFlow /\ [Next]_vars
        => MapFlow' /\ SessionNames' /\ StatusFlow'
  BY NextMap, NextNames, NextStatuses
<1> QED BY <1>1, InitNames, IndInvInvariant, PTL DEF Spec

(* TcpServerService.connections never leads to a socket whose 'close' was  *)
(* handled, and misses a live one only where two sockets share their key.  *)
THEOREM ConnectionsAlwaysLive == Spec => []ConnectionsAreLive
<1>1. MapFlow => ConnectionsAreLive
  BY DEF MapFlow
<1> QED BY <1>1, NamesInvariant, PTL

(* An IMEI that no row of table Device has ever named, and that no socket  *)
(* has claimed besides one that some row has named, is never shown         *)
(* connected or located, in Redis or PostgreSQL, and never forwarded.      *)
(* (One that such a socket does claim may be: OnlyValidatedShown fails.)   *)
THEOREM UnregisteredLeavesNoTrace == Spec => []NoTraceOfUnregistered
<1>1. StatusFlow => NoTraceOfUnregistered
  BY DEF StatusFlow, CopiesClean, Clean, PostsRegistered, NoTraceOfUnregistered
<1> QED BY <1>1, NamesInvariant, PTL
=============================================================================
