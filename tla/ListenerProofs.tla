---------------------------- MODULE ListenerProofs ----------------------------
(***************************************************************************)
(* Proofs that IndInv is an invariant of the listener, for every number of *)
(* sockets, devices, commands, events, ticks and crashes, and with it type *)
(* correctness, AuthorizedWasRegistered and DeletedOnlyAfterAttempt.       *)
(***************************************************************************)
EXTENDS ListenerProperties, SequenceLemmas

(* Sending a command, and the answer to one, keep the client's queue one   *)
(* of waiters.                                                             *)
LEMMA QueueType ==
    ASSUME NEW w \in Waiter, redisQ \in Seq(Waiter),
           \/ Reply(w, <<w>>) \/ Reply(w, <<>>) \/ Issue(<<w>>) \/ Issue(<<>>)
    PROVE  redisQ' \in Seq(Waiter)
<1>1. <<w>> \in Seq(Waiter) /\ <<>> \in Seq(Waiter)
  BY EmptySeq
<1>2. ASSUME NEW next \in Seq(Waiter), Reply(w, next)
      PROVE  redisQ' \in Seq(Waiter)
  BY <1>2, HeadTailProperties, ConcatProperties DEF Reply
<1>3. ASSUME NEW ws \in Seq(Waiter), Issue(ws)
      PROVE  redisQ' \in Seq(Waiter)
  BY <1>3, ConcatProperties DEF Issue
<1> QED BY <1>1, <1>2, <1>3

(* What is left to do is everything, or nothing, or, without               *)
(* authorisation, everything from a login on.                              *)
LEMMA RestElements ==
    ASSUME NEW items \in Seq(Packet), NEW authorized \in BOOLEAN
    PROVE  \/ authorized /\ Rest(items, authorized) = items
           \/ ~authorized /\ Rest(items, authorized) = <<>>
           \/ \E n \in DOMAIN items :
                 /\ ~authorized /\ items[n].type = "LOGIN"
                 /\ Rest(items, authorized) \in Seq(Packet)
                 /\ Head(Rest(items, authorized)) = items[n]
                 /\ \A i \in DOMAIN Rest(items, authorized) :
                      \E j \in DOMAIN items : /\ n \in 1..j
                                              /\ Rest(items, authorized)[i] = items[j]
<1> DEFINE logins == {i \in DOMAIN items : items[i].type = "LOGIN"}
           n == Min(logins)
           left == SubSeq(items, n, Len(items))
<1>0. Len(items) \in Nat /\ DOMAIN items = 1..Len(items)
  BY LenProperties
<1>1. CASE authorized
  BY <1>1 DEF Rest
<1>2. CASE ~authorized /\ logins = {}
  BY <1>2 DEF Rest
<1>3. CASE ~authorized /\ logins # {}
  <2>1. n \in logins
    <3>1. logins \in SUBSET Nat
      BY <1>0
    <3> HIDE DEF logins
    <3> QED BY <1>3, <3>1, MinInSet
  <2>2. n \in 1..Len(items) /\ items[n].type = "LOGIN"
    BY <2>1, <1>0
  <2>3. Rest(items, authorized) = left
    BY <1>3 DEF Rest
  <2> HIDE DEF n
  <2>4. \A i \in n..Len(items) : items[i] \in Packet
    BY <1>0, <2>2, ElementOfSeq
  <2>5. /\ left \in Seq(Packet)
        /\ Len(left) = Len(items) - n + 1
        /\ \A i \in 1..(Len(items) - n + 1) : left[i] = items[n + i - 1]
    BY <1>0, <2>2, <2>4, SubSeqProperties
  <2>6. DOMAIN left = 1..(Len(items) - n + 1)
    BY <2>5, LenProperties
  <2>7. \A i \in DOMAIN left : \E j \in DOMAIN items : n \in 1..j /\ left[i] = items[j]
    <3> TAKE i \in DOMAIN left
    <3>1. n + i - 1 \in DOMAIN items /\ n \in 1..(n + i - 1) /\ left[i] = items[n + i - 1]
      BY <1>0, <2>2, <2>5, <2>6
    <3> QED BY <3>1
  <2>8. Head(left) = items[n]
    <3>1. left[1] = items[n] /\ Head(left) = left[1]
      BY <1>0, <2>2, <2>5
    <3> QED BY <3>1
  <2> HIDE DEF left
  <2>9. n \in DOMAIN items
    BY <1>0, <2>2
  <2> QED BY <1>3, <2>2, <2>3, <2>5, <2>7, <2>8, <2>9, Zenon
<1> QED BY <1>1, <1>2, <1>3

(* So it is a sequence of the same items ...                               *)
LEMMA RestProperties ==
    ASSUME NEW items \in Seq(Packet), NEW authorized \in BOOLEAN
    PROVE  /\ Rest(items, authorized) \in Seq(Packet)
           /\ \A i \in DOMAIN Rest(items, authorized) :
                 \E j \in DOMAIN items : Rest(items, authorized)[i] = items[j]
<1>1. CASE Rest(items, authorized) = items
  BY <1>1, Zenon
<1>2. CASE Rest(items, authorized) = <<>>
  <2>1. <<>> \in Seq(Packet) /\ DOMAIN <<>> = {}
    BY EmptySeq
  <2> QED BY <1>2, <2>1, Zenon
<1> QED BY <1>1, <1>2, RestElements, Zenon

(* ... that begins with a login if the socket is not authorised, and so    *)
(* has a login before, or at, each of its items.                           *)
LEMMA RestWithoutAuthorization ==
    ASSUME NEW items \in Seq(Packet), Rest(items, FALSE) # <<>>
    PROVE  /\ Head(Rest(items, FALSE)).type = "LOGIN"
           /\ \A i \in DOMAIN Rest(items, FALSE) :
                 \E j \in DOMAIN items : /\ Rest(items, FALSE)[i] = items[j]
                                         /\ \E k \in 1..j : items[k].type = "LOGIN"
  BY RestElements, Zenon

(* Setting and deleting entries keeps the map a sequence of sockets.       *)
LEMMA MapSetType ==
    ASSUME NEW m \in Seq(Socket), NEW s \in Socket
    PROVE  MapSet(m, s) \in Seq(Socket)
<1>1. CASE \E i \in DOMAIN m : SameId(m[i], s)
  <2>1. Len(m) \in Nat /\ m \in [1..Len(m) -> Socket]
    BY LenProperties
  <2>2. MapSet(m, s) \in [1..Len(m) -> Socket]
    BY <1>1, <2>1 DEF MapSet
  <2> QED BY <2>1, <2>2, SeqDef
<1>2. CASE ~\E i \in DOMAIN m : SameId(m[i], s)
  BY <1>2, AppendProperties DEF MapSet
<1> QED BY <1>1, <1>2

LEMMA MapDeleteType ==
    ASSUME NEW m \in Seq(Socket), NEW s \in Socket
    PROVE  MapDelete(m, s) \in Seq(Socket)
<1> DEFINE I == {i \in 1..Len(m) : SameId(m[i], s)}
<1>1. CASE I = {}
  BY <1>1 DEF MapDelete, RemoveFirstMatch
<1>2. CASE I # {}
  <2>1. Min(I) \in I
    <3>1. I \in SUBSET Nat
      OBVIOUS
    <3> HIDE DEF I
    <3> QED BY <1>2, <3>1, MinInSet
  <2>2. Min(I) \in DOMAIN m
    BY <2>1, LenProperties
  <2>3. MapDelete(m, s) = RemoveAt(m, Min(I))
    BY <1>2 DEF MapDelete, RemoveFirstMatch, SelectInSeq
  <2> QED BY <2>2, <2>3, RemoveAtType
<1> QED BY <1>1, <1>2
-----------------------------------------------------------------------------
(* What a chunk of packets is parsed into: packets of the right shape,     *)
(* each with the IMEI of the last login before it, if there is one.        *)
LEMMA ChunkOfMessages ==
    ASSUME NEW s \in Socket, NEW chunk \in Chunk[s]
    PROVE  \E n \in 0..MaxBatch : chunk \in [1..n -> Message]
  BY BoundAssumption DEF SeqOf

LEMMA ImeiAtClaimed ==
    ASSUME NEW s \in Socket, NEW chunk \in Chunk[s], NEW i \in 0..Len(chunk)
    PROVE  \/ LoginsUpTo(chunk, i) = {} /\ ImeiAt(s, chunk, i) = metaImei[s]
           \/ /\ ImeiAt(s, chunk, i) \in Claims(chunk) \cap Device
              /\ i \in DOMAIN chunk /\ chunk[i].type = "LOGIN"
                    => ImeiAt(s, chunk, i) = chunk[i].imei
<1>1. PICK n \in 0..MaxBatch : chunk \in [1..n -> Message]
  BY ChunkOfMessages
<1>2. n \in Nat /\ Len(chunk) = n /\ DOMAIN chunk = 1..n
  BY <1>1, BoundAssumption, LenProperties, SeqDef
<1> DEFINE logins == LoginsUpTo(chunk, i)
<1>3. logins = {j \in 1..i : chunk[j].type = "LOGIN"}
  BY DEF LoginsUpTo
<1>4. CASE logins = {}
  BY <1>4 DEF ImeiAt
<1>5. CASE logins # {}
  <2>1. Max(logins) \in logins /\ \A j \in logins : j <= Max(logins)
    <3>1. i \in Nat /\ logins \in SUBSET (1..i)
      BY <1>2, <1>3
    <3> HIDE DEF logins
    <3>2. Max(logins) \in logins /\ \A j \in logins : Max(logins) >= j
      BY <1>5, <3>1, MaxInSet
    <3> QED BY <3>1, <3>2
  <2>2. PICK m \in logins : m = Max(logins)
    BY <2>1
  <2>3. /\ m \in 1..i /\ chunk[m].type = "LOGIN" /\ m \in 1..n
        /\ ImeiAt(s, chunk, i) = chunk[m].imei
    BY <1>2, <1>3, <1>5, <2>2 DEF ImeiAt
  <2>4. chunk[m].imei \in Device
    BY <1>1, <2>3 DEF Message, Imei
  <2>5. chunk[m].imei \in Claims(chunk)
    BY <1>2, <2>3 DEF Claims, LoginsUpTo
  <2>6. ASSUME i \in DOMAIN chunk, chunk[i].type = "LOGIN"
        PROVE  m = i
    <3>1. i \in logins
      BY <1>2, <1>3, <2>6
    <3>2. i <= m /\ m <= i
      BY <2>1, <2>2, <2>3, <3>1
    <3> QED BY <1>2, <2>3, <3>2
  <2> QED BY <2>3, <2>4, <2>5, <2>6
<1> QED BY <1>4, <1>5

LEMMA ClaimsType ==
    ASSUME NEW s \in Socket, NEW chunk \in Chunk[s]
    PROVE  Claims(chunk) \in SUBSET Device
<1>1. PICK n \in 0..MaxBatch : chunk \in [1..n -> Message]
  BY ChunkOfMessages
<1>2. n \in Nat /\ Len(chunk) = n
  BY <1>1, BoundAssumption, LenProperties, SeqDef
<1> QED BY <1>1, <1>2 DEF Claims, LoginsUpTo, Message, Imei

LEMMA ImeiAtType ==
    ASSUME TcpType, NEW s \in Socket, NEW chunk \in Chunk[s], NEW i \in 0..Len(chunk)
    PROVE  ImeiAt(s, chunk, i) \in Imei
  BY ImeiAtClaimed DEF TcpType, Imei

LEMMA ParsedItems ==
    ASSUME TcpType, NEW t \in Event, NEW s \in Socket, NEW chunk \in Chunk[s]
    PROVE  /\ Parsed(t, s, chunk) \in Seq(Packet)
           /\ \A i \in DOMAIN Parsed(t, s, chunk) :
                 /\ i \in 1..Len(chunk) /\ i \in 1..MaxBatch
                 /\ Parsed(t, s, chunk)[i].type = chunk[i].type
                 /\ Parsed(t, s, chunk)[i].imei = ImeiAt(s, chunk, i)
                 /\ Parsed(t, s, chunk)[i].fix =
                       IF chunk[i].type = "LOCATION" THEN <<t, i>> ELSE None
                 /\ chunk[i].type = "LOGIN" => ImeiAt(s, chunk, i) \in Claims(chunk)
<1>1. PICK n \in 0..MaxBatch : chunk \in [1..n -> Message]
  BY ChunkOfMessages
<1>2. n \in Nat /\ Len(chunk) = n /\ DOMAIN chunk = 1..n
  BY <1>1, BoundAssumption, LenProperties, SeqDef
<1>3. \A i \in 1..n : i \in 0..Len(chunk) /\ i \in 1..MaxBatch
  BY <1>2, BoundAssumption
<1>4. \A i \in 1..n : ImeiAt(s, chunk, i) \in Imei
  BY <1>3, ImeiAtType
<1>5. \A i \in 1..n : chunk[i].type = "LOGIN" => ImeiAt(s, chunk, i) \in Claims(chunk)
  <2> SUFFICES ASSUME NEW i \in 1..n, chunk[i].type = "LOGIN"
               PROVE  ImeiAt(s, chunk, i) \in Claims(chunk)
    OBVIOUS
  <2>1. LoginsUpTo(chunk, i) # {}
    BY DEF LoginsUpTo
  <2> QED BY <1>3, <2>1, ImeiAtClaimed
<1>6. DOMAIN Parsed(t, s, chunk) = 1..n
  BY <1>2 DEF Parsed
<1>7. \A i \in 1..n :
        Parsed(t, s, chunk)[i] = [type |-> chunk[i].type, imei |-> ImeiAt(s, chunk, i),
                                  fix |-> IF chunk[i].type = "LOCATION" THEN <<t, i>> ELSE None]
  BY <1>2 DEF Parsed
<1>8. \A i \in 1..n : Parsed(t, s, chunk)[i] \in Packet
  <2> TAKE i \in 1..n
  <2>1. chunk[i].type \in Kind
    BY <1>1 DEF Message
  <2>2. <<t, i>> \in Fix
    BY <1>3 DEF Fix
  <2>3. PICK f \in Fix \cup {None} : f = IF chunk[i].type = "LOCATION" THEN <<t, i>> ELSE None
    BY <2>2
  <2>4. PICK a \in Imei : a = ImeiAt(s, chunk, i)
    BY <1>4
  <2>5. PICK k \in Kind : k = chunk[i].type
    BY <2>1
  <2>6. [type |-> k, imei |-> a, fix |-> f] \in Packet
    BY DEF Packet
  <2>7. Parsed(t, s, chunk)[i] = [type |-> k, imei |-> a, fix |-> f]
    BY <1>7, <2>3, <2>4, <2>5
  <2> QED BY <2>6, <2>7
<1>9. Parsed(t, s, chunk) \in [1..n -> Packet]
  BY <1>2, <1>8 DEF Parsed
<1>10. Parsed(t, s, chunk) \in Seq(Packet)
  BY <1>2, <1>9, SeqDef
<1> QED BY <1>2, <1>3, <1>5, <1>6, <1>7, <1>10

(* Dropping items that have no effect keeps that shape.                    *)
LEMMA RestItems ==
    ASSUME NEW items \in Seq(Packet), NEW a \in BOOLEAN, NEW s, WellFormed(items, s)
    PROVE  Rest(items, a) \in Seq(Packet) /\ WellFormed(Rest(items, a), s)
<1> DEFINE r == Rest(items, a)
<1>1. r \in Seq(Packet) /\ \A i \in DOMAIN r : \E j \in DOMAIN items : r[i] = items[j]
  BY RestProperties, Zenon
<1> HIDE DEF r
<1>2. WellFormed(r, s)
  BY <1>1 DEF WellFormed
<1> QED BY <1>1, <1>2 DEF r

LEMMA TailItems ==
    ASSUME NEW items \in Seq(Packet), items # <<>>, NEW s, WellFormed(items, s)
    PROVE  Tail(items) \in Seq(Packet) /\ WellFormed(Tail(items), s)
<1>1. /\ Tail(items) \in Seq(Packet) /\ Len(Tail(items)) = Len(items) - 1
      /\ \A i \in 1..Len(Tail(items)) : Tail(items)[i] = items[i + 1]
  BY HeadTailProperties
<1>2. /\ DOMAIN items = 1..Len(items) /\ Len(items) \in Nat
      /\ DOMAIN Tail(items) = 1..Len(Tail(items))
  BY <1>1, LenProperties
<1>3. \A i \in DOMAIN Tail(items) : i + 1 \in DOMAIN items /\ Tail(items)[i] = items[i + 1]
  BY <1>1, <1>2
<1> QED BY <1>1, <1>3 DEF WellFormed

LEMMA RemainingItems ==
    ASSUME NEW t \in Event, SessionType, SessionShape, TcpType, rest[t] # <<>>
    PROVE  Remaining(t) \in Seq(Packet) /\ WellFormed(Remaining(t), on[t])
<1>1. rest[t] \in Seq(Packet) /\ on[t] \in Socket /\ WellFormed(rest[t], on[t])
  BY DEF SessionType, SessionShape
<1>2. isAuthorized[on[t]] \in BOOLEAN
  BY <1>1 DEF TcpType
<1> QED BY <1>1, <1>2, TailItems, RestItems DEF Remaining

(* A task that goes on with the items l is in a good state again.          *)
PcValue == {"idle", "sismember", "hget", "hset", "lrange", "write", "find", "lrem",
            "delete", "done"}

LEMMA StartedPc ==
    ASSUME NEW l
    PROVE  /\ PcFor(l) \in {"done", "sismember", "hget"}
           /\ PcFor(l) # "done" => l # <<>>
           /\ PcFor(l) = "sismember" => Head(l).type = "LOGIN"
           /\ PcFor(l) \notin CommandPc
  BY DEF PcFor, CommandPc

LEMMA KeyForType ==
    ASSUME NEW l \in Seq(Packet), NEW imei \in Imei
    PROVE  KeyFor(l, imei) \in Imei
<1>1. CASE l = <<>>
  BY <1>1 DEF KeyFor, Imei
<1>2. CASE l # <<>>
  <2>1. Head(l).imei \in Imei
    <3>1. Head(l) \in Packet
      BY <1>2, HeadTailProperties
    <3> QED BY <3>1 DEF Packet
  <2> QED BY <1>2, <2>1 DEF KeyFor
<1> QED BY <1>1, <1>2

LEMMA GoesOn ==
    ASSUME NEW t \in Event, NEW l \in Seq(Packet), NEW imei \in Imei, StartItem(t, l, imei),
           SessionType, SessionShape, NEW s \in Socket, on'[t] = s,
           \A i \in DOMAIN l : /\ l[i].type = "LOGIN" => l[i].imei \in claimed'[s]
                               /\ l[i].type = "LOCATION" => l[i].fix \in Fix,
           \A u \in Socket : claimed[u] \subseteq claimed'[u],
           \A u \in Event \ {t} : on'[u] = on[u] /\ cmds'[u] = cmds[u]
    PROVE  /\ SessionShape'
           /\ pc' \in [Event -> PcValue] /\ rest' \in [Event -> Seq(Packet)]
           /\ key' \in [Event -> Imei]
<1>1. /\ pc' = [pc EXCEPT ![t] = PcFor(l)] /\ rest' = [rest EXCEPT ![t] = l]
      /\ key' = [key EXCEPT ![t] = KeyFor(l, imei)]
  BY DEF StartItem
<1>2. /\ PcFor(l) \in {"done", "sismember", "hget"}
      /\ PcFor(l) # "done" => l # <<>>
      /\ PcFor(l) = "sismember" => Head(l).type = "LOGIN"
      /\ PcFor(l) \notin CommandPc
  BY StartedPc
<1>3. KeyFor(l, imei) \in Imei
  BY KeyForType
<1>4. pc'[t] = PcFor(l) /\ rest'[t] = l
  BY <1>1 DEF SessionType
<1>5. \A u \in Event \ {t} : pc'[u] = pc[u] /\ rest'[u] = rest[u]
  BY <1>1 DEF SessionType
<1>6. SessionShape'
  <2> SUFFICES ASSUME NEW u \in Event
      PROVE /\ pc'[u] \notin {"idle", "done"} => rest'[u] # <<>>
            /\ rest'[u] # <<>> => on'[u] \in Socket
            /\ pc'[u] \in LoginPc => Head(rest'[u]).type = "LOGIN"
            /\ pc'[u] \in CommandPc => cmds'[u] # <<>>
            /\ \A i \in DOMAIN rest'[u] :
                 /\ rest'[u][i].type = "LOGIN" => rest'[u][i].imei \in claimed'[on'[u]]
                 /\ rest'[u][i].type = "LOCATION" => rest'[u][i].fix \in Fix
    BY DEF SessionShape, WellFormed
  <2>1. CASE u = t
    <3>1. rest'[u] = l /\ on'[u] = s /\ pc'[u] = PcFor(l)
      BY <2>1, <1>4
    <3>2. \A i \in DOMAIN rest'[u] :
             /\ rest'[u][i].type = "LOGIN" => rest'[u][i].imei \in claimed'[on'[u]]
             /\ rest'[u][i].type = "LOCATION" => rest'[u][i].fix \in Fix
      BY <3>1
    <3>3. /\ pc'[u] \notin {"idle", "done"} => rest'[u] # <<>>
          /\ pc'[u] \in LoginPc => Head(rest'[u]).type = "LOGIN"
          /\ pc'[u] \notin CommandPc
      BY <3>1, <1>2 DEF LoginPc, CommandPc
    <3> QED BY <3>1, <3>2, <3>3
  <2>2. CASE u # t
    <3>1. /\ pc'[u] \notin {"idle", "done"} => rest'[u] # <<>>
          /\ rest'[u] # <<>> => on'[u] \in Socket
          /\ pc'[u] \in LoginPc => Head(rest'[u]).type = "LOGIN"
          /\ pc'[u] \in CommandPc => cmds'[u] # <<>>
      BY <2>2, <1>5 DEF SessionShape
    <3>2. CASE rest[u] = <<>>
      BY <2>2, <3>1, <3>2, <1>5, EmptySeq
    <3>3. CASE rest[u] # <<>>
      BY <2>2, <3>1, <3>3, <1>5 DEF SessionShape, WellFormed
    <3> QED BY <3>1, <3>2, <3>3
  <2> QED BY <2>1, <2>2
<1>7. pc' \in [Event -> PcValue]
  BY <1>1, <1>2 DEF SessionType, PcValue
<1>8. rest' \in [Event -> Seq(Packet)]
  BY <1>1 DEF SessionType
<1>9. key' \in [Event -> Imei]
  BY <1>1, <1>3 DEF SessionType
<1> QED BY <1>6, <1>7, <1>8, <1>9

(* What IndInv says of a task that has not ended.                          *)
LEMMA RunningTask ==
    ASSUME IndInv, NEW t \in Event, pc[t] \notin {"idle", "done"}
    PROVE  /\ on[t] \in Socket
           /\ rest[t] \in Seq(Packet) /\ rest[t] # <<>>
           /\ Item(t) \in Packet /\ key[t] \in Imei
           /\ Item(t).type = "LOGIN" => Item(t).imei \in claimed[on[t]] \cap Device
           /\ Item(t).type = "LOCATION" => Item(t).fix \in Fix
           /\ DataTask(t) \in Waiter
<1>1. on[t] \in Socket /\ rest[t] \in Seq(Packet) /\ rest[t] # <<>>
  BY DEF IndInv, TypeOK, SessionType, SessionShape
<1>2. Item(t) \in Packet
  BY <1>1, HeadTailProperties DEF Item
<1>3. 1 \in DOMAIN rest[t] /\ Item(t) = rest[t][1]
  BY <1>1, LenProperties, EmptySeq DEF Item
<1>4. key[t] \in Imei /\ claimed[on[t]] \in SUBSET Device
  BY <1>1 DEF IndInv, TypeOK, SessionType, LogType
<1>5. /\ Item(t).type = "LOGIN" => Item(t).imei \in claimed[on[t]]
      /\ Item(t).type = "LOCATION" => Item(t).fix \in Fix
  BY <1>3 DEF IndInv, SessionShape, WellFormed
<1> QED BY <1>1, <1>2, <1>4, <1>5 DEF DataTask, Waiter

(* A chunk of data: its packets become a task in a good state.             *)
LEMMA DataEventStep ==
    ASSUME IndInv, NEW s \in Socket, DataEvent(s)
    PROVE  IndInv'
<1> USE DEF IndInv, TypeOK
<1> DEFINE t == nData + 1
<1>1. t \in Event
  BY BoundAssumption DEF DataEvent, LogType, Event
<1> DEFINE todo(chunk) == IF ProtocolOf[s] = "GT06"
                          THEN Rest(Parsed(t, s, chunk), isAuthorized[s]) ELSE <<>>
<1>2. PICK chunk \in Chunk[s] :
        /\ metaImei' = [metaImei EXCEPT ![s] = ImeiAt(s, chunk, Len(chunk))]
        /\ claimed' = [claimed EXCEPT ![s] = @ \cup Claims(chunk)]
        /\ acked' = acked \cup Acknowledged(t, s, chunk)
        /\ on' = [on EXCEPT ![t] = s]
        /\ StartItem(t, todo(chunk), ImeiAt(s, chunk, Len(chunk)))
        /\ Issue(CommandsFor(t, todo(chunk)))
  BY DEF DataEvent
<1>3. PICK n \in 0..MaxBatch : chunk \in [1..n -> Message]
  BY ChunkOfMessages
<1>4. n \in Nat /\ Len(chunk) = n /\ DOMAIN chunk = 1..n
  BY <1>3, BoundAssumption, LenProperties, SeqDef
<1>5. Claims(chunk) \in SUBSET Device
  BY ClaimsType
<1>6. claimed' \in [Socket -> SUBSET Device] /\ claimed'[s] = claimed[s] \cup Claims(chunk)
      /\ \A u \in Socket : claimed[u] \subseteq claimed'[u]
  BY <1>2, <1>5 DEF LogType
<1>7. \A i \in 0..n : ImeiAt(s, chunk, i) \in Imei
  BY <1>4, ImeiAtType
<1>8. PICK l \in Seq(Packet) :
        /\ l = todo(chunk)
        /\ \A i \in DOMAIN l : /\ l[i].type = "LOGIN" => l[i].imei \in claimed'[s]
                               /\ l[i].type = "LOCATION" => l[i].fix \in Fix
  <2> DEFINE all == Parsed(t, s, chunk)
  <2>1. /\ all \in Seq(Packet)
        /\ \A i \in DOMAIN all :
              /\ i \in 1..MaxBatch
              /\ all[i].type = chunk[i].type
              /\ all[i].imei = ImeiAt(s, chunk, i)
              /\ all[i].fix = IF chunk[i].type = "LOCATION" THEN <<t, i>> ELSE None
              /\ chunk[i].type = "LOGIN" => ImeiAt(s, chunk, i) \in Claims(chunk)
    BY <1>1, ParsedItems
  <2>2. \A i \in DOMAIN all : /\ all[i].type = "LOGIN" => all[i].imei \in claimed'[s]
                              /\ all[i].type = "LOCATION" => all[i].fix \in Fix
    <3> TAKE i \in DOMAIN all
    <3>1. all[i].type = "LOGIN" => all[i].imei \in claimed'[s]
      BY <1>6, <2>1
    <3>2. <<t, i>> \in Fix
      BY <1>1, <2>1 DEF Fix
    <3>3. all[i].type = "LOCATION" => all[i].fix = <<t, i>>
      BY <2>1
    <3> QED BY <3>1, <3>2, <3>3
  <2>3. isAuthorized[s] \in BOOLEAN
    BY DEF TcpType
  <2> HIDE DEF all
  <2>4. PICK r : r = Rest(all, isAuthorized[s])
    OBVIOUS
  <2>5. r \in Seq(Packet) /\ \A i \in DOMAIN r : \E j \in DOMAIN all : r[i] = all[j]
    BY <2>1, <2>3, <2>4, RestProperties, Zenon
  <2>6. \A i \in DOMAIN r : /\ r[i].type = "LOGIN" => r[i].imei \in claimed'[s]
                            /\ r[i].type = "LOCATION" => r[i].fix \in Fix
    BY <2>2, <2>5
  <2>7. <<>> \in Seq(Packet) /\ DOMAIN <<>> = {}
    BY EmptySeq
  <2>8. todo(chunk) = r \/ todo(chunk) = <<>>
    BY <2>4 DEF all
  <2> HIDE DEF todo
  <2>9. CASE todo(chunk) = r
    BY <2>5, <2>6, <2>9
  <2>10. CASE todo(chunk) = <<>>
    BY <2>7, <2>10
  <2> QED BY <2>8, <2>9, <2>10
<1> HIDE DEF t, todo
<1>9. TcpType'
  <2>1. connections' \in Seq(Socket)
    BY MapSetType DEF DataEvent, TcpType
  <2> QED BY <1>2, <1>4, <1>7, <2>1 DEF DataEvent, TcpType
<1>10. CacheType'
  <2>1. DataTask(t) \in Waiter
    BY <1>1 DEF DataTask, Waiter
  <2>2. redisQ' \in Seq(Waiter)
    BY <1>2, <2>1, QueueType DEF CommandsFor, CacheType
  <2> QED BY <2>2 DEF DataEvent, CacheType, cache
<1>11. /\ SessionShape'
       /\ pc' \in [Event -> PcValue] /\ rest' \in [Event -> Seq(Packet)]
       /\ key' \in [Event -> Imei]
  <2>1. on'[t] = s /\ \A u \in Event \ {t} : on'[u] = on[u]
    BY <1>1, <1>2 DEF SessionType
  <2>2. cmds' = cmds
    BY DEF DataEvent
  <2>3. PICK imei \in Imei : imei = ImeiAt(s, chunk, Len(chunk))
    BY <1>4, <1>7
  <2>4. \A i \in DOMAIN l : /\ l[i].type = "LOGIN" => l[i].imei \in claimed'[s]
                            /\ l[i].type = "LOCATION" => l[i].fix \in Fix
    BY <1>8
  <2>6. StartItem(t, l, imei)
    BY <1>2, <1>8, <2>3
  <2>7. \A u \in Event \ {t} : on'[u] = on[u] /\ cmds'[u] = cmds[u]
    BY <2>1, <2>2
  <2>8. SessionType /\ SessionShape
    OBVIOUS
  <2> QED BY <1>1, <1>6, <2>1, <2>4, <2>6, <2>7, <2>8, GoesOn
<1>12. SessionType'
  <2>1. on' \in [Event -> Socket \cup {None}]
    BY <1>2 DEF SessionType
  <2> QED BY <1>11, <2>1 DEF DataEvent, SessionType, PcValue
<1>13. LogType'
  <2>1. Acknowledged(t, s, chunk) \in SUBSET Report
    <3> SUFFICES ASSUME NEW i \in 1..n, ImeiAt(s, chunk, i) # None
                 PROVE  <<<<t, i>>, ImeiAt(s, chunk, i)>> \in Report
      BY <1>4 DEF Acknowledged
    <3>1. i \in 1..MaxBatch /\ ImeiAt(s, chunk, i) \in Imei
      BY <1>4, <1>7, BoundAssumption
    <3> QED BY <1>1, <3>1 DEF Report, Fix
  <2>2. nData' \in 0..MaxData
    BY BoundAssumption DEF DataEvent, LogType
  <2>3. acked' \in SUBSET Report
    BY <1>2, <2>1 DEF LogType
  <2> QED BY <1>6, <2>2, <2>3 DEF DataEvent, LogType
<1>14. AttemptFlow'
  <2>1. PcFor(todo(chunk)) \notin CommandPc
    BY StartedPc
  <2>2. /\ pc' = [pc EXCEPT ![t] = PcFor(todo(chunk))] /\ cmds' = cmds
        /\ attempted' = attempted /\ request' = request /\ commandQueue' = commandQueue
    BY <1>2 DEF StartItem, DataEvent, db
  <2> QED BY <2>1, <2>2 DEF AttemptFlow, DeletedOnlyAfterAttempt, SessionType
<1>15. DbType' /\ CloseType' /\ SyncType'
  BY DEF DataEvent, DbType, CloseType, SyncType, cache, db, closes, syncs
<1>16. RegistrationFlow'
  BY <1>6 DEF DataEvent, RegistrationFlow, AuthorizedWasRegistered, cache, db, syncs
<1> QED BY <1>9, <1>10, <1>11, <1>12, <1>13, <1>14, <1>15, <1>16

(* The steps that move the loop of a session on to another item or command.*)
LEMMA LoopSteps ==
    ASSUME IndInv, NEW t \in Event, DataStatusWrite(t) \/ GetCommands(t) \/ DeleteRow(t)
    PROVE  IndInv'
<1> USE DEF IndInv, TypeOK
<1>1. /\ pc[t] \in {"hset", "lrange", "delete"}
      /\ pc[t] \notin {"idle", "done"}
  BY DEF DataStatusWrite, GetCommands, DeleteRow
<1>2. /\ on[t] \in Socket
      /\ rest[t] \in Seq(Packet) /\ rest[t] # <<>>
      /\ Item(t) \in Packet /\ key[t] \in Imei
      /\ Item(t).type = "LOGIN" => Item(t).imei \in Device
      /\ Item(t).type = "LOCATION" => Item(t).fix \in Fix
      /\ DataTask(t) \in Waiter
  BY <1>1, RunningTask
<1>3. Remaining(t) \in Seq(Packet) /\ WellFormed(Remaining(t), on[t])
  BY <1>2, RemainingItems
<1>4. PcFor(Remaining(t)) \notin CommandPc
  BY StartedPc
<1>5. ASSUME MoveOn(t), on' = on, claimed' = claimed,
             \A u \in Event \ {t} : cmds'[u] = cmds[u]
      PROVE  /\ SessionShape'
             /\ pc' \in [Event -> PcValue] /\ rest' \in [Event -> Seq(Packet)]
             /\ key' \in [Event -> Imei]
  <2>1. PICK l : l = Remaining(t)
    OBVIOUS
  <2>2. PICK s \in Socket : s = on[t]
    BY <1>2
  <2>3. \A i \in DOMAIN l : /\ l[i].type = "LOGIN" => l[i].imei \in claimed'[s]
                            /\ l[i].type = "LOCATION" => l[i].fix \in Fix
    BY <1>3, <1>5, <2>1, <2>2 DEF WellFormed
  <2>4. metaImei[s] \in Imei /\ StartItem(t, l, metaImei[s])
    BY <1>5, <2>1, <2>2 DEF MoveOn, TcpType
  <2> QED BY <1>3, <1>5, <2>1, <2>2, <2>3, <2>4, GoesOn
<1>6. ASSUME MoveOn(t), \A u \in Event \ {t} : cmds'[u] = cmds[u],
             attempted \subseteq attempted', DeletedOnlyAfterAttempt'
      PROVE  AttemptFlow'
  <2>1. pc'[t] \notin CommandPc
    BY <1>4, <1>6 DEF MoveOn, StartItem, SessionType
  <2>2. \A u \in Event \ {t} : pc'[u] = pc[u] /\ cmds'[u] = cmds[u]
    BY <1>6 DEF MoveOn, StartItem, SessionType
  <2> QED BY <1>6, <2>1, <2>2 DEF AttemptFlow
(* The loop over the commands begins, or goes on, with the commands cs.    *)
<1>7. ASSUME NEW cs \in Seq(Command), cs # <<>>, StartSend(t, cs),
             UNCHANGED <<on, rest, key, read>>,
             pc[t] \in LoginPc, commandQueue' \in SUBSET Command,
             commandQueue \ commandQueue' \in SUBSET (attempted \cup Oversized),
             request' = request,
             UNCHANGED <<everRegistered, claimed, acked, posted, overlapped, counts>>
      PROVE  SessionShape' /\ SessionType' /\ AttemptFlow' /\ LogType'
  <2>1. Head(cs) \in Command
    BY <1>7, HeadTailProperties
  <2>2. /\ pc'[t] \in {"write", "find"} /\ cmds'[t] = cs
        /\ \A u \in Event \ {t} : pc'[u] = pc[u] /\ cmds'[u] = cmds[u]
    BY <1>7 DEF StartSend, SessionType
  <2>3. SessionType'
    BY <1>7 DEF StartSend, SessionType
  <2>4. SessionShape'
    <3>1. /\ pc'[t] \notin {"idle", "done"} => rest'[t] # <<>>
          /\ rest'[t] # <<>> => on'[t] \in Socket
          /\ pc'[t] \in LoginPc => Head(rest'[t]).type = "LOGIN"
          /\ pc'[t] \in CommandPc => cmds'[t] # <<>>
          /\ WellFormed(rest[t], on[t])'
      BY <1>2, <1>7, <2>2 DEF SessionShape, WellFormed
    <3>2. ASSUME NEW u \in Event \ {t}
          PROVE  /\ pc'[u] \notin {"idle", "done"} => rest'[u] # <<>>
                 /\ rest'[u] # <<>> => on'[u] \in Socket
                 /\ pc'[u] \in LoginPc => Head(rest'[u]).type = "LOGIN"
                 /\ pc'[u] \in CommandPc => cmds'[u] # <<>>
                 /\ WellFormed(rest[u], on[u])'
      BY <1>7, <2>2 DEF SessionShape, WellFormed
    <3> QED BY <3>1, <3>2 DEF SessionShape, WellFormed
  <2>5. /\ attempted' = attempted \cup ({Head(cs)} \ Oversized)
        /\ attempted' \in SUBSET Command
    BY <1>7, <2>1 DEF StartSend, LogType
  <2>6. AttemptFlow'
    <3>1. DeletedOnlyAfterAttempt'
      BY <1>7, <2>5 DEF AttemptFlow, DeletedOnlyAfterAttempt
    <3>2. \A u \in Event : pc'[u] \in CommandPc => Head(cmds'[u]) \in attempted' \cup Oversized
      BY <2>2, <2>5 DEF AttemptFlow
    <3> QED BY <3>1, <3>2 DEF AttemptFlow
  <2>7. LogType'
    BY <1>7, <2>1, <2>5 DEF LogType, counts
  <2> QED BY <2>3, <2>4, <2>6, <2>7
<1>8. ASSUME DataStatusWrite(t)
      PROVE  IndInv'
  <2>1. /\ MoveOn(t) /\ on' = on /\ cmds' = cmds /\ attempted' = attempted
        /\ request' = request /\ commandQueue' = commandQueue /\ claimed' = claimed
    BY <1>8 DEF DataStatusWrite, StatusWritten, db
  <2>2. DeletedOnlyAfterAttempt'
    BY <2>1 DEF AttemptFlow, DeletedOnlyAfterAttempt
  <2>3. SessionShape' /\ AttemptFlow'
    BY <1>5, <1>6, <2>1, <2>2
  <2>4. SessionType'
    BY <1>5, <1>8, <2>1 DEF DataStatusWrite, StatusWritten, SessionType, PcValue
  <2>5. redisQ' \in Seq(Waiter)
    BY <1>2, <1>8, QueueType DEF DataStatusWrite, CommandsFor, CacheType
  <2>6. CacheType'
    BY <1>2, <1>8, <2>5 DEF DataStatusWrite, StatusWritten, UpdatedImei, CacheType,
      SessionType, Merged, Entry, Packet
  <2>7. LogType'
    BY <1>2, <1>8 DEF DataStatusWrite, StatusWritten, LogType, counts, Packet, Report
  <2>8. TcpType' /\ DbType' /\ CloseType' /\ SyncType' /\ RegistrationFlow'
    BY <1>8 DEF DataStatusWrite, StatusWritten, TcpType, DbType, CloseType, SyncType,
      RegistrationFlow, AuthorizedWasRegistered, tcp, db, closes, syncs
  <2> QED BY <2>3, <2>4, <2>6, <2>7, <2>8
<1>9. ASSUME GetCommands(t)
      PROVE  IndInv'
  <2>1. Item(t).type = "LOGIN" /\ Item(t).imei \in Device
    BY <1>2, <1>9 DEF GetCommands, SessionShape, LoginPc, Item
  <2>2. cmdList[Item(t).imei] \in Seq(Command)
    BY <2>1 DEF CacheType
  <2>3. redisQ' \in Seq(Waiter)
    BY <1>2, <1>9, QueueType DEF GetCommands, CommandsFor, LookupFor, CacheType
  <2>4. CacheType'
    BY <1>9, <2>3 DEF GetCommands, CacheType, cache
  <2>5. SessionShape' /\ SessionType' /\ AttemptFlow' /\ LogType'
    <3>1. CASE cmdList[Item(t).imei] = <<>>
      <4>1. MoveOn(t) /\ UNCHANGED <<cmds, attempted>>
        BY <1>9, <3>1 DEF GetCommands
      <4>2. /\ on' = on /\ read' = read /\ request' = request /\ commandQueue' = commandQueue
            /\ UNCHANGED <<everRegistered, claimed, acked, posted, overlapped, counts>>
        BY <1>9 DEF GetCommands, db
      <4>3. DeletedOnlyAfterAttempt'
        BY <4>1, <4>2 DEF AttemptFlow, DeletedOnlyAfterAttempt
      <4>4. SessionShape' /\ AttemptFlow'
        BY <1>5, <1>6, <4>1, <4>2, <4>3
      <4>5. SessionType'
        BY <1>5, <4>1, <4>2 DEF SessionType, PcValue
      <4>6. LogType'
        BY <4>1, <4>2 DEF LogType, counts
      <4> QED BY <4>4, <4>5, <4>6
    <3>2. CASE cmdList[Item(t).imei] # <<>>
      <4>1. StartSend(t, cmdList[Item(t).imei]) /\ UNCHANGED <<rest, key>>
        BY <1>9, <3>2 DEF GetCommands
      <4>2. /\ on' = on /\ read' = read /\ request' = request /\ commandQueue' = commandQueue
            /\ UNCHANGED <<everRegistered, claimed, acked, posted, overlapped, counts>>
        BY <1>9 DEF GetCommands, db
      <4>3. pc[t] \in LoginPc
        BY <1>9 DEF GetCommands, LoginPc
      <4>4. /\ commandQueue' \in SUBSET Command
            /\ commandQueue \ commandQueue' \in SUBSET (attempted \cup Oversized)
        BY <4>2 DEF DbType
      <4> QED BY <1>7, <2>2, <3>2, <4>1, <4>2, <4>3, <4>4
    <3> QED BY <3>1, <3>2
  <2>6. TcpType' /\ DbType' /\ CloseType' /\ SyncType' /\ RegistrationFlow'
    BY <1>9 DEF GetCommands, TcpType, DbType, CloseType, SyncType, RegistrationFlow,
      AuthorizedWasRegistered, tcp, cache, db, closes, syncs
  <2> QED BY <2>4, <2>5, <2>6
<1>10. ASSUME DeleteRow(t)
       PROVE  IndInv'
  <2>1. /\ cmds[t] \in Seq(Command) /\ cmds[t] # <<>>
        /\ Head(cmds[t]) \in attempted \cup Oversized /\ pc[t] \in LoginPc
    BY <1>10 DEF DeleteRow, SessionType, SessionShape, AttemptFlow, CommandPc, LoginPc
  <2>2. Tail(cmds[t]) \in Seq(Command)
    BY <2>1, HeadTailProperties
  <2>3. commandQueue' = commandQueue \ {Head(cmds[t])}
    BY <1>10 DEF DeleteRow
  <2>4. /\ on' = on /\ read' = read /\ request' = request
        /\ UNCHANGED <<everRegistered, claimed, acked, posted, overlapped, counts>>
    BY <1>10 DEF DeleteRow
  <2>5. /\ SessionShape' /\ SessionType' /\ AttemptFlow' /\ LogType'
        /\ redisQ' \in Seq(Waiter)
    <3>1. CASE Tail(cmds[t]) # <<>>
      <4>1. /\ StartSend(t, Tail(cmds[t])) /\ UNCHANGED <<rest, key>>
            /\ Issue(LookupFor(t, Tail(cmds[t])))
        BY <1>10, <3>1 DEF DeleteRow
      <4>2. /\ commandQueue' \in SUBSET Command
            /\ commandQueue \ commandQueue' \in SUBSET (attempted \cup Oversized)
        BY <2>1, <2>3 DEF DbType
      <4>3. SessionShape' /\ SessionType' /\ AttemptFlow' /\ LogType'
        BY <1>7, <2>1, <2>2, <2>4, <3>1, <4>1, <4>2
      <4>4. redisQ' \in Seq(Waiter)
        BY <1>2, <4>1, QueueType DEF LookupFor, CacheType
      <4> QED BY <4>3, <4>4
    <3>2. CASE Tail(cmds[t]) = <<>>
      <4>1. /\ MoveOn(t) /\ Issue(CommandsFor(t, Remaining(t)))
            /\ cmds' = [cmds EXCEPT ![t] = <<>>] /\ UNCHANGED attempted
        BY <1>10, <3>2 DEF DeleteRow
      <4>2. \A u \in Event \ {t} : cmds'[u] = cmds[u]
        BY <4>1 DEF SessionType
      <4>3. DeletedOnlyAfterAttempt'
        BY <2>1, <2>3, <2>4, <4>1 DEF AttemptFlow, DeletedOnlyAfterAttempt
      <4>4. SessionShape' /\ AttemptFlow'
        BY <1>5, <1>6, <2>4, <4>1, <4>2, <4>3
      <4>5. SessionType'
        <5>1. cmds' \in [Event -> Seq(Command)]
          BY <4>1, EmptySeq DEF SessionType
        <5> QED BY <1>5, <2>4, <4>1, <4>2, <5>1 DEF SessionType, PcValue
      <4>6. redisQ' \in Seq(Waiter)
        BY <1>2, <4>1, QueueType DEF CommandsFor, CacheType
      <4>7. LogType'
        BY <2>4, <4>1 DEF LogType, counts
      <4> QED BY <4>4, <4>5, <4>6, <4>7
    <3> QED BY <3>1, <3>2
  <2>6. DbType'
    BY <1>10 DEF DeleteRow, DbType
  <2>7. CacheType'
    BY <1>10, <2>5 DEF DeleteRow, CacheType, cache
  <2>8. TcpType' /\ CloseType' /\ SyncType' /\ RegistrationFlow'
    BY <1>10 DEF DeleteRow, TcpType, CloseType, SyncType, RegistrationFlow,
      AuthorizedWasRegistered, tcp, cache, closes, syncs
  <2> QED BY <2>5, <2>6, <2>7, <2>8
<1> QED BY <1>8, <1>9, <1>10

(* The pipeline of a command sync, whole or cut, leaves lists of commands. *)
LEMMA PipelineListType ==
    ASSUME TypeOK, NEW deleted, NEW pushed \in SUBSET Command, PipelineEffect(deleted, pushed)
    PROVE  cmdList' \in [Device -> Seq(Command)]
<1> DEFINE n == Cardinality(pushed)
<1>1. PICK lists \in [Device -> SeqOf(pushed, n)] :
        cmdList' = [d \in Device |-> Refilled(deleted, d, lists[d])]
  BY DEF PipelineEffect
<1>2. SeqOf(pushed, n) \subseteq Seq(Command)
  <2>1. ASSUME NEW q \in SeqOf(pushed, n)
        PROVE  q \in Seq(Command)
    <3>1. PICK m \in 0..n : q \in [1..m -> pushed]
      BY <2>1 DEF SeqOf
    <3>2. m \in Nat
      OBVIOUS
    <3>3. q \in [1..m -> Command]
      BY <3>1
    <3> QED BY <3>2, <3>3, SeqDef
  <2> QED BY <2>1
<1>3. \A d \in Device : Refilled(deleted, d, lists[d]) \in Seq(Command)
  BY <1>1, <1>2 DEF Refilled, TypeOK, CacheType
<1> QED BY <1>1, <1>3

LEMMA BrokenListType ==
    ASSUME TypeOK, ConnectionBreaks
    PROVE  cmdList' \in [Device -> Seq(Command)]
<1>1. CASE UNCHANGED cmdList
  BY <1>1 DEF TypeOK, CacheType
<1>2. ASSUME NEW k \in Run, PipelineCut(snapRows[k])
      PROVE  cmdList' \in [Device -> Seq(Command)]
  <2>1. snapRows[k] \in SUBSET Command
    BY DEF TypeOK, SyncType
  <2>2. ASSUME NEW deleted, NEW pushed \in SUBSET snapRows[k],
               PipelineEffect(deleted, pushed)
        PROVE  cmdList' \in [Device -> Seq(Command)]
    BY <2>1, <2>2, PipelineListType
  <2> QED BY <1>2, <2>2 DEF PipelineCut, UpTo
<1> QED BY <1>1, <1>2 DEF ConnectionBreaks

LEMMA PipelineStep ==
    ASSUME IndInv, NEW k \in Run, PipelineExec(k)
    PROVE  IndInv'
<1> USE DEF IndInv, TypeOK
<1>1. redisQ' \in Seq(Waiter)
  BY QueueType DEF PipelineExec, CommandTask, Waiter, CacheType
<1>2. cmdList' \in [Device -> Seq(Command)]
  <2>1. snapRows[k] \in SUBSET Command
    BY DEF SyncType
  <2> QED BY <2>1, PipelineListType DEF PipelineExec
<1>3. CacheType'
  BY <1>1, <1>2 DEF PipelineExec, CacheType
<1>4. SyncType'
  BY DEF PipelineExec, SyncType
<1>5. TcpType' /\ DbType' /\ SessionType' /\ CloseType' /\ LogType' /\ SessionShape'
  BY DEF PipelineExec, TcpType, DbType, SessionType, CloseType, LogType, SessionShape,
    WellFormed, tcp, db, session, closes, history, counts
<1>6. RegistrationFlow' /\ AttemptFlow'
  BY DEF PipelineExec, RegistrationFlow, AuthorizedWasRegistered, AttemptFlow,
    DeletedOnlyAfterAttempt, tcp, db, session, history
<1> QED BY <1>3, <1>4, <1>5, <1>6

(* The other programs' changes of table Device.                            *)
LEMMA DeviceTableSteps ==
    ASSUME IndInv, NEW d \in Device, RegisterDevice(d) \/ RemoveDevice(d)
    PROVE  IndInv'
<1> USE DEF IndInv, TypeOK
<1>1. DbType' /\ LogType'
  BY BoundAssumption DEF RegisterDevice, RemoveDevice, DbType, LogType, history
<1>2. RegistrationFlow'
  BY DEF RegisterDevice, RemoveDevice, RegistrationFlow, AuthorizedWasRegistered, tcp,
    cache, syncs, history
<1>3. TcpType' /\ CacheType' /\ SessionType' /\ CloseType' /\ SyncType'
  BY DEF RegisterDevice, RemoveDevice, TcpType, CacheType, SessionType, CloseType, SyncType,
    tcp, cache, session, closes, syncs
<1>4. SessionShape' /\ AttemptFlow'
  BY DEF RegisterDevice, RemoveDevice, SessionShape, WellFormed, AttemptFlow,
    DeletedOnlyAfterAttempt, session, history
<1> QED BY <1>1, <1>2, <1>3, <1>4

(* The handlers of TcpServerService preserve the invariant.                *)
LEMMA TcpServerSteps ==
    ASSUME IndInv, NEW s \in Socket, SocketStep(s)
    PROVE  IndInv'
<1> USE DEF IndInv, TypeOK
<1>1. ASSUME Connect(s)
      PROVE  IndInv'
  <2>1. TcpType'
    BY <1>1, MapSetType DEF Connect, TcpType, cache, db, session, closes, syncs,
      history, counts
  <2>2. CacheType' /\ DbType' /\ SessionType' /\ CloseType' /\ SyncType' /\ LogType'
         /\ SessionShape' /\ RegistrationFlow' /\ AttemptFlow'
    BY <1>1 DEF Connect, CacheType, DbType, SessionType, CloseType, SyncType,
      LogType, SessionShape, WellFormed, RegistrationFlow, AuthorizedWasRegistered,
      AttemptFlow, DeletedOnlyAfterAttempt, cache, db, session, closes, syncs,
      history, counts
  <2> QED BY <2>1, <2>2 DEF IndInv, TypeOK
<1>2. ASSUME SocketEnds(s)
      PROVE  IndInv'
  <2>1. TcpType'
    BY <1>2 DEF SocketEnds, TcpType, cache, db, session, closes, syncs, history,
      counts
  <2>2. CacheType' /\ DbType' /\ SessionType' /\ CloseType' /\ SyncType' /\ LogType'
         /\ SessionShape' /\ RegistrationFlow' /\ AttemptFlow'
    BY <1>2 DEF SocketEnds, CacheType, DbType, SessionType, CloseType, SyncType,
      LogType, SessionShape, WellFormed, RegistrationFlow, AuthorizedWasRegistered,
      AttemptFlow, DeletedOnlyAfterAttempt, cache, db, session, closes, syncs,
      history, counts
  <2> QED BY <2>1, <2>2 DEF IndInv, TypeOK
<1>3. ASSUME CloseEvent(s)
      PROVE  IndInv'
  <2>1. redisQ' \in Seq(Waiter)
    BY <1>3, QueueType DEF CloseEvent, CloseTask, CacheType, Waiter
  <2>2. TcpType'
    BY <1>3, MapDeleteType DEF CloseEvent, TcpType, cache, db, session, syncs,
      history, counts
  <2>3. CacheType'
    BY <1>3, <2>1 DEF CloseEvent, CacheType, cache, db, session, syncs, history,
      counts
  <2>4. CloseType'
    BY <1>3 DEF CloseEvent, CloseType, TcpType
  <2>5. DbType' /\ SessionType' /\ SyncType' /\ LogType' /\ SessionShape' /\
         RegistrationFlow' /\ AttemptFlow'
    BY <1>3 DEF CloseEvent, DbType, SessionType, SyncType, LogType, SessionShape,
      WellFormed, RegistrationFlow, AuthorizedWasRegistered, AttemptFlow,
      DeletedOnlyAfterAttempt, cache, db, session, syncs, history, counts
  <2> QED BY <2>2, <2>3, <2>4, <2>5 DEF IndInv, TypeOK
<1>4. ASSUME CloseRead(s)
      PROVE  IndInv'
  <2>1. redisQ' \in Seq(Waiter)
    BY <1>4, QueueType DEF CloseRead, CloseTask, CacheType, Waiter
  <2>2. CacheType'
    BY <1>4, <2>1 DEF CloseRead, CacheType, tcp, cache, db, session, syncs, history,
      counts
  <2>3. CloseType'
    BY <1>4, TopologyAssumption DEF CloseRead, CloseType, CacheType, TcpType, tcp,
      cache, db, session, syncs, history, counts
  <2>4. TcpType' /\ DbType' /\ SessionType' /\ SyncType' /\ LogType' /\ SessionShape'
         /\ RegistrationFlow' /\ AttemptFlow'
    BY <1>4 DEF CloseRead, TcpType, DbType, SessionType, SyncType, LogType,
      SessionShape, WellFormed, RegistrationFlow, AuthorizedWasRegistered,
      AttemptFlow, DeletedOnlyAfterAttempt, tcp, cache, db, session, syncs, history,
      counts
  <2> QED BY <2>2, <2>3, <2>4 DEF IndInv, TypeOK
<1>5. ASSUME CloseWrite(s)
      PROVE  IndInv'
  <2>1. redisQ' \in Seq(Waiter)
    BY <1>5, QueueType DEF CloseWrite, CloseTask, CacheType, Waiter
  <2>2. CacheType'
    BY <1>5, <2>1 DEF CloseWrite, CacheType, TcpType, CloseType, Merged, Entry, tcp,
      db, session, syncs, history, counts
  <2>3. CloseType'
    BY <1>5 DEF CloseWrite, CloseType, tcp, db, session, syncs, history, counts
  <2>4. TcpType' /\ DbType' /\ SessionType' /\ SyncType' /\ LogType' /\ SessionShape'
         /\ RegistrationFlow' /\ AttemptFlow'
    BY <1>5 DEF CloseWrite, TcpType, DbType, SessionType, SyncType, LogType,
      SessionShape, WellFormed, RegistrationFlow, AuthorizedWasRegistered,
      AttemptFlow, DeletedOnlyAfterAttempt, tcp, db, session, syncs, history, counts
  <2> QED BY <2>2, <2>3, <2>4 DEF IndInv, TypeOK
<1>6. DataEvent(s) => IndInv'
  BY DataEventStep
<1> QED BY <1>6, <1>1, <1>2, <1>3, <1>4, <1>5 DEF SocketStep

(* So do the steps of the sessions.                                        *)
LEMMA DeviceSessionSteps ==
    ASSUME IndInv, NEW t \in Event, TaskStep(t)
    PROVE  IndInv'
<1> USE DEF IndInv, TypeOK
<1>0. /\ on[t] \in Socket
      /\ rest[t] \in Seq(Packet) /\ rest[t] # <<>>
      /\ Item(t) \in Packet /\ key[t] \in Imei
      /\ Item(t).type = "LOGIN" => Item(t).imei \in claimed[on[t]] \cap Device
      /\ Item(t).type = "LOCATION" => Item(t).fix \in Fix
      /\ DataTask(t) \in Waiter
  <2>1. pc[t] \notin {"idle", "done"}
    BY DEF TaskStep, Authorize, Reject, StatusRead, LoginStatusWrite, DataStatusWrite,
      GetCommands, WriteCallback, FindCommand, RemoveFromList, DeleteRow, DeleteMissing
  <2> QED BY <2>1, RunningTask
<1>1. ASSUME Authorize(t)
      PROVE  IndInv'
  <2>1. redisQ' \in Seq(Waiter)
    BY <1>1, QueueType, <1>0 DEF Authorize, CacheType
  <2>2. TcpType'
    BY <1>1, <1>0 DEF Authorize, TcpType, Packet, cache, db, closes, syncs, history,
      counts
  <2>3. CacheType'
    BY <1>1, <2>1 DEF Authorize, CacheType, cache, db, closes, syncs, history,
      counts
  <2>4. SessionType'
    BY <1>1 DEF Authorize, SessionType, cache, db, closes, syncs, history, counts
  <2>5. SessionShape'
    BY <1>1, <1>0 DEF Authorize, SessionShape, WellFormed, SessionType, LoginPc,
      CommandPc, cache, db, closes, syncs, history, counts
  <2>6. RegistrationFlow'
    BY <1>1, <1>0 DEF Authorize, RegistrationFlow, AuthorizedWasRegistered, Accepts,
      LoginPc, SessionShape, TcpType, Item, cache, db, closes, syncs, history, counts
  <2>7. AttemptFlow'
    BY <1>1 DEF Authorize, AttemptFlow, DeletedOnlyAfterAttempt, SessionType,
      CommandPc, cache, db, closes, syncs, history, counts
  <2>8. DbType' /\ CloseType' /\ SyncType' /\ LogType'
    BY <1>1 DEF Authorize, DbType, CloseType, SyncType, LogType, cache, db, closes,
      syncs, history, counts
  <2> QED BY <2>2, <2>3, <2>4, <2>5, <2>6, <2>7, <2>8 DEF IndInv, TypeOK
<1>2. ASSUME Reject(t)
      PROVE  IndInv'
  <2>1. redisQ' \in Seq(Waiter)
    BY <1>2, QueueType, <1>0 DEF Reject, CacheType
  <2>2. TcpType'
    BY <1>2, <1>0 DEF Reject, TcpType, cache, db, closes, syncs, history, counts
  <2>3. CacheType'
    BY <1>2, <2>1 DEF Reject, CacheType, cache, db, closes, syncs, history, counts
  <2>4. SessionType'
    BY <1>2, EmptySeq, StartedPc DEF Reject, SessionType, Finish, StartItem, KeyFor, Imei, PcFor, cache, db, closes, syncs,
      history, counts
  <2>5. SessionShape'
    BY <1>2, <1>0, EmptySeq DEF Reject, SessionShape, WellFormed, SessionType, LoginPc,
      CommandPc, Finish, StartItem, PcFor, cache, db, closes, syncs, history, counts
  <2>6. AttemptFlow'
    BY <1>2 DEF Reject, AttemptFlow, DeletedOnlyAfterAttempt, SessionType,
      CommandPc, Finish, StartItem, PcFor, cache, db, closes, syncs, history, counts
  <2>7. DbType' /\ CloseType' /\ SyncType' /\ LogType' /\ RegistrationFlow'
    BY <1>2 DEF Reject, DbType, CloseType, SyncType, LogType, RegistrationFlow,
      AuthorizedWasRegistered, cache, db, closes, syncs, history, counts
  <2> QED BY <2>2, <2>3, <2>4, <2>5, <2>6, <2>7 DEF IndInv, TypeOK
<1>3. ASSUME StatusRead(t)
      PROVE  IndInv'
  <2>1. redisQ' \in Seq(Waiter)
    BY <1>3, QueueType, <1>0 DEF StatusRead, CacheType
  <2>2. CacheType'
    BY <1>3, <2>1 DEF StatusRead, CacheType, tcp, cache, db, closes, syncs, history,
      counts
  <2>3. SessionType'
    BY <1>3, <1>0 DEF StatusRead, SessionType, CacheType, tcp, cache, db, closes,
      syncs, history, counts
  <2>4. SessionShape'
    BY <1>3 DEF StatusRead, SessionShape, WellFormed, SessionType, LoginPc,
      CommandPc, tcp, cache, db, closes, syncs, history, counts
  <2>5. AttemptFlow'
    BY <1>3 DEF StatusRead, AttemptFlow, DeletedOnlyAfterAttempt, SessionType,
      CommandPc, tcp, cache, db, closes, syncs, history, counts
  <2>6. TcpType' /\ DbType' /\ CloseType' /\ SyncType' /\ LogType' /\
         RegistrationFlow'
    BY <1>3 DEF StatusRead, TcpType, DbType, CloseType, SyncType, LogType,
      RegistrationFlow, AuthorizedWasRegistered, tcp, cache, db, closes, syncs,
      history, counts
  <2> QED BY <2>2, <2>3, <2>4, <2>5, <2>6 DEF IndInv, TypeOK
<1>4. ASSUME LoginStatusWrite(t)
      PROVE  IndInv'
  <2>1. redisQ' \in Seq(Waiter)
    BY <1>4, QueueType, <1>0 DEF LoginStatusWrite, CacheType, StatusWritten
  <2>2. CacheType'
    BY <1>4, <2>1, <1>0 DEF LoginStatusWrite, CacheType, StatusWritten, UpdatedImei, SessionType,
      Merged, Entry, Packet, tcp, db, closes, syncs, counts
  <2>3. SessionType'
    BY <1>4 DEF LoginStatusWrite, SessionType, StatusWritten, tcp, db, closes,
      syncs, counts
  <2>4. SessionShape'
    BY <1>4 DEF LoginStatusWrite, SessionShape, WellFormed, StatusWritten,
      SessionType, LoginPc, CommandPc, Item, tcp, db, closes, syncs, counts
  <2>5. AttemptFlow'
    BY <1>4 DEF LoginStatusWrite, AttemptFlow, DeletedOnlyAfterAttempt, SessionType,
      CommandPc, StatusWritten, tcp, db, closes, syncs, counts
  <2>6. TcpType' /\ DbType' /\ CloseType' /\ SyncType' /\ LogType' /\
         RegistrationFlow'
    BY <1>4 DEF LoginStatusWrite, StatusWritten, TcpType, DbType, CloseType,
      SyncType, LogType, RegistrationFlow, AuthorizedWasRegistered, tcp, db, closes,
      syncs, counts
  <2> QED BY <2>2, <2>3, <2>4, <2>5, <2>6 DEF IndInv, TypeOK
<1>5. ASSUME WriteCallback(t)
      PROVE  IndInv'
  <2>1. redisQ' \in Seq(Waiter)
    BY <1>5, QueueType, <1>0 DEF WriteCallback, CacheType
  <2>2. CacheType'
    BY <1>5, <2>1 DEF WriteCallback, CacheType, tcp, cache, db, closes, syncs,
      history, counts
  <2>3. SessionType'
    BY <1>5 DEF WriteCallback, SessionType, tcp, cache, db, closes, syncs, history,
      counts
  <2>4. SessionShape'
    BY <1>5 DEF WriteCallback, SessionShape, WellFormed, SessionType, LoginPc,
      CommandPc, tcp, cache, db, closes, syncs, history, counts
  <2>5. AttemptFlow'
    BY <1>5 DEF WriteCallback, AttemptFlow, DeletedOnlyAfterAttempt, SessionType,
      CommandPc, tcp, cache, db, closes, syncs, history, counts
  <2>6. TcpType' /\ DbType' /\ CloseType' /\ SyncType' /\ LogType' /\
         RegistrationFlow'
    BY <1>5 DEF WriteCallback, TcpType, DbType, CloseType, SyncType, LogType,
      RegistrationFlow, AuthorizedWasRegistered, tcp, cache, db, closes, syncs,
      history, counts
  <2> QED BY <2>2, <2>3, <2>4, <2>5, <2>6 DEF IndInv, TypeOK
<1>6. ASSUME FindCommand(t)
      PROVE  IndInv'
  <2>1. redisQ' \in Seq(Waiter)
    BY <1>6, QueueType, <1>0 DEF FindCommand, CacheType
  <2>2. CacheType'
    BY <1>6, <2>1 DEF FindCommand, CacheType, tcp, cache, db, closes, syncs,
      history, counts
  <2>3. SessionType'
    BY <1>6 DEF FindCommand, SessionType, tcp, cache, db, closes, syncs, history,
      counts
  <2>4. SessionShape'
    BY <1>6 DEF FindCommand, SessionShape, WellFormed, SessionType, LoginPc,
      CommandPc, tcp, cache, db, closes, syncs, history, counts
  <2>5. AttemptFlow'
    BY <1>6 DEF FindCommand, AttemptFlow, DeletedOnlyAfterAttempt, SessionType,
      CommandPc, tcp, cache, db, closes, syncs, history, counts
  <2>6. TcpType' /\ DbType' /\ CloseType' /\ SyncType' /\ LogType' /\
         RegistrationFlow'
    BY <1>6 DEF FindCommand, TcpType, DbType, CloseType, SyncType, LogType,
      RegistrationFlow, AuthorizedWasRegistered, tcp, cache, db, closes, syncs,
      history, counts
  <2> QED BY <2>2, <2>3, <2>4, <2>5, <2>6 DEF IndInv, TypeOK
<1>7. ASSUME RemoveFromList(t)
      PROVE  IndInv'
  <2>1. redisQ' \in Seq(Waiter)
    BY <1>7, QueueType, <1>0 DEF RemoveFromList, CacheType
  <2>2. CacheType'
    BY <1>7, <2>1, <1>0, RemoveFirstType DEF RemoveFromList, CacheType, LoginPc,
      SessionShape, Item, tcp, db, closes, syncs, history, counts
  <2>3. SessionType'
    BY <1>7 DEF RemoveFromList, SessionType, tcp, db, closes, syncs, history, counts
  <2>4. SessionShape'
    BY <1>7 DEF RemoveFromList, SessionShape, WellFormed, SessionType, LoginPc,
      CommandPc, tcp, db, closes, syncs, history, counts
  <2>5. AttemptFlow'
    BY <1>7 DEF RemoveFromList, AttemptFlow, DeletedOnlyAfterAttempt, SessionType,
      CommandPc, tcp, db, closes, syncs, history, counts
  <2>6. TcpType' /\ DbType' /\ CloseType' /\ SyncType' /\ LogType' /\
         RegistrationFlow'
    BY <1>7 DEF RemoveFromList, TcpType, DbType, CloseType, SyncType, LogType,
      RegistrationFlow, AuthorizedWasRegistered, tcp, db, closes, syncs, history,
      counts
  <2> QED BY <2>2, <2>3, <2>4, <2>5, <2>6 DEF IndInv, TypeOK
<1>8. ASSUME DeleteMissing(t)
      PROVE  IndInv'
  <2>1. SessionType'
    BY <1>8, EmptySeq DEF DeleteMissing, SessionType, Finish, StartItem, KeyFor, Imei, PcFor, tcp, cache, db,
      closes, syncs, history, counts
  <2>2. SessionShape'
    BY <1>8, <1>0, EmptySeq DEF DeleteMissing, SessionShape, WellFormed, SessionType, LoginPc,
      CommandPc, Finish, StartItem, PcFor, tcp, cache, db, closes, syncs, history, counts
  <2>3. AttemptFlow'
    BY <1>8 DEF DeleteMissing, AttemptFlow, DeletedOnlyAfterAttempt, SessionType,
      CommandPc, Finish, StartItem, PcFor, tcp, cache, db, closes, syncs, history, counts
  <2>4. TcpType' /\ CacheType' /\ DbType' /\ CloseType' /\ SyncType' /\ LogType' /\
         RegistrationFlow'
    BY <1>8 DEF DeleteMissing, TcpType, CacheType, DbType, CloseType, SyncType,
      LogType, RegistrationFlow, AuthorizedWasRegistered, tcp, cache, db, closes,
      syncs, history, counts
  <2> QED BY <2>1, <2>2, <2>3, <2>4 DEF IndInv, TypeOK
<1>9. DataStatusWrite(t) \/ GetCommands(t) \/ DeleteRow(t) => IndInv'
  BY LoopSteps
<1> QED BY <1>9, <1>1, <1>2, <1>3, <1>4, <1>5, <1>6, <1>7, <1>8 DEF TaskStep

(* So do the steps of the syncs.                                           *)
LEMMA AutosyncSteps ==
    ASSUME IndInv, NEW k \in Run, SyncStep(k)
    PROVE  IndInv'
<1> USE DEF IndInv, TypeOK
<1>1. ASSUME ImeisRead(k)
      PROVE  IndInv'
  <2>2. CacheType'
    BY <1>1 DEF ImeisRead, CacheType, tcp, cache, db, session, closes, history, counts
  <2>3. SyncType'
    BY <1>1 DEF ImeisRead, SyncType, DbType, tcp, cache, db, session, closes,
      history, counts
  <2>4. RegistrationFlow'
    BY <1>1 DEF ImeisRead, RegistrationFlow, AuthorizedWasRegistered, SyncType, tcp,
      cache, db, session, closes, history, counts
  <2>5. TcpType' /\ DbType' /\ SessionType' /\ CloseType' /\ LogType' /\
         SessionShape' /\ AttemptFlow'
    BY <1>1 DEF ImeisRead, TcpType, DbType, SessionType, CloseType, LogType,
      SessionShape, WellFormed, AttemptFlow, DeletedOnlyAfterAttempt, tcp, cache, db,
      session, closes, history, counts
  <2> QED BY <2>2, <2>3, <2>4, <2>5 DEF IndInv, TypeOK
<1>2. ASSUME ImeisDel(k)
      PROVE  IndInv'
  <2>1. redisQ' \in Seq(Waiter)
    BY <1>2, QueueType DEF ImeisDel, CacheType, Waiter, ImeiTask
  <2>2. CacheType'
    BY <1>2, <2>1 DEF ImeisDel, CacheType, tcp, db, session, closes, history, counts
  <2>3. SyncType'
    BY <1>2 DEF ImeisDel, SyncType, tcp, db, session, closes, history, counts
  <2>4. RegistrationFlow'
    BY <1>2 DEF ImeisDel, RegistrationFlow, AuthorizedWasRegistered, tcp, db,
      session, closes, history, counts
  <2>5. TcpType' /\ DbType' /\ SessionType' /\ CloseType' /\ LogType' /\
         SessionShape' /\ AttemptFlow'
    BY <1>2 DEF ImeisDel, TcpType, DbType, SessionType, CloseType, LogType,
      SessionShape, WellFormed, AttemptFlow, DeletedOnlyAfterAttempt, tcp, db,
      session, closes, history, counts
  <2> QED BY <2>2, <2>3, <2>4, <2>5 DEF IndInv, TypeOK
<1>3. ASSUME ImeisAdd(k)
      PROVE  IndInv'
  <2>1. redisQ' \in Seq(Waiter)
    BY <1>3, QueueType DEF ImeisAdd, CacheType, Waiter, ImeiTask
  <2>2. CacheType'
    BY <1>3, <2>1 DEF ImeisAdd, CacheType, SyncType, tcp, db, session, closes,
      history, counts
  <2>3. SyncType'
    BY <1>3 DEF ImeisAdd, SyncType, tcp, db, session, closes, history, counts
  <2>4. RegistrationFlow'
    BY <1>3 DEF ImeisAdd, RegistrationFlow, AuthorizedWasRegistered, SyncType, tcp,
      db, session, closes, history, counts
  <2>5. TcpType' /\ DbType' /\ SessionType' /\ CloseType' /\ LogType' /\
         SessionShape' /\ AttemptFlow'
    BY <1>3 DEF ImeisAdd, TcpType, DbType, SessionType, CloseType, LogType,
      SessionShape, WellFormed, AttemptFlow, DeletedOnlyAfterAttempt, tcp, db,
      session, closes, history, counts
  <2> QED BY <2>2, <2>3, <2>4, <2>5 DEF IndInv, TypeOK
<1>4. ASSUME StatusSnapshot(k)
      PROVE  IndInv'
  <2>1. redisQ' \in Seq(Waiter)
    BY <1>4, QueueType DEF StatusSnapshot, CacheType, Waiter, StatusTask
  <2>2. CacheType'
    BY <1>4, <2>1 DEF StatusSnapshot, CacheType, tcp, cache, db, session, closes,
      history, counts
  <2>3. SyncType'
    BY <1>4 DEF StatusSnapshot, SyncType, CacheType, tcp, cache, db, session,
      closes, history, counts
  <2>4. TcpType' /\ DbType' /\ SessionType' /\ CloseType' /\ LogType' /\
         SessionShape' /\ RegistrationFlow' /\ AttemptFlow'
    BY <1>4 DEF StatusSnapshot, TcpType, DbType, SessionType, CloseType, LogType,
      SessionShape, WellFormed, RegistrationFlow, AuthorizedWasRegistered,
      AttemptFlow, DeletedOnlyAfterAttempt, tcp, cache, db, session, closes, history,
      counts
  <2> QED BY <2>2, <2>3, <2>4 DEF IndInv, TypeOK
<1>5. ASSUME StatusUpsert(k)
      PROVE  IndInv'
  <2>1. DbType'
    BY <1>5 DEF StatusUpsert, DbType, SyncType, tcp, cache, session, closes,
      history, counts
  <2>2. SyncType'
    BY <1>5 DEF StatusUpsert, SyncType, tcp, cache, session, closes, history, counts
  <2>3. TcpType' /\ CacheType' /\ SessionType' /\ CloseType' /\ LogType' /\
         SessionShape' /\ RegistrationFlow' /\ AttemptFlow'
    BY <1>5 DEF StatusUpsert, TcpType, CacheType, SessionType, CloseType, LogType,
      SessionShape, WellFormed, RegistrationFlow, AuthorizedWasRegistered,
      AttemptFlow, DeletedOnlyAfterAttempt, tcp, cache, session, closes, history,
      counts
  <2> QED BY <2>1, <2>2, <2>3 DEF IndInv, TypeOK
<1>6. ASSUME RowsRead(k)
      PROVE  IndInv'
  <2>2. CacheType'
    BY <1>6 DEF RowsRead, CacheType, tcp, cache, db, session, closes, history, counts
  <2>3. SyncType'
    BY <1>6 DEF RowsRead, SyncType, DbType, tcp, cache, db, session, closes,
      history, counts
  <2>4. TcpType' /\ DbType' /\ SessionType' /\ CloseType' /\ LogType' /\
         SessionShape' /\ RegistrationFlow' /\ AttemptFlow'
    BY <1>6 DEF RowsRead, TcpType, DbType, SessionType, CloseType, LogType,
      SessionShape, WellFormed, RegistrationFlow, AuthorizedWasRegistered,
      AttemptFlow, DeletedOnlyAfterAttempt, tcp, cache, db, session, closes, history,
      counts
  <2> QED BY <2>2, <2>3, <2>4 DEF IndInv, TypeOK
<1>7. ASSUME ImeisAnswered(k)
      PROVE  IndInv'
  <2>1. redisQ' \in Seq(Waiter)
    BY <1>7, QueueType DEF ImeisAnswered, CacheType, Waiter, ImeiTask
  <2>2. CacheType'
    BY <1>7, <2>1 DEF ImeisAnswered, CacheType, cache
  <2>3. SyncType'
    BY <1>7 DEF ImeisAnswered, SyncType
  <2>4. TcpType' /\ DbType' /\ SessionType' /\ CloseType' /\ LogType' /\
         SessionShape' /\ RegistrationFlow' /\ AttemptFlow'
    BY <1>7 DEF ImeisAnswered, TcpType, DbType, SessionType, CloseType, LogType,
      SessionShape, WellFormed, RegistrationFlow, AuthorizedWasRegistered,
      AttemptFlow, DeletedOnlyAfterAttempt, tcp, cache, db, session, closes, history,
      counts
  <2> QED BY <2>2, <2>3, <2>4 DEF IndInv, TypeOK
<1>8. ASSUME RowsAnswered(k)
      PROVE  IndInv'
  <2>1. redisQ' \in Seq(Waiter)
    BY <1>8, QueueType DEF RowsAnswered, CacheType, Waiter, CommandTask
  <2>2. CacheType'
    BY <1>8, <2>1 DEF RowsAnswered, CacheType, cache
  <2>3. SyncType'
    BY <1>8 DEF RowsAnswered, SyncType
  <2>4. TcpType' /\ DbType' /\ SessionType' /\ CloseType' /\ LogType' /\
         SessionShape' /\ RegistrationFlow' /\ AttemptFlow'
    BY <1>8 DEF RowsAnswered, TcpType, DbType, SessionType, CloseType, LogType,
      SessionShape, WellFormed, RegistrationFlow, AuthorizedWasRegistered,
      AttemptFlow, DeletedOnlyAfterAttempt, tcp, cache, db, session, closes, history,
      counts
  <2> QED BY <2>2, <2>3, <2>4 DEF IndInv, TypeOK
<1>9. PipelineExec(k) => IndInv'
  BY PipelineStep
<1> QED BY <1>1, <1>2, <1>3, <1>4, <1>5, <1>6, <1>7, <1>8, <1>9 DEF SyncStep

(* So do those of the startup sync alone, and the interval.                *)
LEMMA BootSteps ==
    ASSUME IndInv, BootStep \/ Tick
    PROVE  IndInv'
<1> USE DEF IndInv, TypeOK
<1>0. StatusTask(0) \in Waiter
  BY BoundAssumption DEF StatusTask, Waiter, Run
<1>1. ASSUME BootStatusRead
      PROVE  IndInv'
  <2>1. redisQ' \in Seq(Waiter)
    BY <1>1, QueueType, <1>0 DEF BootStatusRead, CacheType
  <2>2. CacheType'
    BY <1>1, <2>1 DEF BootStatusRead, CacheType, tcp, cache, db, session, closes,
      history, counts
  <2>3. SyncType'
    BY <1>1, BoundAssumption DEF BootStatusRead, SyncType, DbType, Run, tcp, cache,
      db, session, closes, history, counts
  <2>4. TcpType' /\ DbType' /\ SessionType' /\ CloseType' /\ LogType' /\
         SessionShape' /\ RegistrationFlow' /\ AttemptFlow'
    BY <1>1 DEF BootStatusRead, TcpType, DbType, SessionType, CloseType, LogType,
      SessionShape, WellFormed, RegistrationFlow, AuthorizedWasRegistered,
      AttemptFlow, DeletedOnlyAfterAttempt, tcp, cache, db, session, closes, history,
      counts
  <2> QED BY <2>2, <2>3, <2>4 DEF IndInv, TypeOK
<1>2. ASSUME BootStatusDel
      PROVE  IndInv'
  <2>1. redisQ' \in Seq(Waiter)
    BY <1>2, QueueType, <1>0 DEF BootStatusDel, CacheType
  <2>2. CacheType'
    BY <1>2, <2>1 DEF BootStatusDel, CacheType, NoStatus, tcp, db, session, closes,
      history, counts
  <2>3. SyncType'
    BY <1>2, BoundAssumption DEF BootStatusDel, SyncType, Run, tcp, db, session,
      closes, history, counts
  <2>4. TcpType' /\ DbType' /\ SessionType' /\ CloseType' /\ LogType' /\
         SessionShape' /\ RegistrationFlow' /\ AttemptFlow'
    BY <1>2 DEF BootStatusDel, TcpType, DbType, SessionType, CloseType, LogType,
      SessionShape, WellFormed, RegistrationFlow, AuthorizedWasRegistered,
      AttemptFlow, DeletedOnlyAfterAttempt, tcp, db, session, closes, history, counts
  <2> QED BY <2>2, <2>3, <2>4 DEF IndInv, TypeOK
<1>3. ASSUME BootStatusSet
      PROVE  IndInv'
  <2>1. redisQ' \in Seq(Waiter)
    BY <1>3, QueueType, <1>0 DEF BootStatusSet, CacheType
  <2>2. CacheType'
    BY <1>3, <2>1, BoundAssumption DEF BootStatusSet, CacheType, SyncType, Run, tcp,
      db, session, closes, history, counts
  <2>3. SyncType'
    BY <1>3, BoundAssumption DEF BootStatusSet, SyncType, NoStatus, Run, tcp, db,
      session, closes, history, counts
  <2>4. TcpType' /\ DbType' /\ SessionType' /\ CloseType' /\ LogType' /\
         SessionShape' /\ RegistrationFlow' /\ AttemptFlow'
    BY <1>3 DEF BootStatusSet, TcpType, DbType, SessionType, CloseType, LogType,
      SessionShape, WellFormed, RegistrationFlow, AuthorizedWasRegistered,
      AttemptFlow, DeletedOnlyAfterAttempt, tcp, db, session, closes, history, counts
  <2> QED BY <2>2, <2>3, <2>4 DEF IndInv, TypeOK
<1>4. ASSUME Tick
      PROVE  IndInv'
  <2>1. redisQ' \in Seq(Waiter)
    <3>1. nTick \in 0..MaxTicks /\ nTick < MaxTicks /\ redisQ \in Seq(Waiter)
      BY <1>4 DEF IndInv, TypeOK, Tick, CacheType, LogType
    <3>2. nTick + 1 \in Run
      BY <3>1, BoundAssumption DEF Run
    <3>3. StatusTask(nTick + 1) \in Waiter
      BY <3>2 DEF StatusTask, Waiter
    <3>4. Issue(<<StatusTask(nTick + 1)>>)
      BY <1>4 DEF Tick
    <3> QED BY <3>1, <3>3, <3>4, QueueType
  <2>2. CacheType'
    BY <1>4, <2>1 DEF Tick, CacheType, tcp, cache, db, session, closes, history
  <2>3. SyncType'
    BY <1>4, BoundAssumption DEF Tick, SyncType, LogType, Run, tcp, cache, db,
      session, closes, history
  <2>4. LogType'
    <3>1. nTick + 1 \in Run /\ nTick' = nTick + 1 /\ nTick' \in 0..MaxTicks
      BY <1>4, BoundAssumption DEF Tick, LogType, Run
    <3>2. overlapped' \in SUBSET Run
      BY <1>4, <3>1 DEF Tick, LogType, Syncing
    <3> QED BY <1>4, <3>1, <3>2 DEF Tick, LogType
  <2>5. TcpType' /\ DbType' /\ SessionType' /\ CloseType' /\ SessionShape' /\
         RegistrationFlow' /\ AttemptFlow'
    BY <1>4 DEF Tick, TcpType, DbType, SessionType, CloseType, SessionShape,
      WellFormed, RegistrationFlow, AuthorizedWasRegistered, AttemptFlow,
      DeletedOnlyAfterAttempt, tcp, cache, db, session, closes, history
  <2> QED BY <2>2, <2>3, <2>4, <2>5 DEF IndInv, TypeOK
<1> QED BY <1>1, <1>2, <1>3, <1>4 DEF BootStep

(* So do the requests of the API.                                          *)
LEMMA ApiSteps ==
    ASSUME IndInv, NEW c \in Command, ApiStep(c)
    PROVE  IndInv'
<1> USE DEF IndInv, TypeOK
<1>1. ASSUME SendNow(c)
      PROVE  IndInv'
  <2>1. LogType'
    BY <1>1 DEF SendNow, LogType, tcp, cache, db, session, closes, syncs, counts
  <2>2. AttemptFlow'
    BY <1>1 DEF SendNow, AttemptFlow, DeletedOnlyAfterAttempt, LogType, tcp, cache,
      db, session, closes, syncs, counts
  <2>3. TcpType' /\ CacheType' /\ DbType' /\ SessionType' /\ CloseType' /\ SyncType'
         /\ SessionShape' /\ RegistrationFlow'
    BY <1>1 DEF SendNow, TcpType, CacheType, DbType, SessionType, CloseType,
      SyncType, SessionShape, WellFormed, RegistrationFlow, AuthorizedWasRegistered,
      tcp, cache, db, session, closes, syncs, counts
  <2> QED BY <2>1, <2>2, <2>3 DEF IndInv, TypeOK
<1>2. ASSUME StartQueueing(c)
      PROVE  IndInv'
  <2>1. LogType'
    BY <1>2 DEF StartQueueing, LogType, tcp, cache, db, session, closes, syncs,
      history, counts
  <2>2. AttemptFlow'
    BY <1>2 DEF StartQueueing, AttemptFlow, DeletedOnlyAfterAttempt, LogType, tcp,
      cache, db, session, closes, syncs, history, counts
  <2>3. TcpType' /\ CacheType' /\ DbType' /\ SessionType' /\ CloseType' /\ SyncType'
         /\ SessionShape' /\ RegistrationFlow'
    BY <1>2 DEF StartQueueing, TcpType, CacheType, DbType, SessionType, CloseType,
      SyncType, SessionShape, WellFormed, RegistrationFlow, AuthorizedWasRegistered,
      tcp, cache, db, session, closes, syncs, history, counts
  <2> QED BY <2>1, <2>2, <2>3 DEF IndInv, TypeOK
<1>3. ASSUME CreateRow(c)
      PROVE  IndInv'
  <2>1. DbType'
    BY <1>3 DEF CreateRow, DbType, tcp, cache, session, closes, syncs, history,
      counts
  <2>2. LogType'
    BY <1>3 DEF CreateRow, LogType, tcp, cache, session, closes, syncs, history,
      counts
  <2>3. AttemptFlow'
    BY <1>3 DEF CreateRow, AttemptFlow, DeletedOnlyAfterAttempt, LogType, tcp,
      cache, session, closes, syncs, history, counts
  <2>4. TcpType' /\ CacheType' /\ SessionType' /\ CloseType' /\ SyncType' /\
         SessionShape' /\ RegistrationFlow'
    BY <1>3 DEF CreateRow, TcpType, CacheType, SessionType, CloseType, SyncType,
      SessionShape, WellFormed, RegistrationFlow, AuthorizedWasRegistered, tcp, cache,
      session, closes, syncs, history, counts
  <2> QED BY <2>1, <2>2, <2>3, <2>4 DEF IndInv, TypeOK
<1> QED BY <1>1, <1>2, <1>3 DEF ApiStep

(* An outage ends some tasks and leaves the rest as they are.              *)
LEMMA OutageStep ==
    ASSUME IndInv, Outage
    PROVE  IndInv'
<1> USE DEF IndInv, TypeOK
<1>1. PICK failed \in SUBSET Event : TasksFail(failed)
  BY DEF Outage, RedisOutage, DatabaseOutage
<1>2. /\ redisQ' \in Seq(Waiter)
      /\ request' \in [Command -> {"none", "sent", "creating", "queued", "failed"}]
      /\ \A c \in Command : request'[c] = "queued" => request[c] = "queued"
  BY EmptySeq DEF Outage, RedisOutage, DatabaseOutage, CacheType, LogType
<1>3. TcpType' /\ DbType' /\ CloseType'
  BY DEF Outage, TcpType, DbType, CloseType, tcp, db, closes
<1>4. SyncType' /\ snapImeis' = snapImeis
  <2>1. CASE RedisOutage
    BY <2>1 DEF RedisOutage, Outage, SyncType
  <2>2. CASE DatabaseOutage
    BY <2>2 DEF DatabaseOutage, UpsertsLost, Outage, SyncType
  <2> QED BY <2>1, <2>2 DEF Outage
<1>5. CacheType'
  <2>1. cmdList' \in [Device -> Seq(Command)]
    BY BrokenListType DEF Outage, RedisOutage, DatabaseOutage, CacheType
  <2> QED BY <1>2, <2>1 DEF Outage, CacheType
<1>6. SessionType'
  BY <1>1, EmptySeq DEF Outage, TasksFail, SessionType, Imei
<1>7. LogType'
  BY <1>2, BoundAssumption DEF Outage, LogType, history
<1>8. SessionShape'
  <2> SUFFICES ASSUME NEW t \in Event
               PROVE  SessionShape!(t)'
    BY DEF SessionShape
  <2> QED
    BY <1>1, EmptySeq DEF Outage, TasksFail, SessionShape, WellFormed, SessionType, LoginPc,
      CommandPc, history
<1>9. RegistrationFlow'
  BY <1>4 DEF Outage, RegistrationFlow, AuthorizedWasRegistered, tcp, db, history
<1>10. AttemptFlow'
  BY <1>1, <1>2 DEF Outage, TasksFail, AttemptFlow, DeletedOnlyAfterAttempt, CommandPc,
    SessionType, db, history
<1> QED BY <1>3, <1>4, <1>5, <1>6, <1>7, <1>8, <1>9, <1>10

(* So do crashes and the other programs.                                   *)
LEMMA EnvironmentSteps ==
    ASSUME IndInv, Environment
    PROVE  IndInv'
<1> USE DEF IndInv, TypeOK
<1>1. ASSUME Crash
      PROVE  IndInv'
  <2>1. TcpType'
    BY <1>1, EmptySeq DEF Crash, TcpType, Imei, cache, db, history
  <2>2. CacheType'
    BY <1>1, EmptySeq, BrokenListType DEF Crash, CacheType
  <2>3. SessionType'
    BY <1>1, EmptySeq DEF Crash, SessionType, Imei, db, history
  <2>4. CloseType'
    BY <1>1 DEF Crash, CloseType, Imei, db, history
  <2>5. SyncType'
    BY <1>1 DEF Crash, SyncType, AfterCrash, NoStatus, cache, db, history
  <2>6. LogType'
    BY <1>1, BoundAssumption DEF Crash, LogType, cache, db, history
  <2>7. SessionShape'
    BY <1>1, EmptySeq DEF Crash, SessionShape, WellFormed, SessionType, LoginPc,
      CommandPc, cache, db, history
  <2>8. RegistrationFlow'
    BY <1>1 DEF Crash, RegistrationFlow, AuthorizedWasRegistered, cache, db, history
  <2>9. AttemptFlow'
    BY <1>1 DEF Crash, AttemptFlow, DeletedOnlyAfterAttempt, CommandPc, SessionType,
      LogType, cache, db, history
  <2>10. DbType'
    BY <1>1 DEF Crash, DbType, cache, db, history
  <2> QED BY <2>1, <2>2, <2>3, <2>4, <2>5, <2>6, <2>7, <2>8, <2>9, <2>10 DEF IndInv, TypeOK
<1>2. ASSUME NEW d \in Device, RegisterDevice(d) \/ RemoveDevice(d)
      PROVE  IndInv'
  BY <1>2, DeviceTableSteps
<1> QED BY <1>1, <1>2, OutageStep DEF Environment

(* The start of the system satisfies the invariant.                        *)
LEMMA InitIndInv == Init => IndInv
<1> SUFFICES ASSUME Init PROVE IndInv
  OBVIOUS
<1> USE DEF Init
<1>1. TcpType /\ CacheType /\ DbType
  BY CommandAssumption, EmptySeq DEF TcpType, CacheType, DbType, Imei, NoStatus, Entry,
    LeftByEarlierRun
<1>2. SessionType /\ CloseType /\ SyncType
  BY EmptySeq DEF SessionType, CloseType, SyncType, NoStatus, Imei
<1>3. LogType
  BY CommandAssumption, BoundAssumption DEF LogType
<1>4. SessionShape /\ AttemptFlow
  BY DEF SessionShape, WellFormed, AttemptFlow, DeletedOnlyAfterAttempt, LoginPc, CommandPc
<1>5. RegistrationFlow
  BY DEF RegistrationFlow, AuthorizedWasRegistered
<1> QED BY <1>1, <1>2, <1>3, <1>4, <1>5 DEF IndInv, TypeOK

(* A step that changes nothing keeps it.                                   *)
LEMMA StutterIndInv ==
    ASSUME IndInv, UNCHANGED vars
    PROVE  IndInv'
<1> USE DEF vars, tcp, cache, db, session, closes, syncs, history, counts
<1>1. TcpType' /\ CacheType' /\ DbType' /\ SessionType' /\ CloseType' /\ SyncType' /\ LogType'
  BY DEF IndInv, TypeOK, TcpType, CacheType, DbType, SessionType, CloseType, SyncType, LogType
<1>2. SessionShape' /\ AttemptFlow'
  BY DEF IndInv, SessionShape, WellFormed, AttemptFlow, DeletedOnlyAfterAttempt
<1>3. RegistrationFlow'
  BY DEF IndInv, RegistrationFlow, AuthorizedWasRegistered
<1> QED BY <1>1, <1>2, <1>3 DEF IndInv, TypeOK

(* IndInv holds in every reachable state.                                  *)
THEOREM IndInvInvariant == Spec => []IndInv
<1>1. IndInv /\ [Next]_vars => IndInv'
  <2> SUFFICES ASSUME IndInv, [Next]_vars PROVE IndInv'
    OBVIOUS
  <2>1. CASE \E s \in Socket : SocketStep(s)
    BY <2>1, TcpServerSteps
  <2>2. CASE \E t \in Event : TaskStep(t)
    BY <2>2, DeviceSessionSteps
  <2>3. CASE BootStep \/ Tick
    BY <2>3, BootSteps
  <2>4. CASE \E k \in Run : SyncStep(k)
    BY <2>4, AutosyncSteps
  <2>5. CASE \E c \in Command : ApiStep(c)
    BY <2>5, ApiSteps
  <2>6. CASE Environment
    BY <2>6, EnvironmentSteps
  <2>7. CASE UNCHANGED vars
    BY <2>7, StutterIndInv
  <2> QED BY <2>1, <2>2, <2>3, <2>4, <2>5, <2>6, <2>7 DEF Next
<1> QED BY <1>1, InitIndInv, PTL DEF Spec

(* Every variable always has its type.                                     *)
THEOREM TypeCorrect == Spec => []TypeOK
<1>1. IndInv => TypeOK
  BY DEF IndInv
<1> QED BY <1>1, IndInvInvariant, PTL

(* However often a socket changes its IMEI, it is authorised (isAuthorized *)
(* in socket.meta) only if it has claimed one that some row of table       *)
(* Device has named.                                                       *)
THEOREM AuthorizedAlwaysRegistered == Spec => []AuthorizedWasRegistered
<1>1. IndInv => AuthorizedWasRegistered
  BY DEF IndInv, RegistrationFlow
<1> QED BY <1>1, IndInvInvariant, PTL

(* removeDeviceCommand never deletes the row of a command that GT06 can    *)
(* encode and that has not been handed to a socket, in whatever order      *)
(* sessions, syncs, requests and crashes interleave.                       *)
THEOREM DeletedAfterAttempt == Spec => []DeletedOnlyAfterAttempt
<1>1. IndInv => DeletedOnlyAfterAttempt
  BY DEF IndInv, AttemptFlow
<1> QED BY <1>1, IndInvInvariant, PTL
=============================================================================
