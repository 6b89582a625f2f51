--------------------------- MODULE LifecycleProofs ---------------------------
(***************************************************************************)
(* The start and the stop are safe for every set of ports and sockets and  *)
(* every bound: LifecycleInv is an inductive invariant of Lifecycle.       *)
(***************************************************************************)
EXTENDS LifecycleProperties, TLAPS

LEMMA MethodsBounded == ASSUME NEW o \in Systems PROVE Methods[o] \in 0..4
  BY SystemsAssumption DEF Methods

LEMMA InitHolds == Init => LifecycleInv
<1> SUFFICES ASSUME Init PROVE LifecycleInv
  OBVIOUS
<1>1. RedisTypeOK
  <2>1. client \in [Client -> ClientStatus]
    BY DEF Init, ClientStatus
  <2>2. boot \in Boot /\ current \in Client
    BY DEF Init, Boot, Client
  <2> QED
    BY <2>1, <2>2, RetryLimitAssumption, MaxPollsAssumption DEF Init, RedisTypeOK
<1>5. ProcessTypeOK
  BY MaxWaitsAssumption, MaxFaultsAssumption DEF Init, ProcessTypeOK, Stop
<1>6. FlagsTypeOK
  BY Zenon DEF Init, FlagsTypeOK
<1>2. OneClient /\ FirstClientLasts /\ DrainedBeforeEnd
  BY DEF Init, OneClient, FirstClientLasts, DrainedBeforeEnd, Client
<1>3. SecondClientIsLast
  BY RetryLimitAssumption DEF Init, SecondClientIsLast, Client
<1>4. FirstClientGivenUp /\ ShutdownAfterPorts
  BY DEF Init, FirstClientGivenUp, ShutdownAfterPorts
<1> QED BY <1>1, <1>2, <1>3, <1>4, <1>5, <1>6 DEF LifecycleInv, TypeOK

\* Whatever ends the process leaves nothing behind that could break the invariant.
LEMMA GoneHolds ==
    ASSUME LifecycleInv, Gone, proc' \in {"up", "down", "stopped"}
    PROVE  LifecycleInv'
<1>1. RedisTypeOK'
  <2>1. client' \in [Client -> ClientStatus]
    BY DEF Gone, ClientStatus
  <2>2. boot' \in Boot /\ current' \in Client
    BY DEF Gone, Boot, Client
  <2> QED
    BY <2>1, <2>2, RetryLimitAssumption, MaxPollsAssumption
       DEF Gone, settings, LifecycleInv, TypeOK, RedisTypeOK
<1>5. ProcessTypeOK'
  BY MaxWaitsAssumption DEF Gone, LifecycleInv, TypeOK, ProcessTypeOK, Stop
<1>6. FlagsTypeOK'
  BY Zenon DEF Gone, LifecycleInv, TypeOK, FlagsTypeOK
<1>2. OneClient' /\ FirstClientLasts' /\ DrainedBeforeEnd'
  BY DEF Gone, OneClient, FirstClientLasts, DrainedBeforeEnd, Client
<1>3. SecondClientIsLast'
  BY RetryLimitAssumption DEF Gone, SecondClientIsLast, Client
<1>4. FirstClientGivenUp' /\ ShutdownAfterPorts'
  BY DEF Gone, FirstClientGivenUp, ShutdownAfterPorts
<1> QED BY <1>1, <1>2, <1>3, <1>4, <1>5, <1>6 DEF LifecycleInv, TypeOK
-----------------------------------------------------------------------------
(* One lemma per action that keeps the process alive. *)
\* Steps that leave Redis and its clients alone, and steps that leave the rest alone.
LEMMA RedisUntouched ==
    ASSUME LifecycleInv, UNCHANGED redisVars
    PROVE  RedisTypeOK' /\ OneClient' /\ SecondClientIsLast' /\ FirstClientGivenUp'
  BY DEF redisVars, settings, LifecycleInv, TypeOK, RedisTypeOK, OneClient,
         SecondClientIsLast, FirstClientGivenUp

LEMMA RestUntouched ==
    ASSUME LifecycleInv, UNCHANGED <<listening, work, sync, ending, fate, nFault>>
    PROVE  ProcessTypeOK' /\ FlagsTypeOK' /\ DrainedBeforeEnd'
<1>1. ProcessTypeOK' /\ DrainedBeforeEnd'
  BY DEF LifecycleInv, TypeOK, ProcessTypeOK, DrainedBeforeEnd, work, ending, fate
<1>2. FlagsTypeOK'
  BY Zenon DEF LifecycleInv, TypeOK, FlagsTypeOK, sync, ending, fate
<1> QED BY <1>1, <1>2

LEMMA ConnectDatabaseHolds ==
    ASSUME LifecycleInv, ConnectDatabase
    PROVE  LifecycleInv'
<1>1. RedisTypeOK'
  BY DEF ConnectDatabase, BootOnly, LifecycleInv, TypeOK, RedisTypeOK, Boot, RedisBoot,
         settings
<1>2. OneClient' /\ SecondClientIsLast' /\ FirstClientGivenUp'
  BY DEF ConnectDatabase, BootOnly, LifecycleInv, TypeOK, RedisTypeOK, OneClient,
         SecondClientIsLast, FirstClientGivenUp, RedisBoot, Client, settings
<1>3. ProcessTypeOK' /\ FlagsTypeOK' /\ DrainedBeforeEnd'
  BY RestUntouched DEF ConnectDatabase, BootOnly
<1>5. FirstClientLasts' /\ ShutdownAfterPorts'
  BY DEF ConnectDatabase, BootOnly, LifecycleInv, TypeOK, RedisTypeOK, FirstClientLasts,
         FirstClientGivenUp, ShutdownAfterPorts, redisVars, settings, work, sync,
         ending, fate, Client
<1> QED BY <1>1, <1>2, <1>3, <1>5 DEF LifecycleInv, TypeOK

LEMMA DatabaseRefusesHolds ==
    ASSUME LifecycleInv, DatabaseRefuses
    PROVE  LifecycleInv'
<1>1. RedisTypeOK'
  BY DEF DatabaseRefuses, Fault, FailedStart, BootOnly, LifecycleInv, TypeOK,
         RedisTypeOK, Boot, RedisBoot, settings
<1>2. OneClient' /\ SecondClientIsLast' /\ FirstClientGivenUp'
  BY DEF DatabaseRefuses, Fault, FailedStart, BootOnly, LifecycleInv, TypeOK,
         RedisTypeOK, OneClient, SecondClientIsLast, FirstClientGivenUp, RedisBoot,
         Client, settings
<1>3. ProcessTypeOK' /\ DrainedBeforeEnd'
  BY MaxFaultsAssumption DEF DatabaseRefuses, Fault, FailedStart, BootOnly,
         LifecycleInv, TypeOK, ProcessTypeOK, DrainedBeforeEnd, ShutdownAfterPorts,
         work, sync, ending, fate, Stop
<1>4. FlagsTypeOK'
  BY Zenon DEF DatabaseRefuses, Fault, FailedStart, BootOnly, LifecycleInv, TypeOK,
         FlagsTypeOK, work, sync, ending, fate
<1>5. FirstClientLasts' /\ ShutdownAfterPorts'
  BY DEF DatabaseRefuses, Fault, FailedStart, BootOnly, LifecycleInv, TypeOK,
         RedisTypeOK, FirstClientLasts, FirstClientGivenUp, ShutdownAfterPorts,
         redisVars, settings, work, sync, ending, fate, Client
<1> QED BY <1>1, <1>2, <1>3, <1>4, <1>5 DEF LifecycleInv, TypeOK

LEMMA ListenPortHolds ==
    ASSUME LifecycleInv, NEW p \in Port, ListenPort(p)
    PROVE  LifecycleInv'
<1>1. RedisTypeOK'
  BY DEF ListenPort, BootOnly, LifecycleInv, TypeOK, RedisTypeOK, Boot, RedisBoot,
         settings
<1>2. OneClient' /\ SecondClientIsLast' /\ FirstClientGivenUp'
  BY DEF ListenPort, BootOnly, LifecycleInv, TypeOK, RedisTypeOK, OneClient,
         SecondClientIsLast, FirstClientGivenUp, RedisBoot, Client, settings
<1>3. ProcessTypeOK' /\ DrainedBeforeEnd'
  BY DEF ListenPort, BootOnly, LifecycleInv, TypeOK, ProcessTypeOK, DrainedBeforeEnd,
         ShutdownAfterPorts, work, sync, ending, fate, Stop
<1>4. FlagsTypeOK'
  BY Zenon DEF ListenPort, BootOnly, LifecycleInv, TypeOK, FlagsTypeOK, work, sync,
         ending, fate
<1>5. FirstClientLasts' /\ ShutdownAfterPorts'
  BY DEF ListenPort, BootOnly, LifecycleInv, TypeOK, RedisTypeOK, FirstClientLasts,
         FirstClientGivenUp, ShutdownAfterPorts, redisVars, settings, work, sync,
         ending, fate, Client
<1> QED BY <1>1, <1>2, <1>3, <1>4, <1>5 DEF LifecycleInv, TypeOK

LEMMA PortInUseHolds ==
    ASSUME LifecycleInv, PortInUse
    PROVE  LifecycleInv'
<1>1. RedisTypeOK'
  BY DEF PortInUse, Fault, FailedStart, BootOnly, LifecycleInv, TypeOK, RedisTypeOK,
         Boot, RedisBoot, settings
<1>2. OneClient' /\ SecondClientIsLast' /\ FirstClientGivenUp'
  BY DEF PortInUse, Fault, FailedStart, BootOnly, LifecycleInv, TypeOK, RedisTypeOK,
         OneClient, SecondClientIsLast, FirstClientGivenUp, RedisBoot, Client, settings
<1>3. ProcessTypeOK' /\ DrainedBeforeEnd'
  BY MaxFaultsAssumption DEF PortInUse, Fault, FailedStart, BootOnly, LifecycleInv,
         TypeOK, ProcessTypeOK, DrainedBeforeEnd, ShutdownAfterPorts, work, sync,
         ending, fate, Stop
<1>4. FlagsTypeOK'
  BY Zenon DEF PortInUse, Fault, FailedStart, BootOnly, LifecycleInv, TypeOK,
         FlagsTypeOK, work, sync, ending, fate
<1>5. FirstClientLasts' /\ ShutdownAfterPorts'
  BY DEF PortInUse, Fault, FailedStart, BootOnly, LifecycleInv, TypeOK, RedisTypeOK,
         FirstClientLasts, FirstClientGivenUp, ShutdownAfterPorts, redisVars, settings,
         work, sync, ending, fate, Client
<1> QED BY <1>1, <1>2, <1>3, <1>4, <1>5 DEF LifecycleInv, TypeOK

LEMMA StartupSyncHolds ==
    ASSUME LifecycleInv, StartupSync
    PROVE  LifecycleInv'
<1>1. RedisTypeOK'
  BY DEF StartupSync, BootOnly, LifecycleInv, TypeOK, RedisTypeOK, Boot, RedisBoot,
         settings
<1>2. OneClient' /\ SecondClientIsLast' /\ FirstClientGivenUp'
  BY DEF StartupSync, BootOnly, LifecycleInv, TypeOK, RedisTypeOK, OneClient,
         SecondClientIsLast, FirstClientGivenUp, RedisBoot, Client, settings
<1>3. ProcessTypeOK' /\ DrainedBeforeEnd'
  BY DEF StartupSync, BootOnly, LifecycleInv, TypeOK, ProcessTypeOK, DrainedBeforeEnd,
         ShutdownAfterPorts, work, sync, ending, fate, Stop
<1>4. FlagsTypeOK'
  BY Zenon DEF StartupSync, BootOnly, LifecycleInv, TypeOK, FlagsTypeOK, work, sync,
         ending, fate
<1>5. FirstClientLasts' /\ ShutdownAfterPorts'
  BY DEF StartupSync, BootOnly, LifecycleInv, TypeOK, RedisTypeOK, FirstClientLasts,
         FirstClientGivenUp, ShutdownAfterPorts, redisVars, settings, work, sync,
         ending, fate, Client
<1> QED BY <1>1, <1>2, <1>3, <1>4, <1>5 DEF LifecycleInv, TypeOK

LEMMA StartupCommandsHolds ==
    ASSUME LifecycleInv, StartupCommands
    PROVE  LifecycleInv'
<1>1. RedisTypeOK'
  BY DEF StartupCommands, BootOnly, LifecycleInv, TypeOK, RedisTypeOK, Boot, RedisBoot,
         settings
<1>2. OneClient' /\ SecondClientIsLast' /\ FirstClientGivenUp'
  BY DEF StartupCommands, BootOnly, LifecycleInv, TypeOK, RedisTypeOK, OneClient,
         SecondClientIsLast, FirstClientGivenUp, RedisBoot, Client, settings
<1>3. ProcessTypeOK' /\ DrainedBeforeEnd'
  BY DEF StartupCommands, BootOnly, LifecycleInv, TypeOK, ProcessTypeOK, DrainedBeforeEnd,
         ShutdownAfterPorts, work, sync, ending, fate, Stop
<1>4. FlagsTypeOK'
  BY Zenon DEF StartupCommands, BootOnly, LifecycleInv, TypeOK, FlagsTypeOK, work, sync,
         ending, fate
<1>5. FirstClientLasts' /\ ShutdownAfterPorts'
  BY DEF StartupCommands, BootOnly, LifecycleInv, TypeOK, RedisTypeOK, FirstClientLasts,
         FirstClientGivenUp, ShutdownAfterPorts, redisVars, settings, work, sync,
         ending, fate, Client
<1> QED BY <1>1, <1>2, <1>3, <1>4, <1>5 DEF LifecycleInv, TypeOK

LEMMA ListenHttpHolds ==
    ASSUME LifecycleInv, ListenHttp
    PROVE  LifecycleInv'
<1>1. RedisTypeOK'
  BY DEF ListenHttp, BootOnly, LifecycleInv, TypeOK, RedisTypeOK, Boot, RedisBoot,
         settings
<1>2. OneClient' /\ SecondClientIsLast' /\ FirstClientGivenUp'
  BY DEF ListenHttp, BootOnly, LifecycleInv, TypeOK, RedisTypeOK, OneClient,
         SecondClientIsLast, FirstClientGivenUp, RedisBoot, Client, settings
<1>3. ProcessTypeOK' /\ FlagsTypeOK' /\ DrainedBeforeEnd'
  BY RestUntouched DEF ListenHttp, BootOnly
<1>5. FirstClientLasts' /\ ShutdownAfterPorts'
  BY DEF ListenHttp, BootOnly, LifecycleInv, TypeOK, RedisTypeOK, FirstClientLasts,
         FirstClientGivenUp, ShutdownAfterPorts, redisVars, settings, work, sync,
         ending, fate, Client
<1> QED BY <1>1, <1>2, <1>3, <1>5 DEF LifecycleInv, TypeOK

LEMMA RestartHolds ==
    ASSUME LifecycleInv, Restart
    PROVE  LifecycleInv'
<1>1. RedisTypeOK' /\ OneClient' /\ SecondClientIsLast' /\ FirstClientGivenUp'
  BY RedisUntouched DEF Restart
<1>3. ProcessTypeOK' /\ DrainedBeforeEnd'
  BY DEF Restart, LifecycleInv, TypeOK, ProcessTypeOK, DrainedBeforeEnd,
         ShutdownAfterPorts, work, sync, ending, fate, Stop
<1>4. FlagsTypeOK'
  BY Zenon DEF Restart, LifecycleInv, TypeOK, FlagsTypeOK, work, sync, ending, fate
<1>5. FirstClientLasts' /\ ShutdownAfterPorts'
  BY DEF Restart, LifecycleInv, TypeOK, RedisTypeOK, FirstClientLasts,
         FirstClientGivenUp, ShutdownAfterPorts, redisVars, settings, work, sync,
         ending, fate, Client
<1> QED BY <1>1, <1>3, <1>4, <1>5 DEF LifecycleInv, TypeOK

LEMMA DeviceConnectsHolds ==
    ASSUME LifecycleInv, NEW s \in Socket, DeviceConnects(s)
    PROVE  LifecycleInv'
<1>1. RedisTypeOK' /\ OneClient' /\ SecondClientIsLast' /\ FirstClientGivenUp'
  BY RedisUntouched DEF DeviceConnects
<1>3. ProcessTypeOK' /\ DrainedBeforeEnd'
  BY DEF DeviceConnects, LifecycleInv, TypeOK, ProcessTypeOK, DrainedBeforeEnd,
         ShutdownAfterPorts, work, sync, ending, fate, Stop
<1>4. FlagsTypeOK'
  BY Zenon DEF DeviceConnects, LifecycleInv, TypeOK, FlagsTypeOK, work, sync, ending,
         fate
<1>5. FirstClientLasts' /\ ShutdownAfterPorts'
  BY DEF DeviceConnects, LifecycleInv, TypeOK, RedisTypeOK, FirstClientLasts,
         FirstClientGivenUp, ShutdownAfterPorts, redisVars, settings, work, sync,
         ending, fate, Client
<1> QED BY <1>1, <1>3, <1>4, <1>5 DEF LifecycleInv, TypeOK

LEMMA DeviceLeavesHolds ==
    ASSUME LifecycleInv, NEW s \in Socket, DeviceLeaves(s)
    PROVE  LifecycleInv'
<1>1. RedisTypeOK' /\ OneClient' /\ SecondClientIsLast' /\ FirstClientGivenUp'
  BY RedisUntouched DEF DeviceLeaves
<1>3. ProcessTypeOK' /\ DrainedBeforeEnd'
  BY DEF DeviceLeaves, LifecycleInv, TypeOK, ProcessTypeOK, DrainedBeforeEnd,
         ShutdownAfterPorts, work, sync, ending, fate, Stop
<1>4. FlagsTypeOK'
  BY Zenon DEF DeviceLeaves, LifecycleInv, TypeOK, FlagsTypeOK, work, sync, ending, fate
<1>5. FirstClientLasts' /\ ShutdownAfterPorts'
  BY DEF DeviceLeaves, LifecycleInv, TypeOK, RedisTypeOK, FirstClientLasts,
         FirstClientGivenUp, ShutdownAfterPorts, redisVars, settings, work, sync,
         ending, fate, Client
<1> QED BY <1>1, <1>3, <1>4, <1>5 DEF LifecycleInv, TypeOK

LEMMA UpdateEndsHolds ==
    ASSUME LifecycleInv, NEW s \in Socket, UpdateEnds(s)
    PROVE  LifecycleInv'
<1>1. RedisTypeOK' /\ OneClient' /\ SecondClientIsLast' /\ FirstClientGivenUp'
  BY RedisUntouched DEF UpdateEnds
<1>3. ProcessTypeOK' /\ DrainedBeforeEnd'
  BY DEF UpdateEnds, LifecycleInv, TypeOK, ProcessTypeOK, DrainedBeforeEnd,
         ShutdownAfterPorts, work, sync, ending, fate, Stop
<1>4. FlagsTypeOK'
  BY Zenon DEF UpdateEnds, LifecycleInv, TypeOK, FlagsTypeOK, work, sync, ending, fate
<1>5. FirstClientLasts' /\ ShutdownAfterPorts'
  BY DEF UpdateEnds, LifecycleInv, TypeOK, RedisTypeOK, FirstClientLasts,
         FirstClientGivenUp, ShutdownAfterPorts, redisVars, settings, work, sync,
         ending, fate, Client
<1> QED BY <1>1, <1>3, <1>4, <1>5 DEF LifecycleInv, TypeOK

LEMMA TickHolds ==
    ASSUME LifecycleInv, Tick
    PROVE  LifecycleInv'
<1>1. RedisTypeOK' /\ OneClient' /\ SecondClientIsLast' /\ FirstClientGivenUp'
  BY RedisUntouched DEF Tick
<1>3. ProcessTypeOK' /\ DrainedBeforeEnd'
  BY DEF Tick, LifecycleInv, TypeOK, ProcessTypeOK, DrainedBeforeEnd,
         ShutdownAfterPorts, work, sync, ending, fate, Stop
<1>4. FlagsTypeOK'
  BY Zenon DEF Tick, LifecycleInv, TypeOK, FlagsTypeOK, work, sync, ending, fate
<1>5. FirstClientLasts' /\ ShutdownAfterPorts'
  BY DEF Tick, LifecycleInv, TypeOK, RedisTypeOK, FirstClientLasts, FirstClientGivenUp,
         ShutdownAfterPorts, redisVars, settings, work, sync, ending, fate, Client
<1> QED BY <1>1, <1>3, <1>4, <1>5 DEF LifecycleInv, TypeOK

LEMMA IntervalRedisHolds ==
    ASSUME LifecycleInv, IntervalRedis
    PROVE  LifecycleInv'
<1>1. RedisTypeOK' /\ OneClient' /\ SecondClientIsLast' /\ FirstClientGivenUp'
  BY RedisUntouched DEF IntervalRedis
<1>3. ProcessTypeOK' /\ DrainedBeforeEnd'
  BY DEF IntervalRedis, LifecycleInv, TypeOK, ProcessTypeOK, DrainedBeforeEnd,
         ShutdownAfterPorts, work, sync, ending, fate, Stop
<1>4. FlagsTypeOK'
  BY Zenon DEF IntervalRedis, LifecycleInv, TypeOK, FlagsTypeOK, work, sync, ending,
         fate
<1>5. FirstClientLasts' /\ ShutdownAfterPorts'
  BY DEF IntervalRedis, LifecycleInv, TypeOK, RedisTypeOK, FirstClientLasts,
         FirstClientGivenUp, ShutdownAfterPorts, redisVars, settings, work, sync,
         ending, fate, Client
<1> QED BY <1>1, <1>3, <1>4, <1>5 DEF LifecycleInv, TypeOK

LEMMA IntervalRejectsHolds ==
    ASSUME LifecycleInv, IntervalRejects
    PROVE  LifecycleInv'
<1>1. RedisTypeOK' /\ OneClient' /\ SecondClientIsLast' /\ FirstClientGivenUp'
  BY RedisUntouched DEF IntervalRejects, Unhandled
<1>3. ProcessTypeOK' /\ DrainedBeforeEnd'
  BY DEF IntervalRejects, Unhandled, LifecycleInv, TypeOK, ProcessTypeOK,
         DrainedBeforeEnd, ShutdownAfterPorts, work, sync, ending, fate, Stop
<1>4. FlagsTypeOK'
  BY Zenon DEF IntervalRejects, Unhandled, LifecycleInv, TypeOK, FlagsTypeOK, work,
         sync, ending, fate
<1>5. FirstClientLasts' /\ ShutdownAfterPorts'
  BY DEF IntervalRejects, Unhandled, LifecycleInv, TypeOK, RedisTypeOK,
         FirstClientLasts, FirstClientGivenUp, ShutdownAfterPorts, redisVars, settings,
         work, sync, ending, fate, Client
<1> QED BY <1>1, <1>3, <1>4, <1>5 DEF LifecycleInv, TypeOK

LEMMA IntervalRowsHolds ==
    ASSUME LifecycleInv, IntervalRows
    PROVE  LifecycleInv'
<1>1. RedisTypeOK' /\ OneClient' /\ SecondClientIsLast' /\ FirstClientGivenUp'
  BY RedisUntouched DEF IntervalRows
<1>3. ProcessTypeOK' /\ DrainedBeforeEnd'
  BY DEF IntervalRows, LifecycleInv, TypeOK, ProcessTypeOK, DrainedBeforeEnd,
         ShutdownAfterPorts, work, sync, ending, fate, Stop
<1>4. FlagsTypeOK'
  BY Zenon DEF IntervalRows, LifecycleInv, TypeOK, FlagsTypeOK, work, sync, ending, fate
<1>5. FirstClientLasts' /\ ShutdownAfterPorts'
  BY DEF IntervalRows, LifecycleInv, TypeOK, RedisTypeOK, FirstClientLasts,
         FirstClientGivenUp, ShutdownAfterPorts, redisVars, settings, work, sync,
         ending, fate, Client
<1> QED BY <1>1, <1>3, <1>4, <1>5 DEF LifecycleInv, TypeOK

LEMMA SignalHolds ==
    ASSUME LifecycleInv, Signal
    PROVE  LifecycleInv'
<1>1. RedisTypeOK' /\ OneClient' /\ SecondClientIsLast' /\ FirstClientGivenUp'
  BY RedisUntouched DEF Signal
<1>3. ProcessTypeOK' /\ DrainedBeforeEnd'
  BY DEF Signal, LifecycleInv, TypeOK, ProcessTypeOK, DrainedBeforeEnd,
         ShutdownAfterPorts, work, sync, ending, fate, Stop
<1>4. FlagsTypeOK'
  BY Zenon DEF Signal, LifecycleInv, TypeOK, FlagsTypeOK, work, sync, ending, fate
<1>5. FirstClientLasts' /\ ShutdownAfterPorts'
  BY DEF Signal, LifecycleInv, TypeOK, RedisTypeOK, FirstClientLasts,
         FirstClientGivenUp, ShutdownAfterPorts, redisVars, settings, work, sync,
         ending, fate, Client
<1> QED BY <1>1, <1>3, <1>4, <1>5 DEF LifecycleInv, TypeOK

LEMMA QuitHolds ==
    ASSUME LifecycleInv, Quit
    PROVE  LifecycleInv'
<1>1. RedisTypeOK'
  BY DEF Quit, QuitClient, LifecycleInv, TypeOK, RedisTypeOK, ClientStatus, settings
<1>2. OneClient' /\ SecondClientIsLast' /\ FirstClientGivenUp'
  BY DEF Quit, QuitClient, LifecycleInv, TypeOK, RedisTypeOK, OneClient,
         SecondClientIsLast, FirstClientGivenUp, ShutdownAfterPorts, RedisBoot, Client,
         settings
<1>3. ProcessTypeOK' /\ DrainedBeforeEnd'
  BY DEF Quit, QuitClient, LifecycleInv, TypeOK, ProcessTypeOK, DrainedBeforeEnd,
         ShutdownAfterPorts, work, sync, ending, fate, Stop
<1>4. FlagsTypeOK'
  BY Zenon DEF Quit, QuitClient, LifecycleInv, TypeOK, FlagsTypeOK, work, sync, ending,
         fate
<1>5. FirstClientLasts' /\ ShutdownAfterPorts'
  BY DEF Quit, QuitClient, LifecycleInv, TypeOK, RedisTypeOK, FirstClientLasts,
         FirstClientGivenUp, ShutdownAfterPorts, redisVars, settings, work, sync,
         ending, fate, Client
<1> QED BY <1>1, <1>2, <1>3, <1>4, <1>5 DEF LifecycleInv, TypeOK

LEMMA StopAllServersHolds ==
    ASSUME LifecycleInv, StopAllServers
    PROVE  LifecycleInv'
<1>1. RedisTypeOK' /\ OneClient' /\ SecondClientIsLast' /\ FirstClientGivenUp'
  BY RedisUntouched DEF StopAllServers
<1>3. ProcessTypeOK' /\ DrainedBeforeEnd'
  BY DEF StopAllServers, LifecycleInv, TypeOK, ProcessTypeOK, DrainedBeforeEnd,
         ShutdownAfterPorts, work, sync, ending, fate, Stop
<1>4. FlagsTypeOK'
  BY Zenon DEF StopAllServers, LifecycleInv, TypeOK, FlagsTypeOK, work, sync, ending,
         fate
<1>5. FirstClientLasts' /\ ShutdownAfterPorts'
  BY DEF StopAllServers, LifecycleInv, TypeOK, RedisTypeOK, FirstClientLasts,
         FirstClientGivenUp, ShutdownAfterPorts, redisVars, settings, work, sync,
         ending, fate, Client
<1> QED BY <1>1, <1>3, <1>4, <1>5 DEF LifecycleInv, TypeOK

LEMMA ServersClosedHolds ==
    ASSUME LifecycleInv, ServersClosed
    PROVE  LifecycleInv'
<1>1. RedisTypeOK' /\ OneClient' /\ SecondClientIsLast' /\ FirstClientGivenUp'
  BY RedisUntouched DEF ServersClosed, Drained
<1>3. ProcessTypeOK' /\ DrainedBeforeEnd'
  BY DEF ServersClosed, Drained, LifecycleInv, TypeOK, ProcessTypeOK, DrainedBeforeEnd,
         ShutdownAfterPorts, work, sync, ending, fate, Stop
<1>4. FlagsTypeOK'
  BY Zenon DEF ServersClosed, Drained, LifecycleInv, TypeOK, FlagsTypeOK, work, sync,
         ending, fate
<1>5. FirstClientLasts' /\ ShutdownAfterPorts'
  BY DEF ServersClosed, Drained, LifecycleInv, TypeOK, RedisTypeOK, FirstClientLasts,
         FirstClientGivenUp, ShutdownAfterPorts, redisVars, settings, work, sync,
         ending, fate, Client
<1> QED BY <1>1, <1>3, <1>4, <1>5 DEF LifecycleInv, TypeOK

LEMMA AwaitSyncHolds ==
    ASSUME LifecycleInv, AwaitSync
    PROVE  LifecycleInv'
<1>1. RedisTypeOK' /\ OneClient' /\ SecondClientIsLast' /\ FirstClientGivenUp'
  BY RedisUntouched DEF AwaitSync
<1>3. ProcessTypeOK' /\ DrainedBeforeEnd'
  BY MaxWaitsAssumption DEF AwaitSync, AwaitsStartup, LifecycleInv, TypeOK, ProcessTypeOK,
         DrainedBeforeEnd, ShutdownAfterPorts, work, sync, ending, fate, Stop
<1>4. FlagsTypeOK'
  BY Zenon DEF AwaitSync, AwaitsStartup, LifecycleInv, TypeOK, FlagsTypeOK, work, sync,
         ending, fate
<1>5. FirstClientLasts' /\ ShutdownAfterPorts'
  BY DEF AwaitSync, AwaitsStartup, LifecycleInv, TypeOK, RedisTypeOK, FirstClientLasts,
         FirstClientGivenUp, ShutdownAfterPorts, redisVars, settings, work, sync,
         ending, fate, Client
<1> QED BY <1>1, <1>3, <1>4, <1>5 DEF LifecycleInv, TypeOK

LEMMA ConnectFirstHolds ==
    ASSUME LifecycleInv, proc = "up", ConnectFirst,
           UNCHANGED <<listening, work, sync, ending, fate, nFault>>
    PROVE  LifecycleInv'
<1>1. RedisTypeOK'
  BY DEF ConnectFirst, Disconnected, LifecycleInv, TypeOK, RedisTypeOK, Boot, RedisBoot,
         Client, ClientStatus, settings
<1>2. OneClient' /\ SecondClientIsLast' /\ FirstClientGivenUp'
  BY DEF ConnectFirst, Disconnected, LifecycleInv, TypeOK, RedisTypeOK, OneClient,
         SecondClientIsLast, FirstClientGivenUp, RedisBoot, Client, settings
<1>3. ProcessTypeOK' /\ FlagsTypeOK' /\ DrainedBeforeEnd'
  BY RestUntouched DEF ConnectFirst, Disconnected
<1>5. FirstClientLasts' /\ ShutdownAfterPorts'
  BY DEF ConnectFirst, Disconnected, LifecycleInv, TypeOK, RedisTypeOK,
         FirstClientLasts, FirstClientGivenUp, ShutdownAfterPorts, redisVars, settings,
         work, sync, ending, fate, Client
<1> QED BY <1>1, <1>2, <1>3, <1>5 DEF LifecycleInv, TypeOK

LEMMA MethodFailsHolds ==
    ASSUME LifecycleInv, proc = "up", MethodFails,
           UNCHANGED <<listening, work, sync, ending, fate, nFault>>
    PROVE  LifecycleInv'
<1>1. RedisTypeOK'
  BY MethodsBounded DEF MethodFails, LifecycleInv, TypeOK, RedisTypeOK, Boot, RedisBoot,
         Client, ClientStatus, settings
<1>2. OneClient' /\ SecondClientIsLast' /\ FirstClientGivenUp'
  BY DEF MethodFails, LifecycleInv, TypeOK, RedisTypeOK, OneClient, SecondClientIsLast,
         FirstClientGivenUp, RedisBoot, Client, settings
<1>3. ProcessTypeOK' /\ FlagsTypeOK' /\ DrainedBeforeEnd'
  BY RestUntouched DEF MethodFails
<1>5. FirstClientLasts' /\ ShutdownAfterPorts'
  BY DEF MethodFails, LifecycleInv, TypeOK, RedisTypeOK, FirstClientLasts,
         FirstClientGivenUp, ShutdownAfterPorts, redisVars, settings, work, sync,
         ending, fate, Client
<1> QED BY <1>1, <1>2, <1>3, <1>5 DEF LifecycleInv, TypeOK

LEMMA MethodStartsHolds ==
    ASSUME LifecycleInv, proc = "up", MethodStarts,
           UNCHANGED <<listening, work, sync, ending, fate, nFault>>
    PROVE  LifecycleInv'
<1>0. up' \in [Host -> BOOLEAN]
  BY DEF MethodStarts, LifecycleInv, TypeOK, RedisTypeOK, Host
<1>1. RedisTypeOK'
  BY <1>0 DEF MethodStarts, LifecycleInv, TypeOK, RedisTypeOK, Boot, RedisBoot, Client,
         ClientStatus, settings
<1>2. OneClient' /\ SecondClientIsLast' /\ FirstClientGivenUp'
  BY DEF MethodStarts, LifecycleInv, TypeOK, RedisTypeOK, OneClient, SecondClientIsLast,
         FirstClientGivenUp, RedisBoot, Client, settings
<1>3. ProcessTypeOK' /\ FlagsTypeOK' /\ DrainedBeforeEnd'
  BY RestUntouched DEF MethodStarts
<1>5. FirstClientLasts' /\ ShutdownAfterPorts'
  BY DEF MethodStarts, LifecycleInv, TypeOK, RedisTypeOK, FirstClientLasts,
         FirstClientGivenUp, ShutdownAfterPorts, redisVars, settings, work, sync,
         ending, fate, Client
<1> QED BY <1>1, <1>2, <1>3, <1>5 DEF LifecycleInv, TypeOK

LEMMA NoMethodLeftHolds ==
    ASSUME LifecycleInv, proc = "up", NoMethodLeft,
           UNCHANGED <<listening, work, sync, ending, fate, nFault>>
    PROVE  LifecycleInv'
<1>1. RedisTypeOK'
  BY DEF NoMethodLeft, LifecycleInv, TypeOK, RedisTypeOK, Boot, RedisBoot, Client,
         ClientStatus, settings
<1>2. OneClient' /\ SecondClientIsLast' /\ FirstClientGivenUp'
  BY DEF NoMethodLeft, LifecycleInv, TypeOK, RedisTypeOK, OneClient, SecondClientIsLast,
         FirstClientGivenUp, RedisBoot, Client, settings
<1>3. ProcessTypeOK' /\ FlagsTypeOK' /\ DrainedBeforeEnd'
  BY RestUntouched DEF NoMethodLeft
<1>5. FirstClientLasts' /\ ShutdownAfterPorts'
  BY DEF NoMethodLeft, LifecycleInv, TypeOK, RedisTypeOK, FirstClientLasts,
         FirstClientGivenUp, ShutdownAfterPorts, redisVars, settings, work, sync,
         ending, fate, Client
<1> QED BY <1>1, <1>2, <1>3, <1>5 DEF LifecycleInv, TypeOK

LEMMA PollHolds ==
    ASSUME LifecycleInv, proc = "up", Poll,
           UNCHANGED <<listening, work, sync, ending, fate, nFault>>
    PROVE  LifecycleInv'
<1>1. RedisTypeOK'
  BY MaxPollsAssumption DEF Poll, Verified, LifecycleInv, TypeOK, RedisTypeOK, Boot,
         RedisBoot, Client, ClientStatus, settings
<1>2. OneClient' /\ SecondClientIsLast' /\ FirstClientGivenUp'
  BY DEF Poll, Verified, LifecycleInv, TypeOK, RedisTypeOK, OneClient,
         SecondClientIsLast, FirstClientGivenUp, RedisBoot, Client, settings
<1>3. ProcessTypeOK' /\ FlagsTypeOK' /\ DrainedBeforeEnd'
  BY RestUntouched DEF Poll, Verified
<1>5. FirstClientLasts' /\ ShutdownAfterPorts'
  BY DEF Poll, Verified, LifecycleInv, TypeOK, RedisTypeOK, FirstClientLasts,
         FirstClientGivenUp, ShutdownAfterPorts, redisVars, settings, work, sync,
         ending, fate, Client
<1> QED BY <1>1, <1>2, <1>3, <1>5 DEF LifecycleInv, TypeOK

LEMMA ConnectSecondHolds ==
    ASSUME LifecycleInv, proc = "up", ConnectSecond,
           UNCHANGED <<listening, work, sync, ending, fate, nFault>>
    PROVE  LifecycleInv'
<1>1. RedisTypeOK'
  BY DEF ConnectSecond, LifecycleInv, TypeOK, RedisTypeOK, Boot, RedisBoot, Client,
         ClientStatus, settings
<1>2. OneClient' /\ SecondClientIsLast' /\ FirstClientGivenUp'
  BY DEF ConnectSecond, LifecycleInv, TypeOK, RedisTypeOK, OneClient,
         SecondClientIsLast, FirstClientGivenUp, RedisBoot, Client, settings
<1>3. ProcessTypeOK' /\ FlagsTypeOK' /\ DrainedBeforeEnd'
  BY RestUntouched DEF ConnectSecond
<1>5. FirstClientLasts' /\ ShutdownAfterPorts'
  BY DEF ConnectSecond, LifecycleInv, TypeOK, RedisTypeOK, FirstClientLasts,
         FirstClientGivenUp, ShutdownAfterPorts, redisVars, settings, work, sync,
         ending, fate, Client
<1> QED BY <1>1, <1>2, <1>3, <1>5 DEF LifecycleInv, TypeOK

LEMMA ReconnectHolds ==
    ASSUME LifecycleInv, NEW c \in Client, ClientStep(c)
    PROVE  LifecycleInv'
<1>1. RedisTypeOK'
  BY RetryLimitAssumption DEF ClientStep, Reconnect, GivesUp, Limited, LifecycleInv,
         TypeOK, RedisTypeOK, SecondClientIsLast, Client, ClientStatus, settings
<1>2. OneClient' /\ SecondClientIsLast' /\ FirstClientGivenUp'
  BY RetryLimitAssumption DEF ClientStep, Reconnect, GivesUp, Limited, LifecycleInv,
         TypeOK, RedisTypeOK, OneClient, SecondClientIsLast, FirstClientGivenUp,
         RedisBoot, Client, settings
<1>3. ProcessTypeOK' /\ FlagsTypeOK' /\ DrainedBeforeEnd'
  BY RestUntouched DEF ClientStep, Reconnect, GivesUp, Limited
<1>5. FirstClientLasts' /\ ShutdownAfterPorts'
  BY DEF ClientStep, Reconnect, GivesUp, Limited, LifecycleInv, TypeOK, RedisTypeOK,
         FirstClientLasts, FirstClientGivenUp, ShutdownAfterPorts, redisVars, settings,
         work, sync, ending, fate, Client
<1> QED BY <1>1, <1>2, <1>3, <1>5 DEF LifecycleInv, TypeOK

LEMMA RedisGoesHolds ==
    ASSUME LifecycleInv, NEW h \in Host, RedisGoes(h)
    PROVE  LifecycleInv'
<1>1. RedisTypeOK'
  BY DEF RedisGoes, RedisFails, Fault, LifecycleInv, TypeOK, RedisTypeOK, ClientStatus,
         settings
<1>2. OneClient' /\ SecondClientIsLast' /\ FirstClientGivenUp'
  BY DEF RedisGoes, RedisFails, Fault, LifecycleInv, TypeOK, RedisTypeOK, OneClient,
         SecondClientIsLast, FirstClientGivenUp, RedisBoot, Client, settings
<1>3. ProcessTypeOK' /\ DrainedBeforeEnd'
  BY MaxFaultsAssumption DEF RedisGoes, RedisFails, Fault, LifecycleInv, TypeOK,
         ProcessTypeOK, DrainedBeforeEnd, ShutdownAfterPorts, work, sync, ending, fate,
         Stop
<1>4. FlagsTypeOK'
  BY Zenon DEF RedisGoes, RedisFails, Fault, LifecycleInv, TypeOK, FlagsTypeOK, work,
         sync, ending, fate
<1>5. FirstClientLasts' /\ ShutdownAfterPorts'
  BY DEF RedisGoes, RedisFails, Fault, LifecycleInv, TypeOK, RedisTypeOK,
         FirstClientLasts, FirstClientGivenUp, ShutdownAfterPorts, redisVars, settings,
         work, sync, ending, fate, Client
<1> QED BY <1>1, <1>2, <1>3, <1>4, <1>5 DEF LifecycleInv, TypeOK

LEMMA RedisComesHolds ==
    ASSUME LifecycleInv, NEW h \in Host, RedisComes(h)
    PROVE  LifecycleInv'
<1>1. RedisTypeOK'
  BY DEF RedisComes, RedisReturns, LifecycleInv, TypeOK, RedisTypeOK, settings
<1>2. OneClient' /\ SecondClientIsLast' /\ FirstClientGivenUp'
  BY DEF RedisComes, RedisReturns, LifecycleInv, TypeOK, RedisTypeOK, OneClient,
         SecondClientIsLast, FirstClientGivenUp, RedisBoot, Client, settings
<1>3. ProcessTypeOK' /\ FlagsTypeOK' /\ DrainedBeforeEnd'
  BY RestUntouched DEF RedisComes, RedisReturns
<1>5. FirstClientLasts' /\ ShutdownAfterPorts'
  BY DEF RedisComes, RedisReturns, LifecycleInv, TypeOK, RedisTypeOK, FirstClientLasts,
         FirstClientGivenUp, ShutdownAfterPorts, redisVars, settings, work, sync,
         ending, fate, Client
<1> QED BY <1>1, <1>2, <1>3, <1>5 DEF LifecycleInv, TypeOK
-----------------------------------------------------------------------------
(* The conjuncts LifecycleInv consists of are invariants of the process:   *)
(* one case per action.                                                    *)
THEOREM LifecycleInductive == LifecycleInv /\ [Next]_vars => LifecycleInv'
<1> SUFFICES ASSUME LifecycleInv, [Next]_vars PROVE LifecycleInv'
  OBVIOUS
<1>1. CASE StartStep
  <2>1. CASE GetRedis
    BY <2>1, ConnectFirstHolds, MethodFailsHolds, MethodStartsHolds, NoMethodLeftHolds,
       PollHolds, ConnectSecondHolds DEF GetRedis, RedisStep
  <2>2. CASE ExitOnFailedStart
    BY <2>2, GoneHolds DEF ExitOnFailedStart
  <2> QED
    BY <1>1, <2>1, <2>2, ConnectDatabaseHolds, ListenPortHolds, StartupSyncHolds,
       StartupCommandsHolds, ListenHttpHolds DEF StartStep
<1>2. CASE DatabaseRefuses \/ PortInUse \/ Restart
  BY <1>2, DatabaseRefusesHolds, PortInUseHolds, RestartHolds
<1>3. CASE \E s \in Socket : DeviceConnects(s) \/ DeviceLeaves(s) \/ UpdateEnds(s)
  BY <1>3, DeviceConnectsHolds, DeviceLeavesHolds, UpdateEndsHolds
<1>4. CASE Tick \/ IntervalStep
  BY <1>4, TickHolds, IntervalRedisHolds, IntervalRejectsHolds, IntervalRowsHolds
     DEF IntervalStep
<1>5. CASE Die
  BY <1>5, GoneHolds DEF Die
<1>6. CASE Signal \/ StopStep
  <2>1. CASE QuitRefused \/ Kill
    BY <2>1, GoneHolds DEF QuitRefused, Kill
  <2> QED
    BY <1>6, <2>1, SignalHolds, QuitHolds, StopAllServersHolds, ServersClosedHolds,
       AwaitSyncHolds DEF StopStep
<1>7. CASE \E h \in Host : RedisGoes(h) \/ RedisComes(h)
  BY <1>7, RedisGoesHolds, RedisComesHolds
<1>8. CASE \E c \in Client : ClientStep(c)
  BY <1>8, ReconnectHolds
<1>9. CASE UNCHANGED vars
  <2>1. UNCHANGED redisVars /\ UNCHANGED <<listening, work, sync, ending, fate, nFault>>
    BY <1>9 DEF vars
  <2>2. FirstClientLasts' /\ ShutdownAfterPorts'
    BY <2>1 DEF LifecycleInv, FirstClientLasts, ShutdownAfterPorts, redisVars, sync,
                ending, fate
  <2> QED BY <2>1, <2>2, RedisUntouched, RestUntouched DEF LifecycleInv, TypeOK
<1> QED
  BY <1>1, <1>2, <1>3, <1>4, <1>5, <1>6, <1>7, <1>8, <1>9 DEF Next

(* LifecycleInv holds in every state of the process.                       *)
THEOREM LifecycleInvInvariant == Spec => []LifecycleInv
  BY InitHolds, LifecycleInductive, PTL DEF Spec

(* The type invariant of start, run and stop, for every instance.          *)
THEOREM LifecycleTypeCorrect == Spec => []TypeOK
  BY LifecycleInvInvariant, PTL DEF LifecycleInv

(* RedisStarter: the client that failed to connect is dead by the time its *)
(* successor is in use, so there are never two live ones.                  *)
THEOREM OneLiveClient == Spec => []OneClient
  BY LifecycleInvInvariant, PTL DEF LifecycleInv

(* A client that connected on the first try goes on reconnecting, however  *)
(* long Redis is away, until the shutdown quits it.                        *)
THEOREM FirstClientNeverLost == Spec => []FirstClientLasts
  BY LifecycleInvInvariant, PTL DEF LifecycleInv

(* TcpServerService.onModuleDestroy: the process ends itself only when     *)
(* every device has left, and lets none in after its servers are closed.   *)
THEOREM DevicesLeaveFirst == Spec => []DrainedBeforeEnd
  BY LifecycleInvInvariant, PTL DEF LifecycleInv

(* A step that starts the startup sync is no step of a shutdown, and the   *)
(* step that ends the wait leaves no sync behind or no round to wait.      *)
LEMMA StartupSyncAwaitedHolds ==
    ASSUME LifecycleInv, StartupSyncAwaited, [Next]_vars
    PROVE  StartupSyncAwaited'
<1> USE DEF StartupSyncAwaited
<1>1. CASE UNCHANGED <<stop, waited, isSyncing>>
  BY <1>1, Zenon
<1>2. CASE stop' # "kill"
  BY <1>2
<1>3. CASE isSyncing' = FALSE
  BY <1>3
<1>4. CASE AwaitSync
  <2>1. waited \in 0..MaxWaits
    BY DEF LifecycleInv, TypeOK, ProcessTypeOK
  <2>2. stop' = "kill" => ~(AwaitsStartup /\ waited < MaxWaits) /\ waited' = waited
    BY <1>4 DEF AwaitSync
  <2>3. isSyncing' = isSyncing
    BY <1>4 DEF AwaitSync, sync
  <2> QED BY <2>2, <2>3, Zenon DEF AwaitsStartup
<1>5. CASE \E p \in Port : ListenPort(p)
  <2>1. boot = "listen" /\ stop' = stop
    BY <1>5 DEF ListenPort, ending
  <2>2. stop = "no"
    BY <2>1 DEF LifecycleInv, ShutdownAfterPorts
  <2> QED BY <1>2, <2>1, <2>2
<1>6. CASE StartStep \/ DatabaseRefuses \/ PortInUse \/ Restart
  BY <1>1, <1>3, <1>5, <1>6, Zenon
     DEF StartStep, ConnectDatabase, DatabaseRefuses, GetRedis, PortInUse, StartupSync,
         StartupCommands, ListenHttp, ExitOnFailedStart, Restart, Gone, sync, ending
<1>7. CASE \/ \E s \in Socket : DeviceConnects(s) \/ DeviceLeaves(s) \/ UpdateEnds(s)
           \/ Tick \/ IntervalStep \/ Die
  BY <1>1, <1>3, <1>7, Zenon
     DEF DeviceConnects, DeviceLeaves, UpdateEnds, Tick, IntervalStep, IntervalRedis,
         IntervalRejects, IntervalRows, Die, Gone, sync, ending
<1>8. CASE Signal \/ StopStep
  BY <1>2, <1>3, <1>4, <1>8
     DEF Signal, StopStep, Quit, QuitRefused, StopAllServers, ServersClosed, Kill, Gone
<1>9. CASE \/ \E h \in Host : RedisGoes(h) \/ RedisComes(h)
           \/ \E c \in Client : ClientStep(c)
           \/ UNCHANGED vars
  BY <1>1, <1>9, Zenon DEF RedisGoes, RedisComes, ClientStep, vars, sync, ending
<1> QED
  BY <1>5, <1>6, <1>7, <1>8, <1>9 DEF Next

(* A signal during the startup sync does not cut that sync off while       *)
(* beforeApplicationShutdown has rounds left to wait.                      *)
THEOREM StartupSyncAlwaysAwaited == Spec => []StartupSyncAwaited
<1>1. Init => StartupSyncAwaited
  BY DEF Init, StartupSyncAwaited
<1> QED BY <1>1, StartupSyncAwaitedHolds, LifecycleInvInvariant, PTL DEF Spec
=============================================================================
