CONSTANTS
    gt06 = gt06
    teltonika = teltonika
    s1 = s1
    s2 = s2
    Port = {gt06, teltonika}
    Socket = {s1, s2}
    PortOf <- PortOfBoth
    Systems = {"macos"}
    RetryLimit = 1
    MaxPolls = 2
    MaxWaits = 1
    MaxFaults = 2

SPECIFICATION FairSpec

INVARIANTS
    LifecycleInv
    DrainedBeforeEnd
    StartupSyncAwaited

PROPERTIES
    Recovers
    ShutdownEnds

CHECK_DEADLOCK FALSE
