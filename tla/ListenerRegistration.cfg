\* Devices that are registered and removed while they connect and change their
\* IMEIs, with the startup sync and one interval running.
SPECIFICATION Spec
CONSTANTS
  s1 = s1  s2 = s2  d1 = d1  d2 = d2  a1 = a1  a2 = a2  None = None
  Socket = {s1}
  ConnectionId = {a1, a2}
  Device = {d1, d2}
  Command = {}
  ConnectionIdOf <- OwnId
  ProtocolOf <- AllGt06
  TargetOf <- AllForD1
  Oversized = {}
  InitialDevices = {d1}  InitialStatus = {}  InitialRows = {}
  MaxData = 2  MaxBatch = 3  Chunk <- Impostor
  MaxTicks = 1  MaxCrashes = 0  MaxChanges = 1
  EarlyConnections = TRUE
INVARIANTS AuthorizedWasRegistered NoTraceOfUnregistered IndInv FixesAreOwn
PROPERTIES SyncReplacesSet AcceptedIsForwarded
CHECK_DEADLOCK FALSE
