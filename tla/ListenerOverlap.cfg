\* Command syncs that overlap with each other and with requests.
SPECIFICATION Spec
CONSTANTS
  s1 = s1  s2 = s2  d1 = d1  d2 = d2  a1 = a1  a2 = a2  None = None
  Socket = {s1}
  ConnectionId = {a1, a2}
  Device = {d1}
  Command = {1, 2, 3}
  ConnectionIdOf <- OwnId
  ProtocolOf <- AllGt06
  TargetOf <- AllForD1
  Oversized = {}
  InitialDevices = {d1}  InitialStatus = {}  InitialRows = {1}
  MaxData = 0  MaxBatch = 1  Chunk <- Logins
  MaxTicks = 2  MaxCrashes = 0  MaxChanges = 0
  EarlyConnections = FALSE
PROPERTIES ListedStays
CHECK_DEADLOCK FALSE
